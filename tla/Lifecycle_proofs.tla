-------------------------- MODULE Lifecycle_proofs --------------------------
(***************************************************************************)
(* Theorems about Lifecycle, for any number of processes, commands and     *)
(* kills.                                                                  *)
(***************************************************************************)
EXTENDS Lifecycle, TLAPS

LEMMA InitLifecycle == Init => TypeOK /\ LockInv
<1>. SUFFICES ASSUME Init PROVE TypeOK /\ LockInv
  OBVIOUS
<1>1. pc \in [Pids -> Points] /\ job \in [Pids -> Jobs]
  BY DEF Init, Points, Jobs
<1>2. seen \in [Pids -> Pids \cup {NoPid}] /\ \A p \in Pids : pc[p] = "none"
  BY DEF Init
<1>3. kills \in 0..MaxKills /\ commands \in Nat
  BY LifecycleAssumption DEF Init
<1>4. TypeOK
  BY <1>1, <1>2, <1>3 DEF Init, TypeOK
<1>5. LockInv
  BY <1>2 DEF Init, LockInv, Serving, Handling
<1>. QED  BY <1>4, <1>5

\* The ways a process gets from one step of a command to the next, and its end.
LEMMA MoveType ==
  ASSUME TypeOK, NEW p \in Pids, NEW point \in Points \ {"kill"}, NEW rest \in Jobs,
         Goes(p, point, rest), pidfile' \in Pids \cup {NoPid},
         UNCHANGED <<lockfile, commands, kills>>
  PROVE  TypeOK'
BY DEF TypeOK, Goes, Unlocked

LEMMA DiesType ==
  ASSUME TypeOK, NEW p \in Pids, Dies(p), pidfile' \in Pids \cup {NoPid},
         UNCHANGED <<lockfile, commands>>, kills' \in 0..MaxKills
  PROVE  TypeOK'
BY DEF TypeOK, Dies, Unlocked, Points, Jobs

LEMMA StepType == ASSUME TypeOK, NEW p \in Pids, Step(p) PROVE TypeOK'
<1>1. ASSUME NoDaemonFound(p), UNCHANGED <<lockfile, pidfile, commands, kills>>
      PROVE  TypeOK'
  <2>1. CASE Dies(p)
    BY <1>1, <2>1, DiesType DEF TypeOK
  <2>2. CASE Goes(p, "fork", "start") \/ Goes(p, "probe", "start")
    BY <1>1, <2>2, MoveType DEF TypeOK, Points, AtWork, Jobs
  <2>. QED  BY <1>1, <2>1, <2>2 DEF NoDaemonFound
<1>2. CASE NeverLocked(p) \/ Release(p) \/ ReadNothing(p)
  BY <1>1, <1>2 DEF NeverLocked, Release, ReadNothing
<1>3. CASE ProbeBusy(p)
  BY <1>3, MoveType DEF ProbeBusy, TypeOK, Points, AtWork
<1>4. CASE AlreadyRunning(p)
  BY <1>4, MoveType, DiesType DEF AlreadyRunning, TypeOK, Points, AtWork, Jobs
<1>5. CASE GiveUp(p) \/ Exit(p)
  BY <1>5, DiesType DEF GiveUp, Exit, TypeOK
<1>6. CASE Kill(p)
  <2>1. Signalled(p) \subseteq Pids
    BY <1>6 DEF Signalled, Kill, TypeOK
  <2>2. stopping' \subseteq Pids /\ lock' \in Pids \cup {NoPid}
    BY <1>6, <2>1 DEF Kill, TypeOK
  <2>3. pc' \in [Pids -> Points] /\ job' \in [Pids -> Jobs]
    BY <1>6 DEF Kill, TypeOK, Points, AtWork, Jobs
  <2>4. seen' \in [Pids -> Pids \cup {NoPid}]
    BY <1>6 DEF Kill, TypeOK
  <2>5. \A q \in Pids : pc'[q] = "kill" => seen'[q] \in Pids
    BY <1>6 DEF Kill, TypeOK
  <2>. QED  BY <1>6, <2>2, <2>3, <2>4, <2>5 DEF Kill, TypeOK
<1>7. CASE ReadPid(p)
  BY <1>7 DEF ReadPid, TypeOK, Points, AtWork
<1>8. CASE ProbeFree(p) \/ Acquire(p) \/ \E d \in Pids : Fork(p, d)
  BY <1>8 DEF ProbeFree, Acquire, Fork, TypeOK, Points, AtWork, Serving
<1>9. CASE TruncatePidfile(p) \/ WritePidfile(p) \/ InstallHandlers(p) \/ StopLoop(p)
           \/ RemovePidfile(p)
  BY <1>9 DEF TruncatePidfile, WritePidfile, InstallHandlers, StopLoop, RemovePidfile,
              TypeOK, Points, Serving, Handling
<1>. QED  BY <1>2, <1>3, <1>4, <1>5, <1>6, <1>7, <1>8, <1>9 DEF Step

LEMMA OutsideType == ASSUME TypeOK, NEW p \in Pids, Outside(p) PROVE TypeOK'
<1>1. CASE \E c \in Commands : Command(p, c)
  BY <1>1 DEF Command, TypeOK, Points, AtWork, Jobs
<1>2. CASE Unrelated(p)
  BY <1>2 DEF Unrelated, TypeOK, Points
<1>3. CASE Killed(p)
  <2>1. kills' \in 0..MaxKills
    BY <1>3, LifecycleAssumption DEF Killed, TypeOK
  <2>. QED  BY <1>3, <2>1, DiesType DEF Killed, TypeOK
<1>. QED  BY <1>1, <1>2, <1>3 DEF Outside

\* Every process is at a point of its program, whatever happens.
THEOREM LifecycleTypeCorrect == Spec => []TypeOK
<1>1. TypeOK /\ [Next]_vars => TypeOK'
  BY StepType, OutsideType DEF Next, vars, TypeOK
<1>. QED  BY <1>1, InitLifecycle, PTL DEF Spec

----------------------------------------------------------------------------
(* The lock.                                                               *)

\* A process that moves between points outside the critical sections, or leaves
\* the probe's, keeps the invariant; so does one that dies anywhere.
LEMMA MoveLock ==
  ASSUME TypeOK, LockInv, NEW p \in Pids, pc[p] \notin Serving,
         NEW point \in AtWork \ {"probing"}, NEW rest,
         Goes(p, point, rest), UNCHANGED pidfile
  PROVE  LockInv'
BY LifecycleAssumption DEF TypeOK, LockInv, Goes, Unlocked, AtWork, Serving, Handling

LEMMA DiesLock ==
  ASSUME TypeOK, LockInv, NEW p \in Pids, Dies(p), UNCHANGED pidfile
  PROVE  LockInv'
BY LifecycleAssumption DEF TypeOK, LockInv, Dies, Unlocked, Serving, Handling

LEMMA StepLock == ASSUME TypeOK, LockInv, NEW p \in Pids, Step(p) PROVE LockInv'
<1>1. ASSUME NoDaemonFound(p), UNCHANGED pidfile, pc[p] \notin Serving
      PROVE  LockInv'
  BY <1>1, MoveLock, DiesLock DEF NoDaemonFound, AtWork
<1>2. CASE NeverLocked(p) \/ Release(p) \/ ReadNothing(p)
  BY <1>1, <1>2 DEF NeverLocked, Release, ReadNothing, Serving, Handling
<1>3. CASE ProbeBusy(p) \/ AlreadyRunning(p)
  BY <1>3, MoveLock, DiesLock DEF ProbeBusy, AlreadyRunning, AtWork, Serving, Handling
<1>4. CASE GiveUp(p) \/ Exit(p)
  BY <1>4, DiesLock DEF GiveUp, Exit
<1>5. CASE Kill(p)
  <2>1. pc[p] = "kill" /\ lock # p /\ UNCHANGED pidfile
    BY <1>5, LifecycleAssumption DEF Kill, LockInv, Serving, Handling
  <2>2. \A q \in Pids : /\ q \in Falls(p) => pc'[q] = "none"
                        /\ q \notin Falls(p) /\ q # p => pc'[q] = pc[q]
                        /\ q = p => pc'[q] \in {"none", "probe"}
    BY <1>5 DEF Kill
  <2>3. lock' = IF lock \in Falls(p) THEN NoPid ELSE lock
    BY <1>5 DEF Kill
  <2>. QED  BY <2>1, <2>2, <2>3, LifecycleAssumption
            DEF LockInv, TypeOK, Serving, Handling
<1>6. CASE ReadPid(p) \/ \E d \in Pids : Fork(p, d)
  BY <1>6, LifecycleAssumption DEF ReadPid, Fork, NewPid, TypeOK, LockInv, Serving, Handling
<1>7. CASE ProbeFree(p) \/ Acquire(p)
  BY <1>7, LifecycleAssumption DEF ProbeFree, Acquire, TypeOK, LockInv, Serving, Handling
<1>8. CASE TruncatePidfile(p) \/ WritePidfile(p) \/ RemovePidfile(p)
  <2>1. lock = p /\ \A q \in Pids : pc[q] \in Serving => q = p
    BY <1>8 DEF TruncatePidfile, WritePidfile, RemovePidfile, LockInv, Serving, Handling
  <2>. QED  BY <1>8, <2>1 DEF TruncatePidfile, WritePidfile, RemovePidfile, TypeOK, LockInv,
                              Serving, Handling
<1>9. CASE InstallHandlers(p) \/ StopLoop(p)
  BY <1>9 DEF InstallHandlers, StopLoop, TypeOK, LockInv, Serving, Handling
<1>. QED  BY <1>2, <1>3, <1>4, <1>5, <1>6, <1>7, <1>8, <1>9 DEF Step

LEMMA OutsideLock == ASSUME TypeOK, LockInv, NEW p \in Pids, Outside(p) PROVE LockInv'
<1>1. CASE (\E c \in Commands : Command(p, c)) \/ Unrelated(p)
  BY <1>1, LifecycleAssumption
  DEF Command, Unrelated, NewPid, TypeOK, LockInv, Serving, Handling
<1>2. CASE Killed(p)
  BY <1>2, DiesLock DEF Killed
<1>. QED  BY <1>1, <1>2 DEF Outside

LEMMA LockInvariant == Spec => []LockInv
<1>1. TypeOK /\ LockInv /\ [Next]_vars => LockInv'
  BY StepLock, OutsideLock DEF Next, vars, LockInv
<1>. QED  BY <1>1, InitLifecycle, LifecycleTypeCorrect, PTL DEF Spec

\* Two daemons never serve one herdr: not when starts race, not when a daemon is
\* killed while another comes up, and not because of the probes.
THEOREM OneDaemon == Spec => []AtMostOneDaemon
<1>1. LockInv => AtMostOneDaemon
  BY DEF LockInv, AtMostOneDaemon
<1>. QED  BY <1>1, LockInvariant, PTL

\* The pidfile names the daemon that is up: a predecessor cannot remove it, and a
\* daemon that came too late for the lock cannot overwrite it.
THEOREM FoundDaemon == Spec => []RunningDaemonIsFound
<1>1. LockInv => RunningDaemonIsFound
  BY DEF LockInv, RunningDaemonIsFound, Serving, Handling
<1>. QED  BY <1>1, LockInvariant, PTL
----------------------------------------------------------------------------
(* One daemon after another: Lifecycle implements SoleDaemon.              *)

\* At the start there is no daemon and no pidfile.
LEMMA InitSole == Init => Sole!DaemonInit
BY LifecycleAssumption DEF Init, Sole!DaemonInit, Daemon, Phase

\* Who serves is the daemon, and nobody else ever is.
LEMMA ServingIsDaemon ==
  ASSUME TypeOK, LockInv, NEW d \in Pids, pc[d] \in Serving
  PROVE  Daemon = d /\ Daemon # NoPid /\ lock = d
BY LifecycleAssumption DEF TypeOK, LockInv, Daemon

\* Whoever does not serve and will not is of no account.
LEMMA AloofSole ==
  ASSUME TypeOK, LockInv, UNCHANGED pidfile,
         NEW p \in Pids, pc[p] \notin Serving, pc'[p] \notin Serving,
         \A q \in Pids \ {p} : pc'[q] = pc[q],
         lock' = lock \/ (lock \in {p, NoPid} /\ lock' \in {p, NoPid})
  PROVE  UNCHANGED <<Daemon, Phase, pidfile>>
BY LifecycleAssumption DEF TypeOK, LockInv, Daemon, Phase

\* A process that dies ends the daemon if it was the daemon.
LEMMA DiesSole ==
  ASSUME TypeOK, LockInv, NEW p \in Pids, Dies(p), UNCHANGED pidfile
  PROVE  Sole!End \/ UNCHANGED <<Daemon, Phase, pidfile>>
<1>1. CASE pc[p] \in Serving
  <2>1. lock = p /\ Daemon = p /\ Daemon # NoPid
    BY <1>1, ServingIsDaemon
  <2>2. lock' = NoPid /\ NoPid \notin Pids
    BY <2>1, LifecycleAssumption DEF Dies, Unlocked
  <2>3. Daemon' = NoPid /\ Phase' = "none"
    BY <2>2 DEF Daemon, Phase
  <2>4. Phase # "none"
    BY <2>1 DEF Phase
  <2>. QED  BY <2>3, <2>4 DEF Sole!End
<1>2. CASE pc[p] \notin Serving
  <2>1. pc'[p] \notin Serving /\ \A q \in Pids \ {p} : pc'[q] = pc[q]
    BY DEF Dies, TypeOK, Serving, Handling
  <2>2. lock' = lock \/ (lock = p /\ lock' = NoPid)
    BY DEF Dies, Unlocked
  <2>. QED  BY <1>2, <2>1, <2>2, AloofSole
<1>. QED  BY <1>1, <1>2

\* What a command does between its program points is unseen, and so is a probe's release.
LEMMA GoesSole ==
  ASSUME TypeOK, LockInv, NEW p \in Pids, pc[p] \in AtWork,
         NEW point \in AtWork, NEW rest, Goes(p, point, rest), UNCHANGED pidfile
  PROVE  UNCHANGED <<Daemon, Phase, pidfile>>
<1>1. pc[p] \notin Serving /\ pc'[p] \notin Serving
  BY DEF Goes, TypeOK, AtWork, Serving, Handling
<1>2. \A q \in Pids \ {p} : pc'[q] = pc[q]
  BY DEF Goes, TypeOK
<1>3. lock' = lock \/ (lock = p /\ lock' = NoPid)
  BY DEF Goes, Unlocked
<1>. QED  BY <1>1, <1>2, <1>3, AloofSole

\* A signal ends the daemon that does not handle it yet, or some other process.
LEMMA KillSole ==
  ASSUME TypeOK, LockInv, NEW p \in Pids, Kill(p)
  PROVE  Sole!End \/ UNCHANGED <<Daemon, Phase, pidfile>>
<1>1. /\ lock' = IF lock \in Falls(p) THEN NoPid ELSE lock
      /\ UNCHANGED pidfile
  BY DEF Kill
<1>2. pc[p] = "kill" /\ lock # p
  BY LifecycleAssumption DEF Kill, LockInv, Serving, Handling
<1>3. CASE lock \in Falls(p)
  <2>1. Daemon' = NoPid /\ Phase' = "none"
    BY <1>1, <1>3, LifecycleAssumption DEF Daemon, Phase
  <2>2. CASE Daemon = NoPid
    BY <1>1, <2>1, <2>2 DEF Phase
  <2>3. CASE Daemon # NoPid
    BY <1>1, <2>1, <2>3 DEF Phase, Sole!End
  <2>. QED  BY <2>2, <2>3
<1>4. CASE lock \notin Falls(p)
  <2>1. lock \in Pids => pc'[lock] = pc[lock]
    BY <1>2, <1>4 DEF Kill
  <2>. QED  BY <1>1, <1>4, <2>1 DEF Daemon, Phase
<1>. QED  BY <1>3, <1>4

\* What the daemon does itself, from the lock to the end of its loop.
LEMMA ServeSole ==
  ASSUME TypeOK, LockInv, NEW d \in Pids,
         \/ TruncatePidfile(d) \/ WritePidfile(d) \/ InstallHandlers(d)
         \/ StopLoop(d) \/ RemovePidfile(d)
  PROVE  Sole!DaemonNext \/ UNCHANGED <<Daemon, Phase, pidfile>>
<1>1. pc[d] \in Serving /\ pc'[d] \in Serving /\ lock' = lock
  BY DEF TruncatePidfile, WritePidfile, InstallHandlers, StopLoop, RemovePidfile, TypeOK,
         Serving, Handling
<1>2. lock = d /\ Daemon = d /\ Daemon # NoPid
  BY <1>1, ServingIsDaemon
<1>3. Daemon' = d
  BY <1>1, <1>2 DEF Daemon
<1>4. CASE TruncatePidfile(d)
  <2>1. Phase = "coming" /\ Phase' = "coming" /\ pidfile' = NoPid
    BY <1>1, <1>2, <1>3, <1>4 DEF TruncatePidfile, TypeOK, Phase
  <2>. QED  BY <1>2, <1>3, <2>1 DEF Sole!Clear, Sole!DaemonNext
<1>5. CASE WritePidfile(d)
  <2>1. Phase = "coming" /\ Phase' = "announced" /\ pidfile' = d
    BY <1>1, <1>2, <1>3, <1>5 DEF WritePidfile, TypeOK, Phase
  <2>. QED  BY <1>2, <1>3, <2>1 DEF Sole!Announce, Sole!DaemonNext
<1>6. CASE RemovePidfile(d)
  <2>1. Phase = "announced" /\ Phase' = "leaving" /\ pidfile' = NoPid
    BY <1>1, <1>2, <1>3, <1>6 DEF RemovePidfile, TypeOK, Phase
  <2>. QED  BY <1>2, <1>3, <2>1 DEF Sole!Retract, Sole!DaemonNext
<1>7. CASE InstallHandlers(d) \/ StopLoop(d)
  <2>1. Phase = "announced" /\ Phase' = "announced" /\ pidfile' = pidfile
    BY <1>1, <1>2, <1>3, <1>7 DEF InstallHandlers, StopLoop, TypeOK, Phase
  <2>. QED  BY <1>2, <1>3, <2>1
<1>. QED  BY <1>4, <1>5, <1>6, <1>7

\* The daemon comes with the lock.
LEMMA AcquireSole ==
  ASSUME TypeOK, LockInv, NEW d \in Pids, Acquire(d)
  PROVE  Sole!DaemonNext \/ UNCHANGED <<Daemon, Phase, pidfile>>
<1>1. CASE lock = NoPid
  <2>1. lock' = d /\ pc'[d] = "pidfile" /\ UNCHANGED pidfile
    BY <1>1 DEF Acquire, TypeOK
  <2>2. Daemon = NoPid /\ Phase = "none"
    BY <1>1, LifecycleAssumption DEF Daemon, Phase
  <2>3. Daemon' = d /\ Phase' = "coming"
    BY <2>1, LifecycleAssumption DEF Daemon, Phase, Serving
  <2>. QED  BY <2>1, <2>2, <2>3 DEF Sole!Come, Sole!DaemonNext
<1>2. CASE lock # NoPid
  <2>1. pc[d] \notin Serving /\ pc'[d] \notin Serving
    BY <1>2 DEF Acquire, TypeOK, Serving, Handling
  <2>2. UNCHANGED <<lock, pidfile>> /\ \A q \in Pids \ {d} : pc'[q] = pc[q]
    BY <1>2 DEF Acquire, TypeOK
  <2>. QED  BY <2>1, <2>2, AloofSole
<1>. QED  BY <1>1, <1>2

\* Every step of a process maps to a step of SoleDaemon or to a stutter.
LEMMA StepSole ==
  ASSUME TypeOK, LockInv, NEW p \in Pids, Step(p)
  PROVE  Sole!DaemonNext \/ UNCHANGED <<Daemon, Phase, pidfile>>
<1>1. ASSUME NoDaemonFound(p), UNCHANGED pidfile, pc[p] \in AtWork
      PROVE  Sole!DaemonNext \/ UNCHANGED <<Daemon, Phase, pidfile>>
  BY <1>1, GoesSole, DiesSole DEF NoDaemonFound, AtWork, Sole!DaemonNext
<1>2. CASE NeverLocked(p) \/ Release(p) \/ ReadNothing(p)
  BY <1>1, <1>2 DEF NeverLocked, Release, ReadNothing, AtWork
<1>3. CASE ProbeBusy(p) \/ AlreadyRunning(p)
  BY <1>3, GoesSole, DiesSole DEF ProbeBusy, AlreadyRunning, AtWork, Sole!DaemonNext
<1>4. CASE GiveUp(p) \/ Exit(p)
  BY <1>4, DiesSole DEF GiveUp, Exit, Sole!DaemonNext
<1>5. CASE Kill(p)
  BY <1>5, KillSole DEF Sole!DaemonNext
<1>6. CASE ReadPid(p) \/ ProbeFree(p)
  BY <1>6, AloofSole DEF ReadPid, ProbeFree, TypeOK, Serving, Handling
<1>7. ASSUME NEW d \in Pids, Fork(p, d)
      PROVE  UNCHANGED <<Daemon, Phase, pidfile>>
  <2>1. /\ UNCHANGED <<lock, pidfile>>
        /\ \A q \in Pids : pc[q] \in Serving \/ pc'[q] \in Serving => pc'[q] = pc[q]
    BY <1>7 DEF Fork, NewPid, TypeOK, Serving, Handling
  <2>. QED  BY <2>1 DEF Daemon, Phase
<1>8. CASE Acquire(p)
  BY <1>8, AcquireSole
<1>9. CASE TruncatePidfile(p) \/ WritePidfile(p) \/ InstallHandlers(p) \/ StopLoop(p)
           \/ RemovePidfile(p)
  BY <1>9, ServeSole
<1>. QED  BY <1>2, <1>3, <1>4, <1>5, <1>6, <1>7, <1>8, <1>9 DEF Step

\* So does what happens to processes from outside.
LEMMA OutsideSole ==
  ASSUME TypeOK, LockInv, NEW p \in Pids, Outside(p)
  PROVE  Sole!DaemonNext \/ UNCHANGED <<Daemon, Phase, pidfile>>
<1>1. CASE (\E c \in Commands : Command(p, c)) \/ Unrelated(p)
  BY <1>1, AloofSole DEF Command, Unrelated, NewPid, TypeOK, Serving, Handling
<1>2. CASE Killed(p)
  BY <1>2, DiesSole DEF Killed, Sole!DaemonNext
<1>. QED  BY <1>1, <1>2 DEF Outside

\* Daemons come one after the other and the pidfile is theirs alone, between the
\* processes that start, restart, stop and probe them, and however many are killed.
THEOREM ImplementsSoleDaemon == Spec => DaemonsTakeTurns
<1>1. TypeOK /\ LockInv /\ [Next]_vars => [Sole!DaemonNext]_<<Daemon, Phase, pidfile>>
  <2>1. ASSUME TypeOK, LockInv, NEW p \in Pids, Step(p) \/ Outside(p)
        PROVE  Sole!DaemonNext \/ UNCHANGED <<Daemon, Phase, pidfile>>
    BY <2>1, StepSole, OutsideSole
  <2>2. UNCHANGED vars => UNCHANGED <<Daemon, Phase, pidfile>>
    BY DEF vars, Daemon, Phase
  <2>. QED  BY <2>1, <2>2 DEF Next
<1>. QED  BY <1>1, InitSole, LifecycleTypeCorrect, LockInvariant, PTL
          DEF Spec, DaemonsTakeTurns, Sole!DaemonSpec, Sole!daemonVars
=============================================================================
