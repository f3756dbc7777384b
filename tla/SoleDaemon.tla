----------------------------- MODULE SoleDaemon -----------------------------
(***************************************************************************)
(* What the lock and the pidfile promise the other commands: there is one  *)
(* daemon at a time, the next comes only when the last is gone, and what   *)
(* is announced changes by the hand of the daemon alone, who announces     *)
(* itself once and takes that back once. Only a daemon that is killed      *)
(* leaves its announcement behind, until the next one clears it.           *)
(***************************************************************************)
CONSTANTS
  Pids,
  NoPid

VARIABLES
  daemon,     \* the daemon, or NoPid
  phase,      \* "none", "coming", "announced" or "leaving"
  announced   \* the pid other commands are told

daemonVars == <<daemon, phase, announced>>

DaemonInit == daemon = NoPid /\ phase = "none" /\ announced = NoPid

Come ==
  /\ phase = "none" /\ phase' = "coming"
  /\ daemon' \in Pids /\ UNCHANGED announced

Clear ==
  /\ phase = "coming" /\ announced' = NoPid
  /\ UNCHANGED <<daemon, phase>>

Announce ==
  /\ phase = "coming" /\ phase' = "announced"
  /\ announced' = daemon /\ UNCHANGED daemon

Retract ==
  /\ phase = "announced" /\ phase' = "leaving"
  /\ announced' = NoPid /\ UNCHANGED daemon

End ==
  /\ phase # "none" /\ phase' = "none"
  /\ daemon' = NoPid /\ UNCHANGED announced

DaemonNext == Come \/ Clear \/ Announce \/ Retract \/ End

DaemonSpec == DaemonInit /\ [][DaemonNext]_daemonVars
=============================================================================
