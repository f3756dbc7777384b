--------------------------- MODULE Servers_proofs ---------------------------
(***************************************************************************)
(* Theorems about Servers, for any servers, daemons, environments and      *)
(* terminals.                                                              *)
(***************************************************************************)
EXTENDS Servers, TLAPS

Inv == TypeOK /\ LockInv /\ RecordInv /\ NewInv /\ DueInv

\* Two servers share a directory's name only if their names are written alike.
LEMMA TagsTellApart ==
  ASSUME NEW s \in Hosts, NEW r \in Hosts, Alone(s), SessionTag(r) = SessionTag(s)
  PROVE  r = s
  <1>1. CASE s \in Sessions /\ r \in Sessions
    BY <1>1 DEF Alone, SessionTag
  <1>2. CASE s \notin Sessions /\ r \notin Sessions
    BY <1>2 DEF Alone, Hosts
  <1>3. CASE ~ (s \in Sessions <=> r \in Sessions)
    <2>1. \A x, y, z : <<x, y>> # <<z>>
      OBVIOUS
    <2> QED  BY <1>3, <2>1 DEF SessionTag
  <1> QED  BY <1>1, <1>2, <1>3

\* Whatever a process inherits, it means some server.
LEMMA SocketPathType ==
  ASSUME TypeOK, NEW e \in Environments \cup {Blank}
  PROVE  SocketPath(e) \in Hosts /\ SessionTag(SocketPath(e)) \in Dirs
  BY ServersAssumption DEF TypeOK, SocketPath, Dirs, Blank, Hosts

LEMMA InitInv == Init => Inv
  <1> USE ServersAssumption
  <1>1. Init => TypeOK
    BY DEF Init, TypeOK, Polling, Hosts
  <1>2. Init => LockInv /\ RecordInv /\ NewInv /\ DueInv
    BY DEF Init, LockInv, RecordInv, NewInv, DueInv, Entries, Polling
  <1> QED  BY <1>1, <1>2 DEF Inv

\* A daemon that starts has no part in anything yet.
LEMMA StartInv ==
  ASSUME Inv, NEW d \in Daemons, NEW e \in Environments, Start(d, e)
  PROVE  Inv'
  <1> USE ServersAssumption DEF Inv, historyVars
  <1>1. TypeOK'
    BY SocketPathType DEF TypeOK, Polling, Start, serverVars, fileVars, orderVars
  <1>2. LockInv'
    BY SocketPathType DEF TypeOK, LockInv, Polling, Start, serverVars, fileVars, orderVars
  <1>3. RecordInv'
    BY SocketPathType DEF TypeOK, RecordInv, Astray, Polling, Start, serverVars, fileVars, orderVars
  <1>4. DueInv'
    BY SocketPathType DEF TypeOK, DueInv, Astray, Polling, Start, serverVars, fileVars, orderVars
  <1>5. NewInv'
    BY DEF TypeOK, NewInv, Entries, Start, serverVars, fileVars, orderVars
  <1> QED  BY <1>1, <1>2, <1>3, <1>4, <1>5

\* The end of one daemon changes nothing for the others.
LEMMA EndsType ==
  ASSUME TypeOK, LockInv, NEW d \in Daemons, Ends(d)
  PROVE  /\ pc' \in [Daemons -> {"off", "lock", "pidfile", "attach"} \cup Polling]
         /\ env' \in [Daemons -> Environments \cup {Blank}]
         /\ dir' \in [Daemons -> Dirs \cup {NoDir}] /\ at' \in [Daemons -> Hosts]
         /\ memory' \in [Daemons -> SUBSET Terminals]
         /\ told' \in [Daemons -> SUBSET Signals]
         /\ lock' \in [Dirs -> Daemons \cup {Nobody}]
         /\ temp' \in [Dirs -> {Torn} \cup SUBSET Terminals]
         /\ \A e \in Daemons : pc'[e] # "off" => dir'[e] \in Dirs
         /\ \A e \in Daemons : pc'[e] = "rename" => temp'[dir'[e]] = memory'[e]
  <1>1. /\ pc' \in [Daemons -> {"off", "lock", "pidfile", "attach"} \cup Polling]
        /\ env' \in [Daemons -> Environments \cup {Blank}]
        /\ dir' \in [Daemons -> Dirs \cup {NoDir}] /\ at' \in [Daemons -> Hosts]
        /\ memory' \in [Daemons -> SUBSET Terminals]
        /\ told' \in [Daemons -> SUBSET Signals]
    BY DEF TypeOK, Ends, Hosts
  <1>2. /\ lock' \in [Dirs -> Daemons \cup {Nobody}]
        /\ temp' \in [Dirs -> {Torn} \cup SUBSET Terminals]
    BY DEF TypeOK, Ends
  <1>3. \A e \in Daemons : pc'[e] # "off" => dir'[e] \in Dirs
    BY DEF TypeOK, Ends
  <1>4. ASSUME NEW e \in Daemons, pc'[e] = "rename"
        PROVE  temp'[dir'[e]] = memory'[e]
    <2>1. e # d /\ pc[e] = "rename"
      BY <1>4 DEF Ends, TypeOK
    <2>2. dir'[e] = dir[e] /\ memory'[e] = memory[e] /\ lock[dir[e]] = e /\ dir[e] \in Dirs
      BY <2>1 DEF Ends, TypeOK, LockInv
    <2> QED  BY <2>1, <2>2 DEF Ends, TypeOK
  <1> QED  BY <1>1, <1>2, <1>3, <1>4

\* Nor for what a command has yet to reach.
LEMMA EndsDue ==
  ASSUME TypeOK, DueInv, NEW d \in Daemons, Ends(d), NEW e \in due, e # d
  PROVE  /\ pc'[e] \in Polling /\ ~ Astray(e)' /\ dir'[e] = dir[e] /\ at'[e] = at[e]
  BY DEF TypeOK, DueInv, Ends, Astray

\* Who gets the lock gets it alone.
LEMMA AcquireInv ==
  ASSUME Inv, NEW d \in Daemons, Acquire(d)
  PROVE  Inv'
  <1> USE ServersAssumption DEF Inv, historyVars
  <1>1. TypeOK'
    <2>1. CASE Ends(d)
      BY <2>1, EndsType DEF TypeOK, Acquire, serverVars, orderVars
    <2>2. CASE ~ Ends(d)
      BY <2>2 DEF TypeOK, Acquire, Polling, serverVars, orderVars
    <2> QED  BY <2>1, <2>2
  <1>2. LockInv'
    BY DEF TypeOK, LockInv, Polling, Acquire, Ends, serverVars, orderVars
  <1>3. RecordInv'
    BY DEF TypeOK, RecordInv, Astray, Polling, Acquire, Ends, serverVars, orderVars
  <1>4. DueInv'
    <2>1. SUFFICES ASSUME NEW e \in due
                   PROVE  /\ pc'[e] \in Polling /\ ~ Astray(e)' /\ pidfile[dir'[e]] = e
                          /\ at'[e] = at[e]
      BY DEF DueInv, Acquire, orderVars
    <2>2. pc[e] \in Polling /\ e # d /\ e \in Daemons
      BY DEF DueInv, TypeOK, Acquire, Polling
    <2>3. CASE Ends(d)
      BY <2>2, <2>3, EndsDue DEF DueInv
    <2>4. CASE ~ Ends(d)
      BY <2>2, <2>4 DEF DueInv, Acquire, TypeOK, Astray
    <2> QED  BY <2>3, <2>4
  <1>5. NewInv'
    BY DEF TypeOK, NewInv, Entries, Acquire, Ends, serverVars, fileVars, orderVars
  <1> QED  BY <1>1, <1>2, <1>3, <1>4, <1>5

\* A pidfile written where it does not belong hides the daemon it belonged to.
LEMMA WritePidfileInv ==
  ASSUME Inv, NEW d \in Daemons, WritePidfile(d)
  PROVE  Inv'
  <1> USE ServersAssumption DEF Inv, historyVars
  <1>1. TypeOK'
    BY SocketPathType DEF TypeOK, Polling, WritePidfile, StateDir, Hidden, serverVars
  <1>2. LockInv'
    BY SocketPathType DEF TypeOK, LockInv, Polling, WritePidfile, StateDir, Hidden, serverVars
  <1>3. RecordInv'
    BY SocketPathType DEF TypeOK, RecordInv, Astray, Polling, WritePidfile, StateDir, Hidden, serverVars
  <1>4. DueInv'
    <2>1. SUFFICES ASSUME NEW e \in due \ Hidden(d)
                   PROVE  /\ pc'[e] \in Polling /\ ~ Astray(e)' /\ pidfile'[dir[e]] = e
      BY DEF DueInv, WritePidfile
    <2>2. pc[e] \in Polling /\ e # d /\ e \in Daemons /\ ~ Astray(e) /\ pidfile[dir[e]] = e
      BY DEF DueInv, TypeOK, WritePidfile, Polling
    <2>3. dir[e] # StateDir(d)
      BY <2>2 DEF Hidden
    <2> QED  BY <2>2, <2>3 DEF WritePidfile, TypeOK, Astray, Polling
  <1>5. NewInv'
    BY DEF TypeOK, NewInv, Entries, WritePidfile, serverVars, fileVars, orderVars
  <1> QED  BY <1>1, <1>2, <1>3, <1>4, <1>5

\* A daemon starts from its file, which has what is on record.
LEMMA AttachInv ==
  ASSUME Inv, NEW d \in Daemons, Attach(d)
  PROVE  Inv'
  <1> USE ServersAssumption DEF Inv, historyVars
  <1>1. TypeOK'
    BY SocketPathType DEF TypeOK, Polling, Attach, Entries, serverVars, fileVars, orderVars
  <1>2. LockInv'
    BY SocketPathType DEF TypeOK, LockInv, Polling, Attach, Entries, serverVars, fileVars, orderVars
  <1>3. RecordInv'
    BY SocketPathType DEF TypeOK, RecordInv, Astray, Polling, Attach, Entries, serverVars, fileVars, orderVars
  <1>4. DueInv'
    BY SocketPathType DEF TypeOK, DueInv, Astray, Polling, Attach, Entries, serverVars, fileVars, orderVars
  <1>5. NewInv'
    BY DEF TypeOK, NewInv, Entries, Attach, serverVars, fileVars, orderVars
  <1> QED  BY <1>1, <1>2, <1>3, <1>4, <1>5

\* A daemon that ends leaves its files behind.
LEMMA ExitInv ==
  ASSUME Inv, NEW d \in Daemons, Exit(d)
  PROVE  Inv'
  <1> USE ServersAssumption DEF Inv, historyVars
  <1>1. TypeOK'
    <2>1. pidfile' \in [Dirs -> Daemons \cup {Nobody}]
      BY DEF TypeOK, Exit
    <2> QED  BY <2>1, EndsType DEF TypeOK, Exit, serverVars
  <1>2. LockInv'
    BY SocketPathType DEF TypeOK, LockInv, Polling, Exit, Ends, StateDir, Hidden, serverVars
  <1>3. RecordInv'
    BY SocketPathType DEF TypeOK, RecordInv, Astray, Polling, Exit, Ends, StateDir, Hidden, serverVars
  <1>4. DueInv'
    <2>1. SUFFICES ASSUME NEW e \in due \ ({d} \cup Hidden(d))
                   PROVE  /\ pc'[e] \in Polling /\ ~ Astray(e)' /\ pidfile'[dir'[e]] = e
                          /\ at'[e] = at[e]
      BY DEF DueInv, Exit
    <2>2. e # d /\ e \in Daemons /\ pidfile[dir[e]] = e /\ dir[e] # StateDir(d)
      BY DEF DueInv, TypeOK, Hidden
    <2>3. pidfile'[dir[e]] = e
      BY <2>2 DEF Exit, TypeOK
    <2> QED  BY <2>2, <2>3, EndsDue DEF Exit
  <1>5. NewInv'
    BY DEF TypeOK, NewInv, Entries, Exit, Ends, serverVars, fileVars, orderVars
  <1> QED  BY <1>1, <1>2, <1>3, <1>4, <1>5

\* So does one that is killed.
LEMMA CrashInv ==
  ASSUME Inv, NEW d \in Daemons, Crash(d)
  PROVE  Inv'
  <1> USE ServersAssumption DEF Inv, historyVars
  <1>1. TypeOK'
    BY EndsType DEF TypeOK, Crash, serverVars
  <1>2. LockInv'
    BY DEF TypeOK, LockInv, Polling, Crash, Ends, serverVars
  <1>3. RecordInv'
    BY DEF TypeOK, RecordInv, Astray, Polling, Crash, Ends, serverVars
  <1>4. DueInv'
    BY DEF TypeOK, DueInv, Astray, Polling, Crash, Ends, serverVars
  <1>5. NewInv'
    BY DEF TypeOK, NewInv, Entries, Crash, Ends, serverVars, fileVars, orderVars
  <1> QED  BY <1>1, <1>2, <1>3, <1>4, <1>5

\* Pruning leaves what is on record: a daemon that is not astray lists the terminals of the
\* server its ledger is about.
LEMMA PruneInv ==
  ASSUME Inv, NEW d \in Daemons, Prune(d)
  PROVE  Inv'
  <1> USE ServersAssumption DEF Inv, historyVars
  <1>1. TypeOK'
    BY TagsTellApart DEF TypeOK, Polling, Prune, Keeps, Listed, serverVars, fileVars
  <1>2. LockInv'
    BY TagsTellApart DEF TypeOK, LockInv, Polling, Prune, Keeps, Listed, serverVars, fileVars
  <1>3. RecordInv'
    BY TagsTellApart DEF TypeOK, RecordInv, Astray, Polling, Prune, Keeps, Listed, serverVars, fileVars
  <1>4. DueInv'
    BY TagsTellApart DEF TypeOK, DueInv, Astray, Polling, Prune, Keeps, Listed, serverVars, fileVars
  <1>5. NewInv'
    BY DEF TypeOK, NewInv, Entries, Prune, Keeps, serverVars, fileVars, orderVars
  <1> QED  BY <1>1, <1>2, <1>3, <1>4, <1>5

\* An answer adds to the memory.
LEMMA AnswerInv ==
  ASSUME Inv, NEW d \in Daemons, NEW t \in Terminals, Answer(d, t)
  PROVE  Inv'
  <1> USE ServersAssumption DEF Inv, historyVars
  <1>1. TypeOK'
    BY DEF TypeOK, Polling, Answer, Keeps, Listed, serverVars, fileVars
  <1>2. LockInv'
    BY DEF TypeOK, LockInv, Polling, Answer, Keeps, Listed, serverVars, fileVars
  <1>3. RecordInv'
    BY DEF TypeOK, RecordInv, Astray, Polling, Answer, Keeps, Listed, serverVars, fileVars
  <1>4. DueInv'
    BY DEF TypeOK, DueInv, Astray, Polling, Answer, Keeps, Listed, serverVars, fileVars
  <1>5. NewInv'
    BY DEF TypeOK, NewInv, Entries, Answer, Keeps, Listed, serverVars, fileVars, orderVars
  <1> QED  BY <1>1, <1>2, <1>3, <1>4, <1>5

\* A reset takes a directory's entries off the record.
LEMMA RearmInv ==
  ASSUME Inv, NEW d \in Daemons, Rearm(d)
  PROVE  Inv'
  <1> USE ServersAssumption DEF Inv, historyVars
  <1>1. TypeOK'
    BY DEF TypeOK, Polling, Rearm, Keeps, Kept, serverVars, fileVars
  <1>2. LockInv'
    BY DEF TypeOK, LockInv, Polling, Rearm, Keeps, Kept, serverVars, fileVars
  <1>3. RecordInv'
    BY DEF TypeOK, RecordInv, Astray, Polling, Rearm, Keeps, Kept, serverVars, fileVars
  <1>4. DueInv'
    BY DEF TypeOK, DueInv, Astray, Polling, Rearm, Keeps, Kept, serverVars, fileVars
  <1>5. NewInv'
    BY DEF TypeOK, NewInv, Entries, Rearm, Keeps, serverVars, fileVars, orderVars
  <1> QED  BY <1>1, <1>2, <1>3, <1>4, <1>5

\* A write changes the temporary file alone.
LEMMA WriteTempInv ==
  ASSUME Inv, NEW d \in Daemons, WriteTemp(d)
  PROVE  Inv'
  <1> USE ServersAssumption DEF Inv, historyVars
  <1>1. TypeOK'
    <2>1. temp' \in [Dirs -> {Torn} \cup SUBSET Terminals]
      BY DEF TypeOK, WriteTemp
    <2>2. ASSUME NEW e \in Daemons, pc'[e] = "rename"
          PROVE  temp'[dir[e]] = memory[e]
      <3>1. CASE e = d
        BY <2>2, <3>1 DEF TypeOK, WriteTemp
      <3>2. CASE e # d
        <4>1. pc[e] = "rename" /\ dir[e] \in Dirs /\ dir[e] # dir[d]
          BY <2>2, <3>2 DEF TypeOK, LockInv, WriteTemp
        <4> QED  BY <4>1 DEF TypeOK, WriteTemp
      <3> QED  BY <3>1, <3>2
    <2>3. WriteTemp(d)
      OBVIOUS
    <2> QED  BY <2>1, <2>2, <2>3 DEF TypeOK, Polling, WriteTemp, serverVars, orderVars
  <1>2. LockInv'
    BY DEF TypeOK, LockInv, Polling, WriteTemp, serverVars, orderVars
  <1>3. RecordInv'
    BY DEF TypeOK, RecordInv, Astray, Polling, WriteTemp, serverVars, orderVars
  <1>4. DueInv'
    BY DEF TypeOK, DueInv, Astray, Polling, WriteTemp, serverVars, orderVars
  <1>5. NewInv'
    BY DEF TypeOK, NewInv, Entries, WriteTemp, serverVars, fileVars, orderVars
  <1> QED  BY <1>1, <1>2, <1>3, <1>4, <1>5

\* The file becomes what is in memory, which has all that is on record.
LEMMA RenameTempInv ==
  ASSUME Inv, NEW d \in Daemons, RenameTemp(d)
  PROVE  Inv'
  <1> USE ServersAssumption DEF Inv, historyVars
  <1>1. TypeOK'
    <2>1. temp' \in [Dirs -> {Torn} \cup SUBSET Terminals]
      BY DEF TypeOK, RenameTemp
    <2>2. ASSUME NEW e \in Daemons, pc'[e] = "rename"
          PROVE  temp'[dir[e]] = memory[e]
      <3>1. CASE e = d
        BY <2>2, <3>1 DEF TypeOK, RenameTemp
      <3>2. CASE e # d
        <4>1. pc[e] = "rename" /\ dir[e] \in Dirs /\ dir[e] # dir[d]
          BY <2>2, <3>2 DEF TypeOK, LockInv, RenameTemp
        <4> QED  BY <4>1 DEF TypeOK, RenameTemp
      <3> QED  BY <3>1, <3>2
    <2>3. RenameTemp(d)
      OBVIOUS
    <2>4. ledger' \in [Dirs -> {Torn} \cup SUBSET Terminals] /\ recorded' \subseteq Terminals
      BY DEF TypeOK, RenameTemp, Kept
    <2> QED  BY <2>1, <2>2, <2>3, <2>4 DEF TypeOK, Polling, RenameTemp, serverVars, orderVars
  <1>2. LockInv'
    BY DEF TypeOK, LockInv, Polling, RenameTemp, Kept, Entries, serverVars, orderVars
  <1>3. RecordInv'
    <2>1. SUFFICES ASSUME NEW t \in recorded' \ dropped', panes[t] = "open", Alone(Home[t])
                   PROVE  /\ t \in Entries(ledger'[SessionTag(Home[t])])
                          /\ \A e \in Daemons :
                               pc'[e] \in Polling /\ ~ Astray(e) /\ dir[e] = SessionTag(Home[t])
                                 => t \in memory[e]
      BY DEF RecordInv, RenameTemp, Entries, Astray, serverVars
    <2>2. /\ dir[d] \in Dirs /\ temp[dir[d]] = memory[d] /\ memory[d] \subseteq Terminals
          /\ lock[dir[d]] = d /\ d \in Daemons /\ pc[d] \in Polling
      BY DEF TypeOK, LockInv, RenameTemp, Polling
    <2>3. ledger'[dir[d]] = memory[d] /\ Entries(memory[d]) = memory[d]
      BY <2>2 DEF TypeOK, RenameTemp, Entries
    <2>4. \A g \in Dirs \ {dir[d]} : ledger'[g] = ledger[g]
      BY DEF TypeOK, RenameTemp
    <2>5. t \in Terminals /\ SessionTag(Home[t]) \in Dirs
      BY DEF TypeOK, RenameTemp, Kept, Dirs
    <2>6. \A e \in Daemons : pc'[e] \in Polling => pc[e] \in Polling
      BY DEF TypeOK, RenameTemp, Polling
    <2>7. CASE SessionTag(Home[t]) # dir[d]
      <3>1. t \in recorded \ dropped
        BY <2>7 DEF RenameTemp, Kept
      <3> QED  BY <3>1, <2>1, <2>4, <2>5, <2>6, <2>7 DEF RecordInv
    <2>8. CASE SessionTag(Home[t]) = dir[d]
      <3>1. CASE Astray(d) /\ t \notin memory[d]
        <4>1. t \in recorded \ dropped
          BY <3>1 DEF RenameTemp
        <4>2. t \in Entries(ledger[dir[d]]) \cap Kept(d)
          BY <4>1, <2>1, <2>5, <2>8 DEF RecordInv, Kept
        <4> QED  BY <3>1, <4>1, <4>2 DEF RenameTemp
      <3>2. CASE ~ Astray(d) /\ t \notin memory[d]
        <4>1. t \in recorded \ dropped
          BY <3>2 DEF RenameTemp
        <4> QED  BY <3>2, <4>1, <2>1, <2>2, <2>8 DEF RecordInv
      <3>3. \A e \in Daemons : pc[e] \in Polling /\ dir[e] = dir[d] => e = d
        BY <2>2 DEF LockInv, Polling
      <3> QED  BY <2>3, <2>6, <2>8, <3>1, <3>2, <3>3
    <2> QED  BY <2>7, <2>8
  <1>4. DueInv'
    BY DEF TypeOK, DueInv, Astray, Polling, RenameTemp, Kept, Entries, serverVars, orderVars
  <1>5. NewInv'
    BY DEF TypeOK, NewInv, Entries, RenameTemp, serverVars, fileVars, orderVars
  <1> QED  BY <1>1, <1>2, <1>3, <1>4, <1>5

\* A write that fails leaves the file as it was.
LEMMA PersistFailsInv ==
  ASSUME Inv, NEW d \in Daemons, PersistFails(d)
  PROVE  Inv'
  <1> USE ServersAssumption DEF Inv, historyVars
  <1>1. TypeOK'
    <2>1. temp' \in [Dirs -> {Torn} \cup SUBSET Terminals]
      BY DEF TypeOK, PersistFails
    <2>2. ASSUME NEW e \in Daemons, pc'[e] = "rename"
          PROVE  temp'[dir[e]] = memory[e]
      <3>1. CASE e = d
        BY <2>2, <3>1 DEF TypeOK, PersistFails
      <3>2. CASE e # d
        <4>1. pc[e] = "rename" /\ dir[e] \in Dirs /\ dir[e] # dir[d]
          BY <2>2, <3>2 DEF TypeOK, LockInv, PersistFails
        <4> QED  BY <4>1 DEF TypeOK, PersistFails
      <3> QED  BY <3>1, <3>2
    <2>3. PersistFails(d)
      OBVIOUS
    <2> QED  BY <2>1, <2>2, <2>3 DEF TypeOK, Polling, PersistFails, serverVars, orderVars
  <1>2. LockInv'
    BY DEF TypeOK, LockInv, Polling, PersistFails, serverVars, orderVars
  <1>3. RecordInv'
    BY DEF TypeOK, RecordInv, Astray, Polling, PersistFails, serverVars, orderVars
  <1>4. DueInv'
    BY DEF TypeOK, DueInv, Astray, Polling, PersistFails, serverVars, orderVars
  <1>5. NewInv'
    BY DEF TypeOK, NewInv, Entries, PersistFails, serverVars, fileVars, orderVars
  <1> QED  BY <1>1, <1>2, <1>3, <1>4, <1>5

\* A command owes its signal to daemons it can find.
LEMMA CommandInv ==
  ASSUME Inv, NEW c \in Signals, NEW servers \in Targets, Command(c, servers)
  PROVE  Inv'
  <1> USE ServersAssumption DEF Inv, historyVars
  <1>1. TypeOK'
    BY DEF TypeOK, Polling, Command, Targets, Discovered, Hosts, Signals, serverVars, fileVars
  <1>2. LockInv'
    BY DEF TypeOK, LockInv, Polling, Command, Targets, Discovered, Hosts, Signals, serverVars, fileVars
  <1>3. RecordInv'
    BY DEF TypeOK, RecordInv, Astray, Polling, Command, Targets, Discovered, Hosts, Signals, serverVars, fileVars
  <1>4. DueInv'
    BY DEF TypeOK, DueInv, Astray, Polling, Command, Targets, Discovered, Hosts, Signals, serverVars, fileVars
  <1>5. NewInv'
    BY DEF TypeOK, NewInv, Entries, Command, serverVars, fileVars, orderVars
  <1> QED  BY <1>1, <1>2, <1>3, <1>4, <1>5

\* A server without a daemon is passed over, and only it.
LEMMA NotRunningInv ==
  ASSUME Inv, NEW c \in Signals, NEW s \in Hosts, NotRunning(c, s)
  PROVE  Inv'
  <1> USE ServersAssumption DEF Inv, historyVars
  <1>1. TypeOK'
    BY DEF TypeOK, Polling, NotRunning, Rest, Reached, serverVars, fileVars
  <1>2. LockInv'
    BY DEF TypeOK, LockInv, Polling, NotRunning, Rest, Reached, serverVars, fileVars
  <1>3. RecordInv'
    BY DEF TypeOK, RecordInv, Astray, Polling, NotRunning, Rest, Reached, serverVars, fileVars
  <1>4. DueInv'
    <2>1. SUFFICES ASSUME NEW e \in due
                   PROVE  \E k \in Signals : <<k, at[e]>> \in todo'
      BY DEF DueInv, NotRunning, Astray, serverVars, fileVars
    <2>2. PICK k \in Signals : <<k, at[e]>> \in todo
      BY DEF DueInv
    <2>3. /\ e \in Daemons /\ pc[e] \in Polling /\ SessionTag(at[e]) = dir[e]
          /\ pidfile[dir[e]] = e /\ lock[dir[e]] = e
      BY DEF DueInv, TypeOK, LockInv, Astray, Polling
    <2>4. at[e] # s
      BY <2>3 DEF NotRunning, Reached
    <2> QED  BY <2>2, <2>4 DEF NotRunning, Rest
  <1>5. NewInv'
    BY DEF TypeOK, NewInv, Entries, NotRunning, serverVars, fileVars, orderVars
  <1> QED  BY <1>1, <1>2, <1>3, <1>4, <1>5

\* A signal reaches the daemon of its server.
LEMMA SignalInv ==
  ASSUME Inv, NEW c \in Signals, NEW s \in Hosts, Signal(c, s)
  PROVE  Inv'
  <1> USE ServersAssumption DEF Inv, historyVars
  <1>1. TypeOK'
    <2>1. pidfile[SessionTag(s)] \in Daemons
      BY DEF TypeOK, Signal, Reached, Dirs
    <2>2. CASE Ends(Reached(s))
      <3>1. Reached(s) \in Daemons
        BY <2>1 DEF Reached, Signal
      <3>2. todo' \subseteq Signals \X Hosts /\ due' \subseteq Daemons
        BY DEF TypeOK, Signal, Rest
      <3> QED  BY <2>2, <3>1, <3>2, EndsType DEF TypeOK, Signal, serverVars
    <2>3. CASE ~ Ends(Reached(s))
      BY <2>1, <2>3 DEF TypeOK, Signal, Rest, Reached, serverVars
    <2> QED  BY <2>2, <2>3
  <1>2. LockInv'
    BY DEF TypeOK, LockInv, Polling, Signal, Rest, Reached, Ends, serverVars
  <1>3. RecordInv'
    BY DEF TypeOK, RecordInv, Astray, Polling, Signal, Rest, Reached, Ends, serverVars
  <1>4. DueInv'
    <2>1. SUFFICES ASSUME NEW e \in due'
                   PROVE  /\ pc'[e] \in Polling /\ ~ Astray(e)' /\ pidfile'[dir'[e]] = e
                          /\ \E k \in Signals : <<k, at'[e]>> \in todo'
      BY DEF DueInv
    <2>2. e \in due /\ e \in Daemons
      BY DEF Signal, TypeOK
    <2>3. PICK k \in Signals : <<k, at[e]>> \in todo
      BY <2>2 DEF DueInv
    <2>4. /\ pc[e] \in Polling /\ SessionTag(at[e]) = dir[e] /\ at[e] \in Hosts
          /\ pidfile[dir[e]] = e /\ lock[dir[e]] = e
      BY <2>2 DEF DueInv, TypeOK, LockInv, Astray, Polling
    <2>5. Reached(at[e]) = e
      BY <2>4 DEF Reached
    <2>6. Reached(s) \in Daemons
      BY DEF TypeOK, Signal, Reached, Dirs
    <2>7. Reached(s) # e
      BY <2>2, <2>4 DEF Signal, Polling
    <2>8. <<k, at[e]>> \in todo'
      BY <2>3, <2>5, <2>7 DEF Signal, Rest
    <2>9. pidfile' = pidfile
      BY DEF Signal
    <2>10. CASE Ends(Reached(s))
      BY <2>2, <2>4, <2>6, <2>7, <2>8, <2>9, <2>10, EndsDue
    <2>11. CASE ~ Ends(Reached(s))
      BY <2>4, <2>8, <2>9, <2>11 DEF Signal, Astray
    <2> QED  BY <2>10, <2>11
  <1>5. NewInv'
    BY DEF TypeOK, NewInv, Entries, Signal, Ends, serverVars, fileVars, orderVars
  <1> QED  BY <1>1, <1>2, <1>3, <1>4, <1>5

\* Servers and terminals come and go.
LEMMA WorldInv ==
  ASSUME Inv, (\E s \in Hosts : ServerStarts(s) \/ ServerEnds(s)) \/ \E t \in Terminals : PaneOpens(t) \/ PaneCloses(t)
  PROVE  Inv'
  <1> USE ServersAssumption DEF Inv, historyVars
  <1>1. TypeOK'
    BY DEF TypeOK, Polling, ServerStarts, ServerEnds, PaneOpens, PaneCloses, fileVars, orderVars
  <1>2. LockInv'
    BY DEF TypeOK, LockInv, Polling, ServerStarts, ServerEnds, PaneOpens, PaneCloses, fileVars, orderVars
  <1>3. RecordInv'
    <2>1. \A t \in Terminals : panes'[t] = "open" => panes[t] = "open" \/ t \notin recorded
      BY DEF TypeOK, NewInv, ServerStarts, ServerEnds, PaneOpens, PaneCloses
    <2> QED
      BY <2>1 DEF TypeOK, RecordInv, Astray, Entries, ServerStarts, ServerEnds, PaneOpens,
                  PaneCloses, fileVars, orderVars
  <1>4. DueInv'
    BY DEF TypeOK, DueInv, Astray, Polling, ServerStarts, ServerEnds, PaneOpens, PaneCloses, fileVars, orderVars
  <1>5. NewInv'
    BY DEF TypeOK, NewInv, Entries, ServerStarts, ServerEnds, PaneOpens, PaneCloses, serverVars, fileVars, orderVars
  <1> QED  BY <1>1, <1>2, <1>3, <1>4, <1>5

\* Every step keeps the invariant.
LEMMA StepInv == Inv /\ [Next]_vars => Inv'
  <1> SUFFICES ASSUME Inv, [Next]_vars PROVE Inv'
    OBVIOUS
  <1>1. CASE UNCHANGED vars
    BY <1>1 DEF Inv, TypeOK, LockInv, RecordInv, NewInv, DueInv, Astray, Entries, vars,
                serverVars, fileVars, orderVars, historyVars
  <1>2. ASSUME NEW d \in Daemons,
               (\E e \in Environments : Start(d, e)) \/ (\E t \in Terminals : Answer(d, t))
                 \/ Daemon(d) \/ Crash(d)
        PROVE  Inv'
    BY <1>2, StartInv, AnswerInv, AcquireInv, WritePidfileInv, AttachInv, ExitInv, CrashInv,
       PruneInv, RearmInv, WriteTempInv, RenameTempInv, PersistFailsInv DEF Daemon, Persist
  <1>3. ASSUME NEW c \in Signals,
               (\E servers \in Targets \ {{}} : Command(c, servers))
                 \/ \E s \in Hosts : NotRunning(c, s) \/ Signal(c, s)
        PROVE  Inv'
    BY <1>3, CommandInv, NotRunningInv, SignalInv
  <1>4. CASE (\E s \in Hosts : ServerStarts(s) \/ ServerEnds(s))
               \/ \E t \in Terminals : PaneOpens(t) \/ PaneCloses(t)
    BY <1>4, WorldInv
  <1> QED  BY <1>1, <1>2, <1>3, <1>4 DEF Next

\* The invariant holds throughout.
LEMMA Invariance == Spec => []Inv
  BY InitInv, StepInv, PTL DEF Spec

\* The types, and that nothing but a whole ledger is ever renamed into place.
THEOREM ServersTypeCorrect == Spec => []TypeOK
  BY Invariance, PTL DEF Inv

\* Daemons that are not astray never share a server.
THEOREM OneDaemonEach == Spec => []OneDaemonPerServer
  <1>1. Inv => OneDaemonPerServer
    BY DEF Inv, LockInv, OneDaemonPerServer, Astray, Polling
  <1> QED  BY <1>1, Invariance, PTL

\* Nothing a command for several servers owed is forgotten when it is through.
THEOREM CommandsReachAll == Spec => []CommandReachesAll
  <1>1. Inv => CommandReachesAll
    BY DEF Inv, DueInv, CommandReachesAll
  <1> QED  BY <1>1, Invariance, PTL

\* An answer on file is not given again, by whatever daemon of whatever server, unless a
\* daemon that is astray has dropped it.
THEOREM OnceAcross == Spec => OnceAcrossDaemons
  <1>1. ASSUME Inv, NEW d \in Daemons, NEW t \in Terminals, Answer(d, t), t \in recorded,
               t \notin dropped, Alone(Home[t]), ~ Astray(d)
        PROVE  FALSE
    <2>1. Home[t] = at[d] /\ panes[t] = "open" /\ t \notin memory[d] /\ pc[d] \in Polling
      BY <1>1 DEF Answer, Listed, Polling
    <2>2. dir[d] = SessionTag(Home[t])
      BY <1>1, <2>1 DEF Astray
    <2> QED  BY <1>1, <2>1, <2>2 DEF Inv, RecordInv
  <1>2. Inv /\ [Next]_vars =>
          [\A d \in Daemons, t \in Terminals :
             t \in recorded /\ Alone(Home[t]) /\ Answer(d, t)
               => Astray(d) \/ t \in dropped]_vars
    BY <1>1
  <1> QED  BY <1>2, Invariance, PTL DEF Spec, OnceAcrossDaemons

----------------------------------------------------------------------------
(* Servers implements AtomicLedger.                                        *)

User(d) == IF pc[d] \in Polling THEN dir[d] ELSE NoDir

\* A step that leaves the files and the daemons past the lock alone is not seen.
LEMMA Unseen ==
  ASSUME UNCHANGED <<ledger, memory>>, \A d \in Daemons : User(d)' = User(d)
  PROVE  UNCHANGED Atomic!ledgerVars
  BY DEF Atomic!ledgerVars, User, Entries

\* A daemon that ends leaves its directory, if it worked in one.
LEMMA EndIsLeave ==
  ASSUME Inv, NEW d \in Daemons, Ends(d), UNCHANGED ledger
  PROVE  Atomic!LedgerNext \/ UNCHANGED Atomic!ledgerVars
  <1>1. CASE pc[d] \in Polling
    <2>1. dir[d] # NoDir
      BY <1>1, NoDirAssumption DEF Inv, TypeOK, Polling
    <2>2. Atomic!Leave(d)
      BY <1>1, <2>1 DEF Atomic!Leave, Ends, Inv, TypeOK, Polling, Entries
    <2> QED  BY <2>2 DEF Atomic!LedgerNext
  <1>2. CASE pc[d] \notin Polling /\ memory[d] = {}
    <2>1. memory' = memory
      BY <1>2 DEF Ends, Inv, TypeOK
    <2>2. \A e \in Daemons : User(e)' = User(e)
      BY <1>2 DEF Ends, User, Inv, TypeOK, Polling
    <2> QED  BY <2>1, <2>2, Unseen
  <1> QED  BY <1>1, <1>2 DEF Inv, LockInv

\* The steps of the world and of a command that finds nobody are not seen.
LEMMA OthersUnseen ==
  ASSUME Inv,
         \/ \E d \in Daemons : \/ \E e \in Environments : Start(d, e)
                               \/ WritePidfile(d) \/ WriteTemp(d) \/ PersistFails(d)
         \/ \E c \in Signals : \/ \E servers \in Targets : Command(c, servers)
                               \/ \E s \in Hosts : NotRunning(c, s)
         \/ \E s \in Hosts : ServerStarts(s) \/ ServerEnds(s)
         \/ \E t \in Terminals : PaneOpens(t) \/ PaneCloses(t)
  PROVE  UNCHANGED Atomic!ledgerVars
  <1>1. UNCHANGED <<ledger, memory>>
    BY DEF Start, WritePidfile, WriteTemp, PersistFails, Command, NotRunning, ServerStarts,
           ServerEnds, PaneOpens, PaneCloses, fileVars
  <1>2. \A d \in Daemons : User(d)' = User(d)
    BY DEF User, Inv, TypeOK, Polling, Start, WritePidfile, WriteTemp, PersistFails, Command,
           NotRunning, ServerStarts, ServerEnds, PaneOpens, PaneCloses
  <1> QED  BY <1>1, <1>2, Unseen

\* Attaching is loading: the lock keeps everyone else out of the directory.
LEMMA AttachIsLoad ==
  ASSUME Inv, NEW d \in Daemons, Attach(d)
  PROVE  Atomic!LedgerNext
  <1>1. dir[d] \in Dirs /\ dir[d] # NoDir /\ lock[dir[d]] = d
    BY NoDirAssumption DEF Inv, TypeOK, LockInv, Attach
  <1>2. Atomic!Load(d, dir[d])
    BY <1>1 DEF Atomic!Load, Attach, Inv, TypeOK, LockInv, Polling, Entries, fileVars
  <1>3. \E g \in Dirs : Atomic!Load(d, g)
    BY <1>1, <1>2 DEF Atomic!Load
  <1> QED  BY <1>3 DEF Atomic!LedgerNext

\* Whatever a pass does to the ledger happens in memory first.
LEMMA KeepsIsChange ==
  ASSUME Inv, NEW d \in Daemons, NEW entries \in SUBSET Terminals, pc[d] = "poll",
         Keeps(d, entries)
  PROVE  Atomic!LedgerNext
  <1>1. dir[d] # NoDir
    BY NoDirAssumption DEF Inv, TypeOK
  <1>2. Atomic!Change(d)
    BY <1>1 DEF Atomic!Change, Keeps, Inv, TypeOK, Polling, Entries, fileVars
  <1> QED  BY <1>2 DEF Atomic!LedgerNext

\* The rename is what stores it.
LEMMA RenameIsStore ==
  ASSUME Inv, NEW d \in Daemons, RenameTemp(d)
  PROVE  Atomic!LedgerNext
  <1>1. dir[d] # NoDir /\ dir[d] \in Dirs /\ temp[dir[d]] = memory[d] /\ memory[d] # Torn
    BY NoDirAssumption, ServersAssumption DEF Inv, TypeOK, RenameTemp
  <1>2. Atomic!Store(d)
    BY <1>1 DEF Atomic!Store, RenameTemp, Inv, TypeOK, Polling, Entries
  <1> QED  BY <1>2 DEF Atomic!LedgerNext

\* Every step of the servers is a step of AtomicLedger or is not seen.
LEMMA StepSimulation ==
  ASSUME Inv, [Next]_vars
  PROVE  [Atomic!LedgerNext]_(Atomic!ledgerVars)
  <1>1. CASE UNCHANGED vars
    BY <1>1 DEF Atomic!ledgerVars, vars, fileVars, Entries
  <1>2. ASSUME NEW d \in Daemons, Daemon(d) \/ Crash(d)
        PROVE  Atomic!LedgerNext \/ UNCHANGED Atomic!ledgerVars
    <2>1. CASE Ends(d) /\ (Acquire(d) \/ Exit(d) \/ Crash(d))
      <3>1. UNCHANGED ledger
        BY <2>1 DEF Acquire, Exit, Crash
      <3> QED  BY <2>1, <3>1, <1>2, EndIsLeave
    <2>2. CASE Acquire(d) /\ ~ Ends(d)
      <3>1. \A e \in Daemons : User(e)' = User(e)
        BY <2>2 DEF User, Acquire, Inv, TypeOK, Polling
      <3> QED  BY <2>2, <3>1, Unseen DEF Acquire
    <2>3. CASE WritePidfile(d) \/ WriteTemp(d) \/ PersistFails(d)
      BY <1>2, <2>3, OthersUnseen
    <2>4. CASE Attach(d)
      BY <1>2, <2>4, AttachIsLoad
    <2>5. CASE Prune(d) \/ Rearm(d)
      <3>1. memory[d] \cap Listed(d) \subseteq Terminals /\ pc[d] = "poll"
        BY <1>2, <2>5 DEF Inv, TypeOK, Prune, Rearm
      <3> QED  BY <1>2, <2>5, <3>1, KeepsIsChange DEF Prune, Rearm
    <2>6. CASE RenameTemp(d)
      BY <1>2, <2>6, RenameIsStore
    <2> QED  BY <1>2, <2>1, <2>2, <2>3, <2>4, <2>5, <2>6 DEF Daemon, Persist, Exit, Crash
  <1>3. ASSUME NEW d \in Daemons, NEW t \in Terminals, Answer(d, t)
        PROVE  Atomic!LedgerNext
    <2>1. memory[d] \cup {t} \subseteq Terminals /\ pc[d] = "poll"
      BY <1>3 DEF Inv, TypeOK, Answer
    <2> QED  BY <1>3, <2>1, KeepsIsChange DEF Answer
  <1>4. ASSUME NEW c \in Signals, NEW s \in Hosts, Signal(c, s)
        PROVE  Atomic!LedgerNext \/ UNCHANGED Atomic!ledgerVars
    <2>1. Reached(s) \in Daemons
      BY <1>4 DEF Inv, TypeOK, Signal, Reached, Dirs
    <2>2. CASE Ends(Reached(s))
      BY <1>4, <2>1, <2>2, EndIsLeave DEF Signal
    <2>3. CASE ~ Ends(Reached(s))
      <3>1. \A e \in Daemons : User(e)' = User(e)
        BY <1>4, <2>3 DEF User, Signal
      <3> QED  BY <1>4, <2>3, <3>1, Unseen DEF Signal
    <2> QED  BY <2>2, <2>3
  <1>5. CASE Next
    BY <1>2, <1>3, <1>4, <1>5, OthersUnseen DEF Next
  <1> QED  BY <1>1, <1>5

\* The ledgers of all servers are atomic, with a daemon killed anywhere.
THEOREM ImplementsAtomicLedger == Spec => LedgerIsAtomic
  <1>1. Init => Atomic!LedgerInit
    BY DEF Init, Atomic!LedgerInit, Entries, Polling
  <1>2. Inv /\ [Next]_vars => [Atomic!LedgerNext]_(Atomic!ledgerVars)
    BY StepSimulation
  <1> QED  BY <1>1, <1>2, Invariance, PTL DEF Spec, LedgerIsAtomic, Atomic!LedgerSpec
=============================================================================
