---------------------------- MODULE AtomicLedger ----------------------------
(***************************************************************************)
(* What the ledger file promises a daemon that may be killed at any moment *)
(* while it writes: the file is what one daemon has stored, as a whole,    *)
(* until one stores again, and a daemon starts from the whole of it.       *)
(***************************************************************************)
CONSTANTS
  Dirs,     \* state directories
  NoDir,
  Daemons,
  Items   \* what may have fired

VARIABLES
  stored,   \* the entries in the file of each directory
  memory,   \* the entries each daemon goes by
  user      \* the directory a daemon works in

ledgerVars == <<stored, memory, user>>

LedgerInit ==
  /\ stored = [g \in Dirs |-> {}] /\ memory = [d \in Daemons |-> {}]
  /\ user = [d \in Daemons |-> NoDir]

\* One daemon at a time works in a directory.
Load(d, g) ==
  /\ user[d] = NoDir /\ \A e \in Daemons : user[e] # g
  /\ user' = [user EXCEPT ![d] = g]
  /\ memory' = [memory EXCEPT ![d] = stored[g]]
  /\ UNCHANGED stored

Change(d) ==
  /\ user[d] # NoDir
  /\ \E entries \in SUBSET Items : memory' = [memory EXCEPT ![d] = entries]
  /\ UNCHANGED <<stored, user>>

Store(d) ==
  /\ user[d] # NoDir
  /\ stored' = [stored EXCEPT ![user[d]] = memory[d]]
  /\ UNCHANGED <<memory, user>>

Leave(d) ==
  /\ user[d] # NoDir
  /\ user' = [user EXCEPT ![d] = NoDir] /\ memory' = [memory EXCEPT ![d] = {}]
  /\ UNCHANGED stored

LedgerNext ==
  \E d \in Daemons : (\E g \in Dirs : Load(d, g)) \/ Change(d) \/ Store(d) \/ Leave(d)

LedgerSpec == LedgerInit /\ [][LedgerNext]_ledgerVars
=============================================================================
