------------------------------ MODULE OnceSpec ------------------------------
(***************************************************************************)
(* What `once` promises, as the README puts it: a rule fires once per      *)
(* terminal until a reset. Nothing else about the daemon shows: not the    *)
(* polling, the ledger, its file, the restarts or the failures.            *)
(***************************************************************************)
EXTENDS Naturals

CONSTANT Pairs    \* a once rule and a terminal

VARIABLE sent     \* deliveries to each pair since the last reset

Init == sent = [e \in Pairs |-> 0]

Fire(e) == sent[e] = 0 /\ sent' = [sent EXCEPT ![e] = 1]

Reset == sent' = [e \in Pairs |-> 0]

Next == Reset \/ \E e \in Pairs : Fire(e)

Spec == Init /\ [][Next]_sent
============================================================================
