---------------------------- MODULE MCCoprocess ----------------------------
(***************************************************************************)
(* Programs for Coprocess: one that reads the screen and answers, one that *)
(* answers at length before it reads, one that declines, one that leaves a *)
(* grandchild behind, and each of them may be held up.                     *)
(***************************************************************************)
EXTENDS Coprocess

Answerers == {<<"read", "pause", "write">>,
            <<"write", "write", "read", "read">>,
            <<"read", "read">>,
            <<"write", "fork", "pause", "write">>}
============================================================================
