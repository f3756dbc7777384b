----------------------------- MODULE MCServers -----------------------------
(***************************************************************************)
(* Two servers for Servers: the default one, and a session that is called  *)
(* "default" too. A daemon is told the default server, or inherits the     *)
(* session's name beside the default server's socket.                      *)
(***************************************************************************)
EXTENDS Servers, TLC

Named == <<"default">>

TwoServers == {Named}

Stable == {Default}

Inherits(s, p) == [override |-> Unset, session |-> s, path |-> p]
Told(s)        == [override |-> s, session |-> Unset, path |-> Unset]

Variety == {Told(Default), Inherits(Named, Default)}

Homes == [t \in Terminals |-> IF t = "t1" THEN Default ELSE Named]

Alike == Permutations(Daemons)
============================================================================
