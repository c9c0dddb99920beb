------------------------------- MODULE MCNode -------------------------------
(* Three modules' connections, of which the second comes from the address of *)
(* the first; or one.                                                        *)
EXTENDS Node, TLC

CONSTANTS a, b, c1, c2, c3

ReusedIds == c1 :> a @@ c2 :> a @@ c3 :> b
OneId == c1 :> a
=============================================================================
