----------------------------- MODULE Connections -----------------------------
(***************************************************************************)
(* What the connection manager promises its callers when no two            *)
(* connections have one id: every connection is in one class at a time     *)
(* ("It has to maintain 3 types of connection"), moves forward through     *)
(* them, and is gone for good once it is removed.  Module                  *)
(* ConnectionManager implements it; module Handshake builds on it.         *)
(***************************************************************************)
CONSTANTS
  Conns,
  Neighbours   \* the connections dialled before the strategy starts

VARIABLE class

Classes == {"new", "toBeProved", "inProgress", "valid", "gone"}

Init == class = [c \in Conns |-> IF c \in Neighbours THEN "toBeProved" ELSE "new"]

\* A connection was accepted.
Accept(c) == class[c] = "new" /\ class' = [class EXCEPT ![c] = "inProgress"]

\* A proof of it was given or received.
Admit(c) ==
  /\ class[c] \in {"toBeProved", "inProgress"}
  /\ class' = [class EXCEPT ![c] = "valid"]

\* It was lost, or its peer misbehaved.
Remove(c) ==
  /\ class[c] \in {"toBeProved", "inProgress", "valid"}
  /\ class' = [class EXCEPT ![c] = "gone"]

\* The connections without a recent proof are dropped, all at once.
Cull(dead) ==
  /\ \A c \in dead : class[c] = "valid"
  /\ class' = [c \in Conns |-> IF c \in dead THEN "gone" ELSE class[c]]

Next ==
  \/ \E c \in Conns : Accept(c) \/ Admit(c) \/ Remove(c)
  \/ \E dead \in SUBSET Conns : Cull(dead)

Spec == Init /\ [][Next]_class
=============================================================================
