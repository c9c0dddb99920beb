------------------------------- MODULE Cache -------------------------------
(***************************************************************************)
(* What the strategy may rely on of a message cache, whatever the order it *)
(* evicts in: a cache never has more than Capacity values, an insertion    *)
(* keeps the value inserted and gives up at most one other, and that only  *)
(* when the cache is full, and a removal takes out what was named and      *)
(* nothing else.  Module Ringbuffer implements it.                         *)
(***************************************************************************)
EXTENDS Integers, FiniteSets

CONSTANTS Values, Capacity

VARIABLE cache

Init == cache = {}

Insert(v) ==
  /\ v \in Values \ cache
  /\ \/ Cardinality(cache) < Capacity /\ cache' = cache \cup {v}
     \/ Cardinality(cache) = Capacity /\ \E old \in cache : cache' = (cache \ {old}) \cup {v}

Remove(v) == v \in cache /\ cache' = cache \ {v}

Next == \E v \in Values : Insert(v) \/ Remove(v)

Spec == Init /\ [][Next]_cache
=============================================================================
