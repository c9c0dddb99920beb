----------------------------- MODULE Ringbuffer -----------------------------
(***************************************************************************)
(* internal/ringbuffer: a cache of values of type *storedMessage on top of *)
(* container/ring.  The circular list is the sequence met by following     *)
(* Next() from r.data; so r.data is its head and r.data.Prev() its last.   *)
(* A value is a pointer to a message; the strategy never inserts a pointer *)
(* into a cache that has it, and every pointer may be removed at any time. *)
(*                                                                         *)
(* order and turned are history variables: the values of the buffer by the *)
(* time of their insertion, the oldest first, and whether the newest value *)
(* was removed from among others since the buffer was last empty.          *)
(***************************************************************************)
EXTENDS Integers, Sequences, FiniteSets

CONSTANTS Values, Capacity

ASSUME RingbufferAssumption == Capacity \in Nat

VARIABLES
  ring,   \* the list at r.data; left over and meaningless while len is 0
  len,    \* r.len
  order, turned

vars == <<ring, len, order, turned>>

TypeOK ==
  /\ ring \in Seq(Values)
  /\ len \in Nat
  /\ order \in Seq(Values)
  /\ turned \in BOOLEAN

Init == ring = <<>> /\ len = 0 /\ order = <<>> /\ turned = FALSE

\* The values Do, Filter, FindFirst and ExtractToSlice meet.
Contents == IF len = 0 THEN {} ELSE {ring[i] : i \in 1..Len(ring)}

-----------------------------------------------------------------------------
(* container/ring *)

\* s without its element at position i.
Without(s, i) == [j \in 1..(Len(s) - 1) |-> IF j < i THEN s[j] ELSE s[j + 1]]

\* data.Unlink(1): takes out the element after data, if that is another one.  So
\* a buffer of capacity 0 or 1 comes to hold one value more than its capacity.
UnlinkNext(s) == IF Len(s) = 1 THEN s ELSE Without(s, 2)

\* Fault: the new value goes before the old data instead of after it.
LinkOld(s, x) == [j \in 1..(Len(s) + 1) |-> IF j = 1 THEN x ELSE s[j - 1]]

\* data.Link(x); data = x: x goes between data and its successor, which is then
\* the successor of x, and the old data comes last.
LinkNew(s, x) ==
  [j \in 1..(Len(s) + 1) |->
     IF j = 1 THEN x ELSE IF j = Len(s) + 1 THEN s[1] ELSE s[j]]

\* The element i of the list, found by Remove, is unlinked; if it is data, its
\* successor becomes data.  A list of one element stays as it is.
UnlinkAt(s, i) == IF Len(s) = 1 THEN s ELSE Without(s, i)

-----------------------------------------------------------------------------

\* order without the values that are not in the buffer any more: a step takes out
\* one value at most, or the last ones.
Kept(s, keep) ==
  IF keep = {} THEN <<>>
  ELSE IF \A i \in 1..Len(s) : s[i] \in keep THEN s
  ELSE Without(s, CHOOSE i \in 1..Len(s) : s[i] \notin keep)

\* Fault: the buffer is taken to be full one value too late.
InsertLate(v) ==
  /\ v \in Values \ Contents
  /\ LET full == len > Capacity
         rest == IF full THEN UnlinkNext(ring) ELSE ring
     IN  /\ ring' = IF len = 0 THEN <<v>> ELSE LinkNew(rest, v)
         /\ len' = IF len > 0 /\ full THEN len ELSE len + 1
  /\ order' = Append(Kept(order, Contents'), v)
  /\ turned' = (turned /\ len > 0)

Insert(v) ==
  /\ v \in Values \ Contents
  /\ LET full == len >= Capacity
         rest == IF full THEN UnlinkNext(ring) ELSE ring
     IN  /\ ring' = IF len = 0 THEN <<v>> ELSE LinkNew(rest, v)
         /\ len' = IF len > 0 /\ full THEN len ELSE len + 1
  /\ order' = Append(Kept(order, Contents'), v)
  /\ turned' = (turned /\ len > 0)

\* Fault: one is taken off the length although the value is not there.
RemoveAbsent(v) ==
  /\ len > 0
  /\ IF v \in Contents
     THEN \E i \in 1..Len(ring) : ring[i] = v /\ ring' = UnlinkAt(ring, i)
     ELSE UNCHANGED ring
  /\ len' = len - 1
  /\ order' = Kept(order, Contents')
  /\ turned' = (turned \/ ring[1] = v)

\* Fault: the list is searched also when the buffer is empty.
RemoveUnguarded(v) ==
  /\ IF \E i \in 1..Len(ring) : ring[i] = v
     THEN \E i \in 1..Len(ring) :
            /\ ring[i] = v
            /\ ring' = UnlinkAt(ring, i)
            /\ len' = len - 1
            /\ turned' = (turned \/ i = 1)
     ELSE UNCHANGED <<ring, len, turned>>
  /\ order' = Kept(order, Contents')

Remove(v) ==
  /\ IF v \in Contents
     THEN \E i \in 1..Len(ring) :
            /\ ring[i] = v
            /\ \A j \in 1..(i - 1) : ring[j] # v
            /\ ring' = UnlinkAt(ring, i)
            /\ len' = len - 1
            /\ turned' = (turned \/ i = 1)
     ELSE UNCHANGED <<ring, len, turned>>
  /\ order' = Kept(order, Contents')

Next == \E v \in Values : Insert(v) \/ Remove(v)

Spec == Init /\ [][Next]_vars
-----------------------------------------------------------------------------
(* Properties. *)

\* What Do and FindFirst walk is as long as the length says and has no value
\* twice, so that Remove, which takes out the first match, leaves none behind
\* and the message can be found neither too often nor after it was removed.
ListSound ==
  len > 0 => /\ Len(ring) = len
             /\ \A i, j \in 1..Len(ring) : ring[i] = ring[j] => i = j

\* As long as the newest value was never removed from among others, the list is
\* in order of age but for its head, which is the newest, and Insert overwrites
\* the oldest, which follows the head.
AgeOrder ==
  ~turned /\ len > 0 =>
    /\ ring[1] = order[Len(order)]
    /\ \A i \in 2..Len(ring) : ring[i] = order[i - 1]

\* The buffer is a cache, if the capacity is at least 2.
C == INSTANCE Cache WITH cache <- Contents

ImplementsCache == C!Spec
=============================================================================
