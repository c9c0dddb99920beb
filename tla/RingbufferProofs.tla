-------------------------- MODULE RingbufferProofs --------------------------
(***************************************************************************)
(* For every set of messages and every capacity of at least 2, the list    *)
(* the buffer walks is as long as its length says and has no value twice,  *)
(* the buffer is a cache, and it overwrites its oldest message for as long *)
(* as the newest was never removed from among others.  With a capacity     *)
(* below 2 the list comes to be one longer than its length; only the type  *)
(* invariant is proved for those.                                          *)
(*                                                                         *)
(* BufferInv is inductive; with the bound on the length it gives Cache the *)
(* number of values in the buffer.  OrderInv adds that the list and the    *)
(* messages by age are two arrangements of the same messages.              *)
(***************************************************************************)
EXTENDS Ringbuffer, FiniteSetTheorems, TLAPS

USE RingbufferAssumption DEF RingbufferAssumption

-----------------------------------------------------------------------------
(* The list operations. *)

LEMMA WithoutProperties ==
  ASSUME NEW s \in Seq(Values), NEW i \in 1..Len(s)
  PROVE  /\ Without(s, i) \in Seq(Values)
         /\ Len(Without(s, i)) = Len(s) - 1
         /\ \A j \in 1..(Len(s) - 1) :
              Without(s, i)[j] = IF j < i THEN s[j] ELSE s[j + 1]
<1>1. Len(s) \in Nat /\ Len(s) - 1 \in Nat /\ \A j \in 1..Len(s) : s[j] \in Values
  OBVIOUS
<1>2. Without(s, i) \in [1..(Len(s) - 1) -> Values]
  BY <1>1 DEF Without
<1> QED
  BY <1>1, <1>2 DEF Without

LEMMA LinkNewProperties ==
  ASSUME NEW s \in Seq(Values), Len(s) >= 1, NEW x \in Values
  PROVE  /\ LinkNew(s, x) \in Seq(Values)
         /\ Len(LinkNew(s, x)) = Len(s) + 1
         /\ \A j \in 1..(Len(s) + 1) :
              LinkNew(s, x)[j] = IF j = 1 THEN x ELSE IF j = Len(s) + 1 THEN s[1] ELSE s[j]
<1>1. Len(s) \in Nat /\ \A j \in 1..Len(s) : s[j] \in Values
  OBVIOUS
<1>2. LinkNew(s, x) \in [1..(Len(s) + 1) -> Values]
  BY <1>1 DEF LinkNew
<1> QED
  BY <1>1, <1>2 DEF LinkNew

Distinct(s) == \A i, j \in 1..Len(s) : s[i] = s[j] => i = j

Elements(s) == {s[i] : i \in 1..Len(s)}

\* Taking out the element at a position takes out one value and no other.
LEMMA WithoutElements ==
  ASSUME NEW s \in Seq(Values), Len(s) >= 2, Distinct(s), NEW i \in 1..Len(s)
  PROVE  /\ Distinct(Without(s, i))
         /\ Elements(Without(s, i)) = Elements(s) \ {s[i]}
<1> DEFINE t == Without(s, i)
           from(j) == IF j < i THEN j ELSE j + 1
<1>1. Len(s) \in Nat /\ Len(t) = Len(s) - 1
  BY WithoutProperties
<1>2. \A j \in 1..(Len(s) - 1) : from(j) \in 1..Len(s) /\ from(j) # i /\ t[j] = s[from(j)]
  BY <1>1, WithoutProperties
<1> HIDE DEF t
<1>3. Distinct(t)
  BY <1>1, <1>2 DEF Distinct
<1>4. Elements(t) \subseteq Elements(s) \ {s[i]}
  BY <1>1, <1>2 DEF Elements, Distinct
<1>5. ASSUME NEW k \in 1..Len(s), s[k] # s[i] PROVE s[k] \in Elements(t)
  <2>1. CASE k < i
    <3>1. k \in 1..Len(t) /\ t[k] = s[k]
      BY <1>1, <1>2, <2>1
    <3> QED
      BY <3>1 DEF Elements
  <2>2. CASE k > i
    <3>1. (k - 1) \in 1..Len(t) /\ t[k - 1] = s[k]
      BY <1>1, <1>2, <2>2
    <3> QED
      BY <3>1 DEF Elements
  <2> QED
    BY <1>1, <1>5, <2>1, <2>2
<1>6. Elements(s) \ {s[i]} \subseteq Elements(t)
  BY <1>5 DEF Elements
<1> QED
  BY <1>3, <1>4, <1>6 DEF t

\* Linking a value that is not in the list adds it and nothing else.
LEMMA LinkNewElements ==
  ASSUME NEW s \in Seq(Values), Len(s) >= 1, Distinct(s),
         NEW x \in Values, x \notin Elements(s)
  PROVE  /\ Distinct(LinkNew(s, x))
         /\ Elements(LinkNew(s, x)) = Elements(s) \cup {x}
<1> DEFINE t == LinkNew(s, x)
           to(k) == IF k = 1 THEN Len(s) + 1 ELSE k
<1>1. /\ Len(s) \in Nat
      /\ Len(t) = Len(s) + 1
      /\ \A j \in 1..(Len(s) + 1) :
           t[j] = IF j = 1 THEN x ELSE IF j = Len(s) + 1 THEN s[1] ELSE s[j]
  BY LinkNewProperties
<1> HIDE DEF t
<1>2. \A k \in 1..Len(s) : s[k] # x
  BY DEF Elements
<1>3. Distinct(t)
  BY <1>1, <1>2 DEF Distinct
<1>4. Elements(t) \subseteq Elements(s) \cup {x}
  BY <1>1 DEF Elements
<1>5. \A k \in 1..Len(s) : to(k) \in 1..Len(t) /\ t[to(k)] = s[k]
  BY <1>1
<1>6. x \in Elements(t)
  <2>1. 1 \in 1..Len(t) /\ t[1] = x
    BY <1>1
  <2> QED
    BY <2>1 DEF Elements
<1>7. Elements(s) \subseteq Elements(t)
  BY <1>5 DEF Elements
<1> QED
  BY <1>3, <1>4, <1>6, <1>7 DEF t

\* A list of n different values has n values.
LEMMA ElementsCardinality ==
  ASSUME NEW s \in Seq(Values), Distinct(s)
  PROVE  IsFiniteSet(Elements(s)) /\ Cardinality(Elements(s)) = Len(s)
<1>1. Len(s) \in Nat /\ s \in [1..Len(s) -> Elements(s)]
  BY DEF Elements
<1>2. s \in Bijection(1..Len(s), Elements(s))
  BY <1>1 DEF Bijection, Injection, Surjection, IsInjective, Distinct, Elements
<1>3. IsFiniteSet(1..Len(s)) /\ Cardinality(1..Len(s)) = Len(s)
  BY <1>1, FS_Interval
<1> QED
  BY <1>2, <1>3, FS_Bijection DEF ExistsBijection
-----------------------------------------------------------------------------
(* The invariant. *)

BufferInv ==
  /\ ring \in Seq(Values)
  /\ len \in Nat
  /\ ListSound

SizeInv == len <= Capacity

LEMMA NonEmpty ==
  ASSUME BufferInv, len > 0
  PROVE  /\ Len(ring) = len
         /\ Distinct(ring)
         /\ Contents = Elements(ring)
BY DEF BufferInv, ListSound, Distinct, Contents, Elements

\* An insertion that does not overwrite.
LEMMA InsertGrows ==
  ASSUME BufferInv, NEW v \in Values, Insert(v), len = 0 \/ len < Capacity
  PROVE  BufferInv' /\ len' = len + 1 /\ Contents' = Contents \cup {v}
<1>1. CASE len = 0
  <2>1. ring' = <<v>> /\ len' = 1
    BY <1>1 DEF Insert, BufferInv
  <2>2. ring' \in Seq(Values) /\ Len(ring') = 1 /\ ring'[1] = v
    BY <2>1
  <2> QED
    BY <1>1, <2>1, <2>2 DEF BufferInv, ListSound, Contents
<1>2. CASE len > 0
  <2>1. ring' = LinkNew(ring, v) /\ len' = len + 1 /\ v \notin Elements(ring)
    BY <1>2, NonEmpty DEF Insert, BufferInv
  <2>2. /\ ring' \in Seq(Values)
        /\ Len(ring') = len'
        /\ Distinct(ring')
        /\ Elements(ring') = Elements(ring) \cup {v}
    <3>1. ring \in Seq(Values) /\ Len(ring) >= 1 /\ Distinct(ring) /\ Len(ring) = len
      BY <1>2, NonEmpty DEF BufferInv
    <3>2. /\ LinkNew(ring, v) \in Seq(Values)
          /\ Len(LinkNew(ring, v)) = Len(ring) + 1
      BY <3>1, LinkNewProperties
    <3>3. /\ Distinct(LinkNew(ring, v))
          /\ Elements(LinkNew(ring, v)) = Elements(ring) \cup {v}
      BY <2>1, <3>1, LinkNewElements
    <3> QED
      BY <2>1, <3>1, <3>2, <3>3
  <2>3. len' \in Nat /\ len' > 0
    BY <1>2, <2>1 DEF BufferInv
  <2>4. Contents' = Elements(ring')
    BY <2>3 DEF Contents, Elements
  <2> QED
    BY <1>2, <2>1, <2>2, <2>3, <2>4, NonEmpty DEF BufferInv, ListSound, Distinct
<1> QED
  BY <1>1, <1>2 DEF BufferInv

\* An insertion that overwrites: the value after data is the one given up.
LEMMA InsertOverwrites ==
  ASSUME BufferInv, NEW v \in Values, Insert(v), len >= 2, len >= Capacity
  PROVE  /\ BufferInv'
         /\ len' = len
         /\ ring[2] \in Contents
         /\ Contents' = (Contents \ {ring[2]}) \cup {v}
<1> DEFINE rest == Without(ring, 2)
<1>1. /\ ring \in Seq(Values) /\ Len(ring) = len /\ len \in Nat
      /\ Distinct(ring) /\ Contents = Elements(ring) /\ v \notin Elements(ring)
  BY NonEmpty DEF BufferInv, Insert
<1>2. ring' = LinkNew(rest, v) /\ len' = len
  BY <1>1 DEF Insert, UnlinkNext
<1>3. /\ rest \in Seq(Values)
      /\ Len(rest) = len - 1
      /\ Distinct(rest)
      /\ Elements(rest) = Elements(ring) \ {ring[2]}
  <2>1. 2 \in 1..Len(ring) /\ Len(ring) >= 2
    BY <1>1
  <2>2. rest \in Seq(Values) /\ Len(rest) = Len(ring) - 1
    BY <1>1, <2>1, WithoutProperties
  <2>3. Distinct(rest) /\ Elements(rest) = Elements(ring) \ {ring[2]}
    BY <1>1, <2>1, WithoutElements
  <2> QED
    BY <1>1, <2>2, <2>3
<1> HIDE DEF rest
<1>4. /\ ring' \in Seq(Values)
      /\ Len(ring') = len
      /\ Distinct(ring')
      /\ Elements(ring') = (Elements(ring) \ {ring[2]}) \cup {v}
  <2>1. Len(rest) >= 1 /\ v \notin Elements(rest)
    BY <1>1, <1>3
  <2>2. /\ LinkNew(rest, v) \in Seq(Values)
        /\ Len(LinkNew(rest, v)) = Len(rest) + 1
    BY <1>3, <2>1, LinkNewProperties
  <2>3. /\ Distinct(LinkNew(rest, v))
        /\ Elements(LinkNew(rest, v)) = Elements(rest) \cup {v}
    BY <1>3, <2>1, LinkNewElements
  <2> QED
    BY <1>1, <1>2, <1>3, <2>2, <2>3
<1>5. Contents' = Elements(ring')
  BY <1>1, <1>2 DEF Contents, Elements
<1>6. ring[2] \in Elements(ring)
  BY <1>1 DEF Elements
<1>7. BufferInv'
  BY <1>1, <1>2, <1>4 DEF BufferInv, ListSound, Distinct
<1>8. ring[2] \in Contents /\ Contents' = (Contents \ {ring[2]}) \cup {v}
  BY <1>1, <1>4, <1>5, <1>6
<1> QED
  BY <1>2, <1>7, <1>8

\* A removal takes out the value, if the buffer has it.
LEMMA RemoveTakesOut ==
  ASSUME BufferInv, NEW v \in Values, Remove(v)
  PROVE  /\ BufferInv'
         /\ len' <= len
         /\ Contents' = Contents \ {v}
<1>1. CASE v \notin Contents
  <2>1. UNCHANGED <<ring, len>>
    BY <1>1 DEF Remove
  <2> QED
    BY <1>1, <2>1 DEF BufferInv, ListSound, Contents
<1>2. CASE v \in Contents
  <2>1. len > 0 /\ len \in Nat /\ ring \in Seq(Values)
    BY <1>2 DEF Contents, BufferInv
  <2>2. Len(ring) = len /\ Distinct(ring) /\ Contents = Elements(ring)
    BY <2>1, NonEmpty
  <2>3. PICK i \in 1..Len(ring) : ring[i] = v /\ ring' = UnlinkAt(ring, i) /\ len' = len - 1
    BY <1>2 DEF Remove
  <2>4. CASE len = 1
    <3>1. len' = 0 /\ ring' = ring /\ i = 1
      BY <2>2, <2>3, <2>4 DEF UnlinkAt
    <3>2. Contents' = {} /\ Contents \ {v} = {}
      BY <2>2, <2>3, <2>4, <3>1 DEF Contents, Elements
    <3> QED
      BY <2>1, <3>1, <3>2 DEF BufferInv, ListSound
  <2>5. CASE len >= 2
    <3>1. ring' = Without(ring, i)
      BY <2>2, <2>3, <2>5 DEF UnlinkAt
    <3>2. /\ ring' \in Seq(Values)
          /\ Len(ring') = len'
          /\ Distinct(ring')
          /\ Elements(ring') = Elements(ring) \ {v}
      <4>1. ring \in Seq(Values) /\ Len(ring) >= 2 /\ Distinct(ring) /\ i \in 1..Len(ring)
        BY <2>1, <2>2, <2>5
      <4>2. Without(ring, i) \in Seq(Values) /\ Len(Without(ring, i)) = Len(ring) - 1
        BY <4>1, WithoutProperties
      <4>3. /\ Distinct(Without(ring, i))
            /\ Elements(Without(ring, i)) = Elements(ring) \ {ring[i]}
        BY <4>1, WithoutElements
      <4> QED
        BY <2>2, <2>3, <3>1, <4>2, <4>3
    <3>3. len' \in Nat /\ len' > 0
      BY <2>1, <2>3, <2>5
    <3>4. Contents' = Elements(ring')
      BY <3>3 DEF Contents, Elements
    <3> QED
      BY <2>2, <2>3, <3>2, <3>3, <3>4 DEF BufferInv, ListSound, Distinct
  <2> QED
    BY <2>1, <2>4, <2>5
<1> QED
  BY <1>1, <1>2

-----------------------------------------------------------------------------

LEMMA InitInv == Init => BufferInv /\ SizeInv
BY DEF Init, BufferInv, SizeInv, ListSound

LEMMA NextInv ==
  ASSUME Capacity >= 2
  PROVE  BufferInv /\ SizeInv /\ [Next]_vars => (BufferInv /\ SizeInv)'
<1> SUFFICES ASSUME BufferInv, SizeInv, [Next]_vars PROVE BufferInv' /\ SizeInv'
  OBVIOUS
<1>1. len \in Nat /\ len <= Capacity
  BY DEF BufferInv, SizeInv
<1>2. ASSUME NEW v \in Values, Insert(v) PROVE BufferInv' /\ SizeInv'
  <2>1. CASE len < Capacity
    BY <1>1, <1>2, <2>1, InsertGrows DEF SizeInv
  <2>2. CASE len = Capacity
    BY <1>1, <1>2, <2>2, InsertOverwrites DEF SizeInv
  <2> QED
    BY <1>1, <2>1, <2>2
<1>3. ASSUME NEW v \in Values, Remove(v) PROVE BufferInv' /\ SizeInv'
  <2>1. BufferInv' /\ len' <= len
    BY <1>3, RemoveTakesOut
  <2> QED
    BY <1>1, <2>1 DEF SizeInv, BufferInv
<1>4. CASE UNCHANGED vars
  BY <1>4 DEF vars, BufferInv, SizeInv, ListSound
<1> QED
  BY <1>2, <1>3, <1>4 DEF Next

LEMMA Invariance ==
  ASSUME Capacity >= 2
  PROVE  Spec => [](BufferInv /\ SizeInv)
BY InitInv, NextInv, PTL DEF Spec

\* What FindFirst and Do walk is as long as r.len says, and has no message twice.
THEOREM ListIsSound ==
  ASSUME Capacity >= 2
  PROVE  Spec => []ListSound
<1>1. BufferInv => ListSound
  BY DEF BufferInv
<1> QED
  BY <1>1, Invariance, PTL

\* The number of messages in the buffer is its length.
LEMMA ContentsCardinality ==
  ASSUME BufferInv
  PROVE  Cardinality(Contents) = len
<1>1. CASE len = 0
  BY <1>1, FS_EmptySet DEF Contents
<1>2. CASE len > 0
  BY <1>2, NonEmpty, ElementsCardinality DEF BufferInv
<1> QED
  BY <1>1, <1>2 DEF BufferInv

\* Every operation of the buffer is one of the cache, or changes nothing: an
\* insertion loses at most one message, and only when Capacity messages are
\* there; a removal loses the named message and no other.
THEOREM RingbufferIsCache ==
  ASSUME Capacity >= 2
  PROVE  Spec => ImplementsCache
<1>1. Init => C!Init
  BY DEF Init, C!Init, Contents
<1>2. ASSUME BufferInv, SizeInv, [Next]_vars PROVE [C!Next]_Contents
  <2>1. C!Cardinality(Contents) = len /\ len \in Nat /\ len <= Capacity
    <3>1. Cardinality(Contents) = len /\ len \in Nat /\ len <= Capacity
      BY <1>2, ContentsCardinality DEF BufferInv, SizeInv
    <3>2. C!Cardinality(Contents) = Cardinality(Contents)
      BY DEF C!Cardinality, Cardinality
    <3> QED
      BY <3>1, <3>2
  <2>2. ASSUME NEW v \in Values, Insert(v) PROVE C!Insert(v)
    <3>1. v \in Values \ Contents
      BY <2>2 DEF Insert
    <3>2. CASE len < Capacity
      <4>1. Contents' = Contents \cup {v}
        BY <1>2, <2>1, <2>2, <3>2, InsertGrows
      <4>2. C!Cardinality(Contents) < Capacity
        BY <2>1, <3>2
      <4> QED
        BY <3>1, <4>1, <4>2 DEF C!Insert
    <3>3. CASE len = Capacity
      <4>1. \E old \in Contents : Contents' = (Contents \ {old}) \cup {v}
        BY <1>2, <2>1, <2>2, <3>3, InsertOverwrites, RingbufferAssumption
      <4>2. C!Cardinality(Contents) = Capacity
        BY <2>1, <3>3
      <4> QED
        BY <3>1, <4>1, <4>2 DEF C!Insert
    <3> QED
      BY <2>1, <3>2, <3>3
  <2>3. ASSUME NEW v \in Values, Remove(v) PROVE C!Remove(v) \/ UNCHANGED Contents
    BY <1>2, <2>3, RemoveTakesOut DEF C!Remove
  <2>4. CASE UNCHANGED vars
    BY <2>4 DEF vars, Contents
  <2> QED
    BY <1>2, <2>2, <2>3, <2>4 DEF Next, C!Next
<1> QED
  BY <1>1, <1>2, Invariance, PTL DEF Spec, ImplementsCache, C!Spec

-----------------------------------------------------------------------------
(* The type invariant, for every capacity. *)

TypeInv ==
  /\ TypeOK
  /\ len > 0 => Len(ring) >= 1

\* The list operations keep a list of messages one, and never empty it.
LEMMA ListOperations ==
  ASSUME NEW s \in Seq(Values), Len(s) >= 1
  PROVE  /\ UnlinkNext(s) \in Seq(Values)
         /\ Len(UnlinkNext(s)) >= 1
         /\ \A i \in 1..Len(s) : UnlinkAt(s, i) \in Seq(Values) /\ Len(UnlinkAt(s, i)) >= 1
<1>1. Len(s) \in Nat
  OBVIOUS
<1>2. ASSUME Len(s) # 1, NEW i \in 1..Len(s)
      PROVE  Without(s, i) \in Seq(Values) /\ Len(Without(s, i)) >= 1
  <2>1. Without(s, i) \in Seq(Values) /\ Len(Without(s, i)) = Len(s) - 1
    BY WithoutProperties
  <2> QED
    BY <1>1, <1>2, <2>1
<1>3. CASE Len(s) = 1
  BY <1>3 DEF UnlinkNext, UnlinkAt
<1>4. CASE Len(s) # 1
  <2>1. 2 \in 1..Len(s)
    <3>1. ASSUME NEW n \in Nat, n >= 1, n # 1 PROVE 2 \in 1..n
      BY <3>1
    <3> QED
      BY <1>1, <1>4, <3>1
  <2>2. UnlinkNext(s) = Without(s, 2) /\ \A i \in 1..Len(s) : UnlinkAt(s, i) = Without(s, i)
    BY <1>4 DEF UnlinkNext, UnlinkAt
  <2>3. UnlinkNext(s) \in Seq(Values) /\ Len(UnlinkNext(s)) >= 1
    BY <1>2, <1>4, <2>1, <2>2
  <2>4. ASSUME NEW i \in 1..Len(s)
        PROVE  UnlinkAt(s, i) \in Seq(Values) /\ Len(UnlinkAt(s, i)) >= 1
    BY <1>2, <1>4, <2>2
  <2> QED
    BY <2>3, <2>4
<1> QED
  BY <1>3, <1>4

LEMMA KeptType ==
  ASSUME NEW s \in Seq(Values), NEW keep
  PROVE  Kept(s, keep) \in Seq(Values)
<1>1. CASE keep = {} \/ \A i \in 1..Len(s) : s[i] \in keep
  BY <1>1 DEF Kept
<1>2. CASE keep # {} /\ ~\A i \in 1..Len(s) : s[i] \in keep
  <2> DEFINE i == CHOOSE i \in 1..Len(s) : s[i] \notin keep
  <2>1. i \in 1..Len(s)
    BY <1>2
  <2>2. Kept(s, keep) = Without(s, i)
    BY <1>2 DEF Kept
  <2> HIDE DEF i
  <2> QED
    BY <2>1, <2>2, WithoutProperties
<1> QED
  BY <1>1, <1>2

LEMMA NextTypeInv == TypeInv /\ [Next]_vars => TypeInv'
<1> SUFFICES ASSUME TypeInv, [Next]_vars PROVE TypeInv'
  OBVIOUS
<1> USE DEF TypeInv, TypeOK
<1>1. ASSUME NEW v \in Values, Insert(v) PROVE TypeInv'
  <2>1. len' \in Nat /\ turned' \in BOOLEAN
    BY <1>1 DEF Insert
  <2>2. order' \in Seq(Values)
    <3>1. PICK kept \in Seq(Values) : order' = Append(kept, v)
      BY <1>1, KeptType DEF Insert
    <3> QED
      BY <3>1
  <2>3. ring' \in Seq(Values) /\ Len(ring') >= 1
    <3>1. CASE len = 0
      <4>1. ring' = <<v>>
        BY <1>1, <3>1 DEF Insert
      <4> QED
        BY <4>1
    <3>2. CASE len > 0
      <4>1. PICK rest \in Seq(Values) : Len(rest) >= 1 /\ ring' = LinkNew(rest, v)
        BY <1>1, <3>2, ListOperations DEF Insert
      <4>2. Len(rest) \in Nat /\ ring' \in Seq(Values) /\ Len(ring') = Len(rest) + 1
        BY <4>1, LinkNewProperties
      <4> QED
        BY <4>2
    <3> QED
      BY <3>1, <3>2
  <2> QED
    BY <2>1, <2>2, <2>3
<1>2. ASSUME NEW v \in Values, Remove(v) PROVE TypeInv'
  <2>1. order' \in Seq(Values)
    BY <1>2, KeptType DEF Remove
  <2>2. CASE v \in Contents
    <3>1. len > 0
      BY <2>2 DEF Contents
    <3>2. PICK i \in 1..Len(ring) :
            ring' = UnlinkAt(ring, i) /\ len' = len - 1 /\ turned' = (turned \/ i = 1)
      BY <1>2, <2>2 DEF Remove
    <3>3. ring' \in Seq(Values) /\ Len(ring') >= 1
      BY <3>1, <3>2, ListOperations
    <3>4. len' \in Nat
      BY <3>1, <3>2
    <3>5. turned' \in BOOLEAN
      BY <3>2
    <3> QED
      BY <2>1, <3>3, <3>4, <3>5
  <2>3. CASE v \notin Contents
    BY <1>2, <2>1, <2>3 DEF Remove
  <2> QED
    BY <2>2, <2>3
<1>3. CASE UNCHANGED vars
  BY <1>3 DEF vars
<1>4. CASE Next
  <2>1. PICK v \in Values : Insert(v) \/ Remove(v)
    BY <1>4 DEF Next
  <2> QED
    BY <1>1, <1>2, <2>1
<1> QED
  BY <1>3, <1>4

\* Whatever the capacity, the length never wraps below zero (r.len is a uint that
\* Remove decrements), and the list holds messages and nothing else.
THEOREM TypeCorrect == Spec => []TypeOK
<1>1. ASSUME Init PROVE TypeInv
  <2>1. <<>> \in Seq(Values)
    OBVIOUS
  <2>2. ring \in Seq(Values) /\ order \in Seq(Values) /\ turned \in BOOLEAN
    BY <1>1, <2>1, Zenon DEF Init
  <2>3. len \in Nat /\ ~(len > 0)
    BY <1>1 DEF Init
  <2> QED
    BY <2>2, <2>3 DEF TypeInv, TypeOK
<1>2. TypeInv => TypeOK
  BY DEF TypeInv
<1> QED
  BY <1>1, <1>2, NextTypeInv, PTL DEF Spec

-----------------------------------------------------------------------------
(* The order of age. *)

\* order has each message of the buffer once: so the message a step takes out is
\* at one place of the list and at one place of order, and AgeOrder ties the two.
OrderInv ==
  /\ Distinct(order)
  /\ Elements(order) = Contents
  /\ Len(order) = len
  /\ AgeOrder

\* No message has gone.
LEMMA KeptAll ==
  ASSUME NEW s \in Seq(Values), NEW keep, Elements(s) \subseteq keep
  PROVE  Kept(s, keep) = s
<1>1. \A i \in 1..Len(s) : s[i] \in keep
  BY DEF Elements
<1>2. CASE keep = {}
  <2>1. Len(s) = 0
    BY <1>1, <1>2
  <2>2. s = <<>>
    BY <2>1
  <2> QED
    BY <1>2, <2>2 DEF Kept
<1>3. CASE keep # {}
  BY <1>1, <1>3 DEF Kept
<1> QED
  BY <1>2, <1>3

\* One message has gone, from among others.
LEMMA KeptButOne ==
  ASSUME NEW s \in Seq(Values), Distinct(s), Len(s) >= 2, NEW keep,
         NEW p \in 1..Len(s), s[p] \notin keep, Elements(s) \ {s[p]} \subseteq keep
  PROVE  Kept(s, keep) = Without(s, p)
<1>1. \A i \in 1..Len(s) : i # p => s[i] # s[p] /\ s[i] \in keep
  BY DEF Distinct, Elements
<1>2. keep # {}
  <2>1. PICK q \in 1..Len(s) : q # p
    OBVIOUS
  <2> QED
    BY <1>1, <2>1
<1>3. (CHOOSE i \in 1..Len(s) : s[i] \notin keep) = p
  BY <1>1
<1> QED
  BY <1>2, <1>3 DEF Kept

LEMMA AppendElements ==
  ASSUME NEW s \in Seq(Values), Distinct(s), NEW v \in Values, v \notin Elements(s)
  PROVE  /\ Append(s, v) \in Seq(Values)
         /\ Len(Append(s, v)) = Len(s) + 1
         /\ \A i \in 1..Len(s) : Append(s, v)[i] = s[i]
         /\ Append(s, v)[Len(s) + 1] = v
         /\ Distinct(Append(s, v))
         /\ Elements(Append(s, v)) = Elements(s) \cup {v}
<1> DEFINE t == Append(s, v)
<1>1. /\ Len(s) \in Nat
      /\ t \in Seq(Values)
      /\ Len(t) = Len(s) + 1
      /\ \A i \in 1..Len(s) : t[i] = s[i]
      /\ t[Len(s) + 1] = v
  OBVIOUS
<1> HIDE DEF t
<1>2. \A i \in 1..Len(s) : s[i] # v
  BY DEF Elements
<1>3. Distinct(t)
  BY <1>1, <1>2 DEF Distinct
<1>4. Elements(t) \subseteq Elements(s) \cup {v}
  <2> SUFFICES ASSUME NEW i \in 1..Len(t) PROVE t[i] \in Elements(s) \cup {v}
    BY DEF Elements
  <2>1. CASE i = Len(s) + 1
    BY <1>1, <2>1
  <2>2. CASE i \in 1..Len(s)
    BY <1>1, <2>2 DEF Elements
  <2> QED
    BY <1>1, <2>1, <2>2
<1>5. Elements(s) \cup {v} \subseteq Elements(t)
  <2>1. \A i \in 1..(Len(s) + 1) : t[i] \in Elements(t)
    BY <1>1 DEF Elements
  <2>2. v \in Elements(t)
    BY <1>1, <2>1
  <2>3. Elements(s) \subseteq Elements(t)
    <3> SUFFICES ASSUME NEW i \in 1..Len(s) PROVE s[i] \in Elements(t)
      BY DEF Elements
    <3> QED
      BY <1>1, <2>1
  <2> QED
    BY <2>2, <2>3
<1> QED
  BY <1>1, <1>3, <1>4, <1>5 DEF t

\* The insertion that does not overwrite puts its message at the end of order.
LEMMA InsertKeepsOrder ==
  ASSUME BufferInv, order \in Seq(Values), OrderInv,
         NEW v \in Values, Insert(v), len = 0 \/ len < Capacity
  PROVE  OrderInv'
<1>1. /\ len \in Nat /\ len' = len + 1 /\ Contents' = Contents \cup {v}
      /\ v \notin Contents
  BY InsertGrows DEF BufferInv, Insert
<1>2. /\ Distinct(order) /\ Elements(order) = Contents /\ Len(order) = len
  BY DEF OrderInv
<1>3. order' = Append(order, v)
  <2>1. Kept(order, Contents') = order
    BY <1>1, <1>2, KeptAll
  <2> QED
    BY <2>1 DEF Insert
<1>4. /\ Len(order') = len + 1
      /\ \A i \in 1..len : order'[i] = order[i]
      /\ order'[len + 1] = v
      /\ Distinct(order')
      /\ Elements(order') = Contents'
  BY <1>1, <1>2, <1>3, AppendElements
<1>5. AgeOrder'
  <2>1. CASE len = 0
    <3>1. ring' = <<v>>
      BY <2>1 DEF Insert
    <3>2. Len(ring') = 1 /\ ring'[1] = v
      BY <3>1
    <3> QED
      BY <1>4, <2>1, <3>2 DEF AgeOrder
  <2>2. CASE len > 0 /\ ~turned'
    <3>1. ~turned
      BY <2>2, Zenon DEF Insert
    <3>2. ring \in Seq(Values) /\ Len(ring) = len
      BY <2>2, NonEmpty DEF BufferInv
    <3>3. ring' = LinkNew(ring, v)
      <4>1. len # 0 /\ ~(len >= Capacity)
        BY <1>1, <2>2
      <4> QED
        BY <4>1, Zenon DEF Insert
    <3>4. /\ Len(ring') = len + 1
          /\ \A j \in 1..(len + 1) :
               ring'[j] = IF j = 1 THEN v ELSE IF j = len + 1 THEN ring[1] ELSE ring[j]
      <4>1. Len(ring) >= 1
        BY <1>1, <2>2, <3>2
      <4>2. /\ Len(LinkNew(ring, v)) = Len(ring) + 1
            /\ \A j \in 1..(Len(ring) + 1) :
                 LinkNew(ring, v)[j] =
                   IF j = 1 THEN v ELSE IF j = Len(ring) + 1 THEN ring[1] ELSE ring[j]
        BY <3>2, <4>1, LinkNewProperties, Zenon
      <4> QED
        BY <3>2, <3>3, <4>2, Zenon
    <3>5. ring[1] = order[len] /\ \A i \in 2..len : ring[i] = order[i - 1]
      BY <1>2, <2>2, <3>1, <3>2 DEF OrderInv, AgeOrder
    <3>6. ring'[1] = order'[Len(order')]
      BY <1>1, <1>4, <3>4
    <3>7. ASSUME NEW i \in 2..(len + 1) PROVE ring'[i] = order'[i - 1]
      <4>1. CASE i = len + 1
        BY <1>1, <1>4, <2>2, <3>4, <3>5, <4>1
      <4>2. CASE i \in 2..len
        <5>1. ring'[i] = ring[i] /\ ring[i] = order[i - 1]
          BY <1>1, <3>4, <3>5, <4>2
        <5>2. (i - 1) \in 1..len
          BY <1>1, <4>2
        <5> QED
          BY <1>4, <5>1, <5>2
      <4> QED
        BY <1>1, <4>1, <4>2
    <3> QED
      BY <3>4, <3>6, <3>7 DEF AgeOrder
  <2> QED
    BY <1>1, <2>1, <2>2 DEF AgeOrder
<1> QED
  BY <1>1, <1>4, <1>5 DEF OrderInv, Distinct, Elements

\* The one that overwrites gives up what follows the head, which is the first of
\* order as long as the list is in order of age.
LEMMA OverwriteKeepsOrder ==
  ASSUME BufferInv, order \in Seq(Values), OrderInv,
         NEW v \in Values, Insert(v), len >= 2, len >= Capacity
  PROVE  OrderInv'
<1>1. /\ len \in Nat /\ len' = len
      /\ ring[2] \in Contents
      /\ Contents' = (Contents \ {ring[2]}) \cup {v}
      /\ v \notin Contents
  BY InsertOverwrites DEF BufferInv, Insert
<1>2. /\ Distinct(order) /\ Elements(order) = Contents /\ Len(order) = len
  BY DEF OrderInv
<1>3. ring \in Seq(Values) /\ Len(ring) = len
  BY <1>1, NonEmpty DEF BufferInv
<1>4. PICK p \in 1..Len(order) : order[p] = ring[2]
  BY <1>1, <1>2 DEF Elements
<1> DEFINE kept == Without(order, p)
<1>5. order' = Append(kept, v)
  <2>1. Kept(order, Contents') = kept
    BY <1>1, <1>2, <1>4, KeptButOne
  <2> QED
    BY <2>1 DEF Insert
<1>6. /\ kept \in Seq(Values)
      /\ Len(kept) = len - 1
      /\ \A j \in 1..(len - 1) : kept[j] = IF j < p THEN order[j] ELSE order[j + 1]
  BY <1>2, <1>4, WithoutProperties
<1>7. Distinct(kept) /\ Elements(kept) = Contents \ {ring[2]}
  BY <1>2, <1>4, WithoutElements
<1> HIDE DEF kept
<1>8. /\ Len(order') = len
      /\ \A i \in 1..(len - 1) : order'[i] = kept[i]
      /\ order'[len] = v
      /\ Distinct(order')
      /\ Elements(order') = Contents'
  <2>1. v \notin Elements(kept)
    BY <1>1, <1>7
  <2>2. /\ Len(order') = Len(kept) + 1
        /\ \A i \in 1..Len(kept) : order'[i] = kept[i]
        /\ order'[Len(kept) + 1] = v
        /\ Distinct(order')
        /\ Elements(order') = Elements(kept) \cup {v}
    BY <1>5, <1>6, <1>7, <2>1, AppendElements
  <2>3. Len(kept) + 1 = len
    BY <1>1, <1>6
  <2> QED
    BY <1>1, <1>6, <1>7, <2>2, <2>3
<1>9. ASSUME ~turned'
      PROVE  ring'[1] = order'[len] /\ \A i \in 2..len : ring'[i] = order'[i - 1]
  <2> DEFINE rest == Without(ring, 2)
  <2>1. ~turned
    <3>1. len > 0
      BY <1>1
    <3> QED
      BY <1>9, <3>1, Zenon DEF Insert
  <2>2. ring[1] = order[len] /\ \A i \in 2..len : ring[i] = order[i - 1]
    BY <1>1, <1>2, <1>3, <2>1 DEF OrderInv, AgeOrder
  <2>3. p = 1
    <3>1. ring[2] = order[1] /\ 1 \in 1..Len(order)
      BY <1>1, <1>2, <2>2
    <3> QED
      BY <1>2, <1>4, <3>1 DEF Distinct
  <2>4. /\ rest \in Seq(Values) /\ Len(rest) = len - 1
        /\ \A j \in 1..(len - 1) : rest[j] = IF j < 2 THEN ring[j] ELSE ring[j + 1]
    <3>1. 2 \in 1..Len(ring)
      BY <1>1, <1>3
    <3> QED
      BY <1>3, <3>1, WithoutProperties
  <2>5. ring' = LinkNew(rest, v)
    BY <1>1, <1>3 DEF Insert, UnlinkNext
  <2> HIDE DEF rest
  <2>6. \A j \in 1..len :
          ring'[j] = IF j = 1 THEN v ELSE IF j = len THEN rest[1] ELSE rest[j]
    <3>1. Len(rest) >= 1 /\ Len(rest) + 1 = len
      BY <1>1, <2>4
    <3>2. \A j \in 1..(Len(rest) + 1) :
            ring'[j] = IF j = 1 THEN v ELSE IF j = Len(rest) + 1 THEN rest[1] ELSE rest[j]
      <4>1. rest \in Seq(Values) /\ Len(rest) >= 1 /\ ring' = LinkNew(rest, v)
        BY <2>4, <2>5, <3>1
      <4>2. \A j \in 1..(Len(rest) + 1) :
              LinkNew(rest, v)[j] =
                IF j = 1 THEN v ELSE IF j = Len(rest) + 1 THEN rest[1] ELSE rest[j]
        BY <4>1, LinkNewProperties, Zenon
      <4> QED
        BY <4>1, <4>2, Zenon
    <3> QED
      BY <3>1, <3>2
  <2>7. ring'[1] = order'[len]
    BY <1>1, <1>8, <2>6
  <2>8. ASSUME NEW i \in 2..len PROVE ring'[i] = order'[i - 1]
    <3>1. (i - 1) \in 1..(len - 1) /\ ~(i - 1 < p) /\ (i - 1) + 1 = i /\ i \in 1..len
      BY <1>1, <2>3
    <3>2. order'[i - 1] = order[i]
      BY <1>6, <1>8, <3>1
    <3>3. CASE i = len
      <4>1. ring'[i] = rest[1]
        BY <1>1, <2>6, <3>1, <3>3
      <4>2. rest[1] = ring[1]
        BY <1>1, <2>4
      <4> QED
        BY <2>2, <3>2, <3>3, <4>1, <4>2
    <3>4. CASE i # len
      <4>1. i \in 1..(len - 1) /\ ~(i < 2) /\ i + 1 \in 2..len /\ (i + 1) - 1 = i
        BY <1>1, <3>4
      <4>2. ring'[i] = rest[i]
        BY <1>1, <2>6, <3>1, <3>4
      <4>3. rest[i] = ring[i + 1]
        BY <2>4, <4>1
      <4>4. ring[i + 1] = order[i]
        BY <2>2, <4>1
      <4> QED
        BY <3>2, <4>2, <4>3, <4>4
    <3> QED
      BY <3>3, <3>4
  <2> QED
    BY <2>7, <2>8
<1>10. AgeOrder'
  <2>1. Len(ring') = len
    BY <1>1, InsertOverwrites DEF BufferInv, ListSound
  <2> QED
    BY <1>8, <1>9, <2>1 DEF AgeOrder
<1> QED
  BY <1>1, <1>8, <1>10 DEF OrderInv, Distinct, Elements

LEMMA SameOrder ==
  ASSUME OrderInv, ring' = ring, len' = len, order' = order, turned' = turned
  PROVE  OrderInv'
<1>1. Distinct(order)' /\ Elements(order)' = Elements(order)
  BY DEF OrderInv, Distinct, Elements
<1>2. Contents' = Contents
  BY DEF Contents
<1>3. AgeOrder'
  BY DEF OrderInv, AgeOrder
<1> QED
  BY <1>1, <1>2, <1>3 DEF OrderInv

\* A removal from among others closes the gap in the list and in order alike,
\* unless it is the head that goes: then the next one is the head.
LEMMA RemoveKeepsOrder ==
  ASSUME BufferInv, order \in Seq(Values), OrderInv, NEW v \in Values, Remove(v)
  PROVE  OrderInv'
<1>1. /\ Distinct(order) /\ Elements(order) = Contents /\ Len(order) = len
      /\ len \in Nat /\ Contents' = Contents \ {v}
  BY RemoveTakesOut DEF OrderInv, BufferInv
<1>2. CASE v \notin Contents
  <2>1. UNCHANGED <<ring, len, turned>>
    BY <1>2 DEF Remove
  <2>2. order' = order
    <3>1. Kept(order, Contents') = order
      BY <1>1, <1>2, KeptAll
    <3> QED
      BY <3>1 DEF Remove
  <2> QED
    BY <2>1, <2>2, SameOrder
<1>3. CASE v \in Contents
  <2>1. len > 0
    BY <1>1, <1>3 DEF Contents
  <2>2. Len(ring) = len /\ Distinct(ring) /\ ring \in Seq(Values)
    BY <2>1, NonEmpty DEF BufferInv
  <2>3. PICK i \in 1..Len(ring) : /\ ring[i] = v
                                  /\ ring' = UnlinkAt(ring, i)
                                  /\ len' = len - 1
                                  /\ turned' = (turned \/ i = 1)
    BY <1>3 DEF Remove
  <2>4. PICK p \in 1..Len(order) : order[p] = v
    BY <1>1, <1>3 DEF Elements
  <2>5. CASE len = 1
    <3>1. len' = 0 /\ Contents' = {}
      BY <2>3, <2>5 DEF Contents
    <3>2. order' = <<>>
      BY <3>1 DEF Remove, Kept
    <3>3. Len(order') = 0
      BY <3>2
    <3> QED
      BY <3>1, <3>3 DEF OrderInv, AgeOrder, Distinct, Elements
  <2>6. CASE len >= 2
    <3>1. order' = Without(order, p)
      <4>1. Kept(order, Contents') = Without(order, p)
        BY <1>1, <2>4, <2>6, KeptButOne
      <4> QED
        BY <4>1 DEF Remove
    <3>2. ring' = Without(ring, i)
      BY <2>2, <2>3, <2>6 DEF UnlinkAt
    <3>3. /\ Len(order') = len - 1
          /\ \A j \in 1..(len - 1) : order'[j] = IF j < p THEN order[j] ELSE order[j + 1]
      BY <1>1, <2>4, <3>1, WithoutProperties
    <3>4. /\ Len(ring') = len - 1
          /\ \A j \in 1..(len - 1) : ring'[j] = IF j < i THEN ring[j] ELSE ring[j + 1]
      BY <2>2, <3>2, WithoutProperties
    <3>5. Distinct(order') /\ Elements(order') = Contents'
      BY <1>1, <2>4, <2>6, <3>1, WithoutElements
    <3>6. ASSUME ~turned'
          PROVE  /\ ring'[1] = order'[len - 1]
                 /\ \A j \in 2..(len - 1) : ring'[j] = order'[j - 1]
      <4>1. ~turned /\ i # 1
        BY <2>3, <3>6
      <4>2. ring[1] = order[len] /\ \A j \in 2..len : ring[j] = order[j - 1]
        BY <1>1, <2>1, <2>2, <4>1 DEF OrderInv, AgeOrder
      <4>3. p = i - 1 /\ i \in 2..len
        <5>1. i \in 2..len /\ (i - 1) \in 1..len
          BY <1>1, <2>2, <4>1
        <5>2. order[i - 1] = v
          BY <2>3, <4>2, <5>1
        <5> QED
          BY <1>1, <2>4, <5>1, <5>2 DEF Distinct
      <4>4. ring'[1] = order'[len - 1]
        <5>1. 1 \in 1..(len - 1) /\ 1 < i /\ (len - 1) \in 1..(len - 1)
              /\ ~(len - 1 < p) /\ (len - 1) + 1 = len
          BY <1>1, <2>6, <4>3
        <5>2. ring'[1] = ring[1]
          BY <3>4, <5>1
        <5>3. order'[len - 1] = order[len]
          BY <3>3, <5>1
        <5> QED
          BY <4>2, <5>2, <5>3
      <4>5. ASSUME NEW j \in 2..(len - 1) PROVE ring'[j] = order'[j - 1]
        <5>1. j \in 1..(len - 1) /\ (j - 1) \in 1..(len - 1) /\ j \in 2..len
              /\ (j + 1) \in 2..len /\ (j - 1) + 1 = j /\ (j + 1) - 1 = j
          BY <1>1
        <5>2. CASE j < i
          <6>1. j - 1 < p
            BY <4>3, <5>1, <5>2
          <6>2. ring'[j] = ring[j] /\ order'[j - 1] = order[j - 1]
            BY <3>3, <3>4, <5>1, <5>2, <6>1
          <6> QED
            BY <4>2, <5>1, <6>2
        <5>3. CASE ~(j < i)
          <6>1. ~(j - 1 < p)
            BY <4>3, <5>1, <5>3
          <6>2. ring'[j] = ring[j + 1] /\ order'[j - 1] = order[j]
            BY <3>3, <3>4, <5>1, <5>3, <6>1
          <6>3. ring[j + 1] = order[j]
            BY <4>2, <5>1
          <6> QED
            BY <6>2, <6>3
        <5> QED
          BY <5>2, <5>3
      <4> QED
        BY <4>4, <4>5
    <3>7. AgeOrder'
      BY <2>3, <3>3, <3>4, <3>6 DEF AgeOrder
    <3> QED
      BY <2>3, <3>3, <3>5, <3>7 DEF OrderInv, Distinct, Elements
  <2> QED
    BY <1>1, <2>1, <2>5, <2>6
<1> QED
  BY <1>2, <1>3

LEMMA NextOrderInv ==
  ASSUME Capacity >= 2, BufferInv, SizeInv, TypeInv, OrderInv, [Next]_vars
  PROVE  OrderInv'
<1>1. len \in Nat /\ len <= Capacity /\ order \in Seq(Values)
  BY DEF BufferInv, SizeInv, TypeInv, TypeOK
<1>2. ASSUME NEW v \in Values, Insert(v) PROVE OrderInv'
  <2>1. CASE len < Capacity
    BY <1>1, <1>2, <2>1, InsertKeepsOrder
  <2>2. CASE len = Capacity
    BY <1>1, <1>2, <2>2, OverwriteKeepsOrder
  <2> QED
    BY <1>1, <2>1, <2>2
<1>3. ASSUME NEW v \in Values, Remove(v) PROVE OrderInv'
  BY <1>1, <1>3, RemoveKeepsOrder
<1>4. CASE UNCHANGED vars
  BY <1>4, SameOrder DEF vars
<1>5. CASE Next
  <2>1. PICK v \in Values : Insert(v) \/ Remove(v)
    BY <1>5 DEF Next
  <2> QED
    BY <1>2, <1>3, <2>1
<1> QED
  BY <1>4, <1>5

\* A full buffer overwrites its oldest message, and walks the others by age, for as
\* long as the newest was not removed from among others.
THEOREM OldestIsOverwritten ==
  ASSUME Capacity >= 2
  PROVE  Spec => []AgeOrder
<1>1. ASSUME Init PROVE TypeInv /\ OrderInv
  <2>1. <<>> \in Seq(Values)
    OBVIOUS
  <2>2. ring \in Seq(Values) /\ order \in Seq(Values) /\ turned \in BOOLEAN
    BY <1>1, <2>1, Zenon DEF Init
  <2>3. len = 0 /\ ~(len > 0) /\ Len(order) = 0
    BY <1>1 DEF Init
  <2> QED
    BY <2>2, <2>3 DEF TypeInv, TypeOK, OrderInv, AgeOrder, Distinct, Elements, Contents
<1>2. OrderInv => AgeOrder
  BY DEF OrderInv
<1>3. BufferInv /\ SizeInv /\ TypeInv /\ OrderInv /\ [Next]_vars => (TypeInv /\ OrderInv)'
  BY NextTypeInv, NextOrderInv
<1> QED
  BY <1>1, <1>2, <1>3, Invariance, PTL DEF Spec

=============================================================================
