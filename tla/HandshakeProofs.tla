-------------------------- MODULE HandshakeProofs --------------------------
(***************************************************************************)
(* What Handshake keeps for every network of peers, every Degree and every *)
(* number of renewals, pushes and faults: the loop never waits for a       *)
(* writer that ended, the admission of a connection is never lost and      *)
(* never done twice, a push never overtakes the proof it depends on, and a *)
(* connection is dropped only for the reasons given.                       *)
(*                                                                         *)
(* None of these is inductive.  The invariant IInv adds where a peer is    *)
(* while it holds the read lock (Visiting), what each end can be in and be *)
(* sent (Roles, Announced, Renewing), and counts every admission from both *)
(* ends (Once): lost connections keep the upper bounds, and the exact      *)
(* count as long as nobody lost or dropped the connection.                 *)
(***************************************************************************)
EXTENDS Handshake, FiniteSetTheorems, SequenceTheorems, TLAPS

\* How often m is in a sequence of messages.
Places(box, m) == {i \in 1..Len(box) : box[i] = m}
Occurs(box, m) == Cardinality(Places(box, m))

\* The ends the loop of p has still to send to, under the read lock it holds.
Visited(p) == {e \in Ends : e \in todo[p] \/ e = at[p]}

\* While p sends, what it sends to stays what it was when p chose it.
Visiting ==
  \A p \in Peers :
    /\ at[p] \notin todo[p]
    /\ \A e \in Visited(p) :
         /\ PeerOf[e] = p
         /\ sending[p] = "ConnReq" => e \in Dialled /\ class[e] = "toBeProved"
         /\ sending[p] # "ConnReq" => class[e] = "valid"

\* Cfunc is called after Remove, and a removed connection does not come back.
Closing == \A e \in Ends : ctxDone[e] => class[e] = "gone"

\* A dialled connection is never asked to prove, an accepted one never proves.
Roles ==
  /\ \A d \in Dialled :
       /\ class[d] \in {"toBeProved", "valid", "gone"}
       /\ Occurs(inbox[d], "ConnReq") = 0
       /\ Occurs(inbox[d], "ConnPoW") = 0
  /\ \A a \in Accepted :
       /\ class[a] \in {"new", "inProgress", "valid", "gone"}
       /\ Occurs(inbox[a], "ConnChall") = 0
       /\ solvers[a]["connSolve"] = 0
       /\ solvers[a]["connSend"] = 0
       /\ solvers[a]["connAdmit"] = 0

\* The announcement is in an inbox exactly until it is handled, and first.
Announced ==
  \A e \in Ends :
    /\ Occurs(inbox[e], "NewConn") = Flag(class[e] = "new")
    /\ class[e] = "new" => inbox[e] # <<>> /\ Head(inbox[e]) = "NewConn"

CutBoth == \A e \in cut : Other[e] \in cut

\* The request for the connection of d is still to be sent.
Asking(d) == sending[PeerOf[d]] = "ConnReq" /\ d \in Visited(PeerOf[d])

\* How often the dialling peer still has to prove itself on the connection of d.
Prior(d) ==
    Flag(Asking(d))
  + Occurs(inbox[Other[d]], "ConnReq")
  + Occurs(inbox[d], "ConnChall")
  + solvers[d]["connSolve"] + solvers[d]["connSend"]

\* The proof is sent and checked once, and sent and followed by MakeValid once.
AtAccepted(d) ==
  Prior(d) + Occurs(inbox[Other[d]], "ConnPoW") + Flag(class[Other[d]] = "valid")
AtDialled(d) ==
  Prior(d) + solvers[d]["connAdmit"] + Flag(class[d] = "valid")

OnceAt(d) ==
  /\ AtAccepted(d) <= 1
  /\ AtDialled(d) <= 1
  /\ d \notin cut /\ class[d] # "gone" /\ class[Other[d]] # "gone" => AtAccepted(d) = 1

Once == \A d \in Dialled : OnceAt(d)

\* Every push in an inbox has a proof before it.
Behind(box) ==
  \A i \in 1..Len(box) : box[i] = "Push" => \E j \in 1..(i - 1) : box[j] = "ConnPoW"

PushBehindProof ==
  \A a \in Accepted : class[a] \in {"new", "inProgress"} => Behind(inbox[a])

\* The connection was admitted at e.
Proved(e) == class[e] \in {"valid", "gone"}

\* What a renewal sends and does concerns only ends that were admitted.
RenewingAt(e) ==
  /\ Occurs(inbox[e], "PowReq") > 0 => Proved(Other[e])
  /\ Occurs(inbox[e], "PowChall") > 0 => Proved(e) /\ Proved(Other[e])
  /\ solvers[e]["powSolve"] > 0 \/ solvers[e]["powSend"] > 0 => Proved(Other[e])
  /\ Occurs(inbox[e], "PowPoW") > 0 => Proved(e)

Renewing == \A e \in Ends : RenewingAt(e)

IInv ==
  /\ TypeOK /\ Visiting /\ Closing /\ Roles /\ Announced /\ CutBoth
  /\ Once /\ PushBehindProof /\ Renewing

-----------------------------------------------------------------------------
(* Sequences of messages: what an append, a tail and a cut do to the number *)
(* of occurrences, to the first message and to the order.                   *)

LEMMA OccursType ==
  ASSUME NEW box \in Seq(Messages), NEW m
  PROVE  /\ Occurs(box, m) \in Nat
         /\ IsFiniteSet(Places(box, m))
         /\ \A i \in 1..Len(box) : box[i] = m => Occurs(box, m) > 0
<1>1. Len(box) \in Nat /\ IsFiniteSet(1..Len(box))
  BY FS_Interval
<1>2. Places(box, m) \in SUBSET (1..Len(box))
  BY DEF Places
<1>3. IsFiniteSet(Places(box, m)) /\ Occurs(box, m) \in Nat
  BY <1>1, <1>2, FS_Subset, FS_CardinalityType DEF Occurs
<1>4. ASSUME NEW i \in 1..Len(box), box[i] = m
      PROVE  Occurs(box, m) > 0
  <2>1. i \in Places(box, m)
    BY <1>4 DEF Places
  <2>2. Occurs(box, m) # 0
    BY <1>3, <2>1, FS_EmptySet DEF Occurs
  <2> QED
    BY <1>3, <2>2
<1> QED
  BY <1>3, <1>4

LEMMA OccursEmpty == \A m : Occurs(<<>>, m) = 0
<1> SUFFICES ASSUME NEW m PROVE Occurs(<<>>, m) = 0
  OBVIOUS
<1>1. Places(<<>>, m) = {}
  BY DEF Places
<1> QED
  BY <1>1, FS_EmptySet DEF Occurs

LEMMA OccursOne ==
  ASSUME NEW k \in Messages, NEW m
  PROVE  Occurs(<<k>>, m) = Flag(m = k)
<1>1. Places(<<k>>, m) = IF m = k THEN {1} ELSE {}
  BY DEF Places
<1> QED
  BY <1>1, FS_EmptySet, FS_Singleton DEF Occurs, Flag

LEMMA OccursAppend ==
  ASSUME NEW box \in Seq(Messages), NEW k \in Messages, NEW m
  PROVE  Occurs(Append(box, k), m) = Occurs(box, m) + Flag(m = k)
<1> DEFINE n == Len(box) + 1
<1>1. /\ Append(box, k) \in Seq(Messages) /\ Len(box) \in Nat
      /\ Len(Append(box, k)) = n
      /\ \A i \in 1..Len(box) : Append(box, k)[i] = box[i]
      /\ Append(box, k)[n] = k
  BY AppendProperties
<1>2. Places(Append(box, k), m) = IF m = k THEN Places(box, m) \cup {n} ELSE Places(box, m)
  <2>1. \A i : i \in 1..n <=> i \in 1..Len(box) \/ i = n
    BY <1>1
  <2>2. \A i : i \in Places(Append(box, k), m)
               <=> i \in Places(box, m) \/ (i = n /\ m = k)
    BY <1>1, <2>1 DEF Places
  <2> HIDE DEF n
  <2> QED
    BY <2>2
<1>3. n \notin Places(box, m)
  BY <1>1 DEF Places
<1> HIDE DEF n
<1>4. IsFiniteSet(Places(box, m)) /\ Occurs(box, m) \in Nat
  BY OccursType
<1>5. Cardinality(Places(box, m) \cup {n}) = Cardinality(Places(box, m)) + 1
  BY <1>3, <1>4, FS_AddElement
<1> QED
  BY <1>2, <1>4, <1>5 DEF Occurs, Flag

LEMMA OccursTail ==
  ASSUME NEW box \in Seq(Messages), box # <<>>, NEW m
  PROVE  Occurs(Tail(box), m) = Occurs(box, m) - Flag(m = Head(box))
<1> DEFINE rest == Tail(box)
           S == Places(rest, m)
           T == Places(box, m) \ {1}
<1>1. /\ rest \in Seq(Messages) /\ Len(box) \in Nat \ {0} /\ Len(rest) = Len(box) - 1
      /\ \A i \in 1..Len(rest) : rest[i] = box[i + 1]
      /\ Head(box) = box[1]
  BY HeadTailProperties, EmptySeq
<1>2. IsFiniteSet(S) /\ IsFiniteSet(Places(box, m))
  BY <1>1, OccursType
<1>3. Cardinality(T) = Cardinality(S)
  <2> DEFINE f == [i \in S |-> i + 1]
  <2>1. \A i \in S : i \in 1..Len(rest) /\ rest[i] = m
    BY DEF Places
  <2>2. \A i \in S : i + 1 \in T
    BY <1>1, <2>1 DEF Places
  <2>3. \A j \in T : j - 1 \in S /\ (j - 1) + 1 = j
    <3> TAKE j \in T
    <3>1. j \in 1..Len(box) /\ box[j] = m /\ j # 1
      BY DEF Places
    <3>2. j - 1 \in 1..Len(rest) /\ (j - 1) + 1 = j
      BY <1>1, <3>1
    <3>3. rest[j - 1] = m
      BY <1>1, <3>1, <3>2
    <3> QED
      BY <3>2, <3>3 DEF Places
  <2>4. f \in [S -> T]
    BY <2>2
  <2>5. \A i, j \in S : i + 1 = j + 1 => i = j
    BY <2>1
  <2>6. f \in Bijection(S, T)
    <3> HIDE DEF S, T
    <3> QED
      BY <2>2, <2>3, <2>4, <2>5 DEF Bijection, Injection, Surjection, IsInjective
  <2>7. ExistsBijection(S, T)
    BY <2>6 DEF ExistsBijection
  <2> HIDE DEF S, T
  <2> QED
    BY <1>2, <2>7, FS_Bijection
<1>4. Cardinality(T) = IF 1 \in Places(box, m) THEN Occurs(box, m) - 1 ELSE Occurs(box, m)
  BY <1>2, FS_RemoveElement DEF Occurs
<1>5. 1 \in Places(box, m) <=> m = Head(box)
  BY <1>1 DEF Places
<1>6. Occurs(box, m) \in Nat /\ Occurs(rest, m) = Cardinality(S)
  BY OccursType DEF Occurs
<1> HIDE DEF S, T, rest
<1> QED
  BY <1>3, <1>4, <1>5, <1>6 DEF Flag, rest

\* What is left of an inbox has nothing twice that it did not have twice, ends with
\* what only the reader writes, keeps the announcement, and keeps the order.
LEMMA LeftoversProperties ==
  ASSUME NEW box \in Seq(Messages), NEW left \in Leftovers(box)
  PROVE  /\ left \in Seq(Messages)
         /\ \A m \in Messages \ {"Unregister"} : Occurs(left, m) <= Occurs(box, m)
         /\ Occurs(left, "NewConn") = Occurs(box, "NewConn")
         /\ box # <<>> /\ Head(box) = "NewConn" => left # <<>> /\ Head(left) = "NewConn"
         /\ Behind(box) => Behind(left)
<1>1. PICK n \in 0..Len(box) : /\ \A i \in (n + 1)..Len(box) : box[i] # "NewConn"
                               /\ left = Append(SubSeq(box, 1, n), "Unregister")
  BY DEF Leftovers
<1> DEFINE kept == SubSeq(box, 1, n)
<1>2. /\ Len(box) \in Nat /\ n \in Nat
      /\ kept \in Seq(Messages) /\ Len(kept) = n
      /\ \A i \in 1..n : kept[i] = box[i]
  <2>1. Len(box) \in Nat /\ n \in Int /\ n <= Len(box) /\ 0 <= n
    BY <1>1
  <2>2. \A i \in 1..n : box[i] \in Messages
    BY <2>1, ElementOfSeq
  <2>3. /\ kept \in Seq(Messages)
        /\ Len(kept) = (IF 1 <= n THEN n - 1 + 1 ELSE 0)
        /\ \A i \in 1..(n - 1 + 1) : kept[i] = box[1 + i - 1]
    BY <2>1, <2>2, SubSeqProperties
  <2> HIDE DEF kept
  <2> QED
    BY <2>1, <2>3
<1>3. "Unregister" \in Messages /\ "NewConn" \in Messages
  BY DEF Messages
<1> DEFINE last == "Unregister"
<1>4. left = Append(kept, last) /\ last \in Messages
  BY <1>1, <1>3
<1> HIDE DEF kept, last
<1>5. /\ left \in Seq(Messages) /\ Len(left) = n + 1
      /\ \A i \in 1..n : left[i] = box[i]
      /\ left[n + 1] = last /\ left # <<>>
  BY <1>2, <1>4, AppendProperties
<1> USE DEF last
<1>6. ASSUME NEW m \in Messages \ {"Unregister"}
      PROVE  Occurs(left, m) <= Occurs(box, m)
  <2>1. Places(left, m) \in SUBSET Places(box, m)
    BY <1>2, <1>5 DEF Places
  <2> QED
    BY <2>1, OccursType, FS_Subset DEF Occurs
<1>7. Occurs(left, "NewConn") = Occurs(box, "NewConn")
  <2>1. \A i : i \in Places(left, "NewConn") <=> i \in Places(box, "NewConn")
    BY <1>1, <1>2, <1>5 DEF Places
  <2>2. Places(left, "NewConn") = Places(box, "NewConn")
    BY <2>1 DEF Places
  <2> QED
    BY <2>2 DEF Occurs
<1>8. ASSUME box # <<>>, Head(box) = "NewConn"
      PROVE  Head(left) = "NewConn"
  <2>1. Head(box) = box[1] /\ Len(box) >= 1 /\ Head(left) = left[1]
    BY <1>2, <1>5, <1>8, EmptySeq
  <2>2. n >= 1
    BY <1>1, <1>2, <1>8, <2>1
  <2> QED
    BY <1>2, <1>5, <1>8, <2>1, <2>2
<1>9. ASSUME Behind(box), NEW i \in 1..Len(left), left[i] = "Push"
      PROVE  \E j \in 1..(i - 1) : left[j] = "ConnPoW"
  <2>1. i \in 1..n /\ i \in 1..Len(box) /\ box[i] = "Push"
    BY <1>2, <1>5, <1>9
  <2>2. PICK j \in 1..(i - 1) : box[j] = "ConnPoW"
    BY <1>9, <2>1 DEF Behind
  <2> QED
    BY <1>2, <1>5, <2>1, <2>2
<1> QED
  BY <1>5, <1>6, <1>7, <1>8, <1>9 DEF Behind

\* A message that is not a push may follow anything; a push may follow a proof.
LEMMA BehindAppend ==
  ASSUME NEW box \in Seq(Messages), NEW m \in Messages, Behind(box),
         m = "Push" => Occurs(box, "ConnPoW") > 0
  PROVE  Behind(Append(box, m))
<1> DEFINE next == Append(box, m)
<1>1. /\ next \in Seq(Messages) /\ Len(box) \in Nat /\ Len(next) = Len(box) + 1
      /\ \A i \in 1..Len(box) : next[i] = box[i]
      /\ next[Len(box) + 1] = m
  BY AppendProperties
<1> HIDE DEF next
<1>2. SUFFICES ASSUME NEW i \in 1..Len(next), next[i] = "Push"
               PROVE  \E j \in 1..(i - 1) : next[j] = "ConnPoW"
  BY DEF Behind, next
<1>3. CASE i \in 1..Len(box)
  <2>1. PICK j \in 1..(i - 1) : box[j] = "ConnPoW"
    BY <1>1, <1>2, <1>3 DEF Behind
  <2> QED
    BY <1>1, <1>3, <2>1
<1>4. CASE i = Len(box) + 1
  <2>1. Occurs(box, "ConnPoW") > 0
    BY <1>1, <1>2, <1>4
  <2>2. Places(box, "ConnPoW") # {}
    <3>1. Occurs(box, "ConnPoW") # 0
      BY <2>1, OccursType
    <3> QED
      BY <3>1, FS_EmptySet DEF Occurs
  <2>3. PICK j \in 1..Len(box) : box[j] = "ConnPoW"
    BY <2>2 DEF Places
  <2> QED
    BY <1>1, <1>4, <2>3
<1> QED
  BY <1>1, <1>2, <1>3, <1>4

\* Only the proof itself may not be taken away.
LEMMA BehindTail ==
  ASSUME NEW box \in Seq(Messages), box # <<>>, Behind(box), Head(box) # "ConnPoW"
  PROVE  Behind(Tail(box))
<1> DEFINE rest == Tail(box)
<1>1. /\ rest \in Seq(Messages) /\ Len(box) \in Nat \ {0} /\ Len(rest) = Len(box) - 1
      /\ \A i \in 1..Len(rest) : rest[i] = box[i + 1]
      /\ Head(box) = box[1]
  BY HeadTailProperties, EmptySeq
<1> HIDE DEF rest
<1>2. SUFFICES ASSUME NEW i \in 1..Len(rest), rest[i] = "Push"
               PROVE  \E j \in 1..(i - 1) : rest[j] = "ConnPoW"
  BY DEF Behind, rest
<1>3. i + 1 \in 1..Len(box) /\ box[i + 1] = "Push"
  BY <1>1, <1>2
<1>4. PICK j \in 1..i : box[j] = "ConnPoW"
  BY <1>3 DEF Behind
<1>5. j - 1 \in 1..(i - 1) /\ rest[j - 1] = "ConnPoW"
  BY <1>1, <1>2, <1>4
<1> QED
  BY <1>5

LEMMA BehindFirst ==
  ASSUME NEW box \in Seq(Messages), box # <<>>, Behind(box)
  PROVE  Head(box) # "Push"
<1>1. Len(box) \in Nat \ {0} /\ Head(box) = box[1]
  BY EmptySeq
<1> QED
  BY <1>1 DEF Behind

-----------------------------------------------------------------------------
(* The two ways an inbox changes. *)

LEMMA Network ==
  /\ Other \in [Ends -> Ends] /\ PeerOf \in [Ends -> Peers]
  /\ \A e \in Ends : Other[Other[e]] = e /\ Other[e] # e
  /\ \A e, x \in Ends : Other[e] = Other[x] => e = x
  /\ \A e \in Dialled : e \in Ends /\ Other[e] \in Accepted /\ e \notin Accepted
  /\ \A e \in Accepted : e \in Ends /\ Other[e] \in Dialled /\ e \notin Dialled
  /\ \A e \in Ends : e \in Dialled \/ e \in Accepted
BY HandshakeAssumption DEF Ends

\* The loop takes the first message of e, which is m.
LEMMA TakeEffect ==
  ASSUME TypeOK, NEW e \in Ends, NEW m, Receive(e, m), inbox' = Taken(e)
  PROVE  /\ inbox' \in [Ends -> Seq(Messages)]
         /\ \A x \in Ends, k \in Messages :
              Occurs(inbox'[x], k) =
                Occurs(inbox[x], k) - (IF x = e /\ k = m THEN 1 ELSE 0)
         /\ \A x \in Ends : x # e => inbox'[x] = inbox[x]
         /\ m # "ConnPoW" /\ Behind(inbox[e]) => Behind(inbox'[e])
<1>1. /\ inbox \in [Ends -> Seq(Messages)] /\ inbox[e] # <<>> /\ m = Head(inbox[e])
      /\ inbox' = [inbox EXCEPT ![e] = Tail(@)]
  BY DEF Receive, Taken, TypeOK
<1>2. inbox[e] \in Seq(Messages) /\ inbox'[e] = Tail(inbox[e])
  BY <1>1
<1>3. Tail(inbox[e]) \in Seq(Messages)
  BY <1>1, <1>2, HeadTailProperties
<1>4. inbox' \in [Ends -> Seq(Messages)] /\ \A x \in Ends : x # e => inbox'[x] = inbox[x]
  BY <1>1, <1>3
<1>5. ASSUME NEW x \in Ends, NEW k \in Messages
      PROVE  Occurs(inbox'[x], k) =
               Occurs(inbox[x], k) - (IF x = e /\ k = m THEN 1 ELSE 0)
  <2>1. Occurs(inbox[x], k) \in Nat
    BY <1>1, OccursType
  <2>2. CASE x = e
    BY <1>1, <1>2, <2>2, OccursTail DEF Flag
  <2>3. CASE x # e
    BY <1>4, <2>1, <2>3
  <2> QED
    BY <2>2, <2>3
<1>6. m # "ConnPoW" /\ Behind(inbox[e]) => Behind(inbox'[e])
  BY <1>1, <1>2, BehindTail
<1> QED
  BY <1>4, <1>5, <1>6

\* The writer of e takes m.
LEMMA WriteEffect ==
  ASSUME TypeOK, NEW e \in Ends, NEW m \in Messages, inbox' = Written(inbox, e, m)
  PROVE  /\ inbox' \in [Ends -> Seq(Messages)]
         /\ \A x \in Ends, k \in Messages :
              Occurs(inbox'[x], k) =
                Occurs(inbox[x], k) + (IF x = Other[e] /\ e \notin cut /\ k = m THEN 1 ELSE 0)
         /\ \A x \in Ends : inbox[x] # <<>> =>
              inbox'[x] # <<>> /\ Head(inbox'[x]) = Head(inbox[x])
         /\ \A x \in Ends :
              Behind(inbox[x]) /\ (m = "Push" /\ x = Other[e] /\ e \notin cut
                                     => Occurs(inbox[x], "ConnPoW") > 0) => Behind(inbox'[x])
<1> DEFINE y == Other[e]
<1>1. y \in Ends /\ inbox \in [Ends -> Seq(Messages)] /\ inbox[y] \in Seq(Messages)
  BY Network DEF TypeOK
<1>2. \A x \in Ends, k \in Messages : Occurs(inbox[x], k) \in Nat
  BY <1>1, OccursType
<1> HIDE DEF y
<1>3. CASE e \in cut
  BY <1>1, <1>2, <1>3 DEF Written, y
<1>4. CASE e \notin cut
  <2>1. inbox' = [inbox EXCEPT ![y] = Append(@, m)]
    BY <1>4 DEF Written, y
  <2>2. inbox'[y] = Append(inbox[y], m) /\ \A x \in Ends : x # y => inbox'[x] = inbox[x]
    BY <1>1, <2>1
  <2>3. Append(inbox[y], m) \in Seq(Messages) /\ Append(inbox[y], m) # <<>>
    BY <1>1, AppendProperties
  <2>4. inbox' \in [Ends -> Seq(Messages)]
    BY <1>1, <2>1, <2>3
  <2>5. ASSUME NEW x \in Ends, NEW k \in Messages
        PROVE  Occurs(inbox'[x], k) =
                 Occurs(inbox[x], k) + (IF x = y /\ e \notin cut /\ k = m THEN 1 ELSE 0)
    <3>1. CASE x = y
      <4>1. Occurs(Append(inbox[y], m), k) = Occurs(inbox[y], k) + (IF k = m THEN 1 ELSE 0)
        BY <1>1, OccursAppend DEF Flag
      <4> QED
        BY <1>4, <2>2, <3>1, <4>1
    <3>2. CASE x # y
      BY <1>2, <2>2, <3>2
    <3> QED
      BY <3>1, <3>2
  <2>6. ASSUME NEW x \in Ends, inbox[x] # <<>>
        PROVE  inbox'[x] # <<>> /\ Head(inbox'[x]) = Head(inbox[x])
    <3>1. CASE x = y
      BY <1>1, <2>2, <2>3, <2>6, <3>1, HeadTailAppend
    <3> QED
      BY <2>2, <2>6, <3>1
  <2>7. ASSUME NEW x \in Ends, Behind(inbox[x]),
               m = "Push" /\ x = y /\ e \notin cut => Occurs(inbox[x], "ConnPoW") > 0
        PROVE  Behind(inbox'[x])
    <3>1. CASE x = y
      BY <1>1, <1>4, <2>2, <2>7, <3>1, BehindAppend
    <3> QED
      BY <2>2, <2>7, <3>1
  <2> QED
    BY <2>4, <2>5, <2>6, <2>7 DEF y
<1> QED
  BY <1>3, <1>4

\* A handler takes m and answers it with k.
LEMMA AnswerEffect ==
  ASSUME TypeOK, NEW e \in Ends, NEW m, NEW k \in Messages \ {"Push"},
         Receive(e, m), Answer(e, k)
  PROVE  /\ inbox' \in [Ends -> Seq(Messages)]
         /\ \A x \in Ends, n \in Messages :
              Occurs(inbox'[x], n) =
                Occurs(inbox[x], n) - (IF x = e /\ n = m THEN 1 ELSE 0)
                  + (IF x = Other[e] /\ e \notin cut /\ n = k THEN 1 ELSE 0)
         /\ \A x \in Ends : x # e /\ inbox[x] # <<>> =>
              inbox'[x] # <<>> /\ Head(inbox'[x]) = Head(inbox[x])
         /\ \A x \in Ends : m # "ConnPoW" /\ Behind(inbox[x]) => Behind(inbox'[x])
<1> DEFINE y == Other[e]
<1>1. /\ y \in Ends /\ y # e
      /\ inbox \in [Ends -> Seq(Messages)] /\ inbox[y] \in Seq(Messages)
      /\ inbox[e] \in Seq(Messages) /\ inbox[e] # <<>> /\ m = Head(inbox[e])
  BY Network DEF Receive, TypeOK
<1>2. /\ inbox'[e] = Tail(inbox[e])
      /\ inbox'[y] = IF e \in cut THEN inbox[y] ELSE Append(inbox[y], k)
      /\ \A x \in Ends : x # e /\ x # y => inbox'[x] = inbox[x]
      /\ inbox' = [x \in Ends |-> inbox'[x]]
  BY <1>1 DEF Answer, Written, Taken
<1>3. Tail(inbox[e]) \in Seq(Messages)
  BY <1>1, HeadTailProperties
<1>4. Append(inbox[y], k) \in Seq(Messages) /\ Append(inbox[y], k) # <<>>
  BY SMTT(30), <1>1, AppendProperties
<1>5. inbox' \in [Ends -> Seq(Messages)]
  BY <1>1, <1>2, <1>3, <1>4
<1>6. \A x \in Ends, n \in Messages : Occurs(inbox[x], n) \in Nat
  BY <1>1, OccursType
<1>7. ASSUME NEW n \in Messages
      PROVE  /\ Occurs(inbox'[e], n) = Occurs(inbox[e], n) - (IF n = m THEN 1 ELSE 0)
             /\ Occurs(inbox'[y], n) =
                  Occurs(inbox[y], n) + (IF e \notin cut /\ n = k THEN 1 ELSE 0)
  <2>1. Occurs(inbox'[e], n) = Occurs(inbox[e], n) - (IF n = m THEN 1 ELSE 0)
    BY <1>1, <1>2, OccursTail DEF Flag
  <2>2. e \notin cut => Occurs(inbox'[y], n) = Occurs(inbox[y], n) + (IF n = k THEN 1 ELSE 0)
    BY <1>1, <1>2, OccursAppend DEF Flag
  <2> QED
    BY SMTT(30), <1>1, <1>2, <1>6, <2>1, <2>2
<1>8. \A x \in Ends : x # e /\ inbox[x] # <<>> =>
        inbox'[x] # <<>> /\ Head(inbox'[x]) = Head(inbox[x])
  <2>1. inbox[y] # <<>> => Head(Append(inbox[y], k)) = Head(inbox[y])
    BY <1>1, HeadTailAppend
  <2> QED
    BY <1>2, <1>4, <2>1
<1>9. ASSUME NEW x \in Ends, m # "ConnPoW", Behind(inbox[x])
      PROVE  Behind(inbox'[x])
  <2>1. CASE x = e
    BY <1>1, <1>2, <1>9, <2>1, BehindTail
  <2>2. CASE x = y
    BY <1>1, <1>2, <1>9, <2>2, BehindAppend
  <2> QED
    BY <1>2, <1>9, <2>1, <2>2
<1>10. ASSUME NEW x \in Ends, NEW n \in Messages
       PROVE  Occurs(inbox'[x], n) =
                Occurs(inbox[x], n) - (IF x = e /\ n = m THEN 1 ELSE 0)
                  + (IF x = y /\ e \notin cut /\ n = k THEN 1 ELSE 0)
  <2>1. CASE x = e
    BY <1>1, <1>6, <1>7, <2>1
  <2>2. CASE x = y
    BY <1>1, <1>6, <1>7, <2>2
  <2> QED
    BY <1>2, <1>6, <2>1, <2>2
<1> QED
  BY <1>5, <1>8, <1>9, <1>10

-----------------------------------------------------------------------------
(* The ways the goroutines of an end change. *)

LEMMA SpawnEffect ==
  ASSUME TypeOK, NEW e \in Ends, NEW to \in Stages, Spawn(e, to)
  PROVE  /\ solvers' \in [Ends -> [Stages -> Nat]]
         /\ \A x \in Ends, s \in Stages :
              solvers'[x][s] = solvers[x][s] + (IF x = e /\ s = to THEN 1 ELSE 0)
<1> DEFINE row == [solvers[e] EXCEPT ![to] = solvers[e][to] + 1]
<1>1. solvers \in [Ends -> [Stages -> Nat]]
  BY DEF TypeOK
<1>2. solvers' = [solvers EXCEPT ![e] = row]
  BY DEF Spawn
<1>3. /\ row \in [Stages -> Nat]
      /\ \A s \in Stages : row[s] = solvers[e][s] + (IF s = to THEN 1 ELSE 0)
  BY <1>1
<1> HIDE DEF row
<1>4. \A x \in Ends, s \in Stages : solvers[x][s] \in Nat
  BY <1>1
<1>5. solvers' \in [Ends -> [Stages -> Nat]]
  BY <1>1, <1>2, <1>3
<1>6. \A x \in Ends : solvers'[x] = IF x = e THEN row ELSE solvers[x]
  BY <1>1, <1>2
<1> QED
  BY <1>3, <1>4, <1>5, <1>6

LEMMA EndEffect ==
  ASSUME TypeOK, NEW e \in Ends, NEW from \in Stages, solvers[e][from] > 0, End(e, from)
  PROVE  /\ solvers' \in [Ends -> [Stages -> Nat]]
         /\ \A x \in Ends, s \in Stages :
              solvers'[x][s] = solvers[x][s] - (IF x = e /\ s = from THEN 1 ELSE 0)
<1> DEFINE row == [solvers[e] EXCEPT ![from] = solvers[e][from] - 1]
<1>1. solvers \in [Ends -> [Stages -> Nat]]
  BY DEF TypeOK
<1>2. solvers' = [solvers EXCEPT ![e] = row]
  BY DEF End
<1>3. /\ row \in [Stages -> Nat]
      /\ \A s \in Stages : row[s] = solvers[e][s] - (IF s = from THEN 1 ELSE 0)
  BY <1>1
<1> HIDE DEF row
<1>4. \A x \in Ends, s \in Stages : solvers[x][s] \in Nat
  BY <1>1
<1>5. solvers' \in [Ends -> [Stages -> Nat]]
  BY <1>1, <1>2, <1>3
<1>6. \A x \in Ends : solvers'[x] = IF x = e THEN row ELSE solvers[x]
  BY <1>1, <1>2
<1> QED
  BY <1>3, <1>4, <1>5, <1>6

LEMMA StepEffect ==
  ASSUME TypeOK, NEW e \in Ends, NEW from \in Stages, NEW to \in Stages, from # to,
         solvers[e][from] > 0, Step(e, from, to)
  PROVE  /\ solvers' \in [Ends -> [Stages -> Nat]]
         /\ \A x \in Ends, s \in Stages :
              solvers'[x][s] = solvers[x][s] - (IF x = e /\ s = from THEN 1 ELSE 0)
                                             + (IF x = e /\ s = to THEN 1 ELSE 0)
<1> DEFINE mid == [solvers EXCEPT ![e][from] = @ - 1]
           row == [mid[e] EXCEPT ![to] = mid[e][to] + 1]
           row1 == [solvers[e] EXCEPT ![from] = solvers[e][from] - 1]
<1>1. solvers \in [Ends -> [Stages -> Nat]]
  BY DEF TypeOK
<1>2. mid = [solvers EXCEPT ![e] = row1] /\ solvers' = [mid EXCEPT ![e] = row]
  BY DEF Step
<1>3. /\ row1 \in [Stages -> Nat]
      /\ \A s \in Stages : row1[s] = solvers[e][s] - (IF s = from THEN 1 ELSE 0)
  BY <1>1
<1> HIDE DEF row1, mid
<1>4. mid \in [Ends -> [Stages -> Nat]] /\ mid[e] = row1 /\ \A x \in Ends : x # e => mid[x] = solvers[x]
  BY <1>1, <1>2, <1>3
<1>5. /\ row \in [Stages -> Nat]
      /\ \A s \in Stages : row[s] = row1[s] + (IF s = to THEN 1 ELSE 0)
  BY <1>3, <1>4
<1> HIDE DEF row
<1>6. solvers' \in [Ends -> [Stages -> Nat]]
  BY <1>2, <1>4, <1>5
<1>7. \A x \in Ends : solvers'[x] = IF x = e THEN row ELSE solvers[x]
  BY <1>2, <1>4
<1>8. \A x \in Ends, s \in Stages : solvers[x][s] \in Nat
  BY <1>1
<1> QED
  BY <1>3, <1>5, <1>6, <1>7, <1>8

-----------------------------------------------------------------------------
(* What the parts of the invariant need of a step. *)

LEMMA CountTypes ==
  ASSUME TypeOK
  PROVE  /\ \A x \in Ends, m \in Messages : Occurs(inbox[x], m) \in Nat
         /\ \A x \in Ends, s \in Stages : solvers[x][s] \in Nat
         /\ {"NewConn", "ConnReq", "ConnChall", "ConnPoW", "PowReq", "PowChall",
             "PowPoW", "Push", "Unregister"} \subseteq Messages
         /\ {"connSolve", "connSend", "connAdmit", "powSolve", "powSend"} \subseteq Stages
<1>1. \A x \in Ends, m \in Messages : Occurs(inbox[x], m) \in Nat
  BY OccursType DEF TypeOK
<1> QED
  BY <1>1 DEF TypeOK, Messages, Stages

\* What a step leaves to show of Once: the counts of one dialled connection.
LEMMA CountsOf ==
  ASSUME TypeOK, NEW d \in Dialled
  PROVE  /\ Occurs(inbox[Other[d]], "ConnReq") \in Nat
         /\ Occurs(inbox[Other[d]], "ConnPoW") \in Nat
         /\ Occurs(inbox[d], "ConnChall") \in Nat
         /\ solvers[d]["connSolve"] \in Nat
         /\ solvers[d]["connSend"] \in Nat
         /\ solvers[d]["connAdmit"] \in Nat
BY CountTypes, Network

LEMMA VisitingKept ==
  ASSUME TypeOK, Visiting, UNCHANGED <<todo, at, sending>>,
         \A x \in Ends : class'[x] = class[x] \/ Idle(PeerOf[x])
  PROVE  Visiting' /\ \A p \in Peers : Visited(p)' = Visited(p)
<1>1. \A p \in Peers : Visited(p)' = Visited(p)
  BY DEF Visited
<1>2. \A p \in Peers : \A x \in Visited(p) : x \in Ends /\ PeerOf[x] = p /\ ~Idle(p)
  BY HandshakeAssumption DEF Visited, Visiting, Idle
<1> QED
  BY <1>1, <1>2 DEF Visiting

LEMMA ClosingKept ==
  ASSUME Closing, UNCHANGED ctxDone,
         \A x \in Ends : class[x] = "gone" => class'[x] = "gone"
  PROVE  Closing'
BY DEF Closing

LEMMA PushBehindKept ==
  ASSUME PushBehindProof,
         \A a \in Accepted :
           class'[a] \in {"new", "inProgress"} =>
             class[a] \in {"new", "inProgress"} /\ (Behind(inbox[a]) => Behind(inbox'[a]))
  PROVE  PushBehindProof'
BY DEF PushBehindProof

LEMMA RenewingKept ==
  ASSUME TypeOK, TypeOK', Renewing,
         \A x \in Ends : Proved(x) => Proved(x)',
         \A x \in Ends, m \in {"PowReq", "PowChall", "PowPoW"} :
           Occurs(inbox'[x], m) <= Occurs(inbox[x], m),
         \A x \in Ends, s \in {"powSolve", "powSend"} : solvers'[x][s] <= solvers[x][s]
  PROVE  Renewing'
<1> SUFFICES ASSUME NEW e \in Ends PROVE RenewingAt(e)'
  BY DEF Renewing
<1>1. \A x \in Ends, m \in Messages : Occurs(inbox[x], m) \in Nat /\ Occurs(inbox'[x], m) \in Nat
  BY OccursType DEF TypeOK
<1>2. {"PowReq", "PowChall", "PowPoW"} \subseteq Messages
  BY DEF Messages
<1>3. /\ solvers[e]["powSolve"] \in Nat /\ solvers'[e]["powSolve"] \in Nat
      /\ solvers[e]["powSend"] \in Nat /\ solvers'[e]["powSend"] \in Nat
  BY DEF TypeOK, Stages
<1>4. Other[e] \in Ends
  BY Network
<1> QED
  BY <1>1, <1>2, <1>3, <1>4 DEF Renewing, RenewingAt

\* When nothing is added to the counts of a connection, they stay within bounds.
LEMMA OnceLess ==
  ASSUME TypeOK, NEW d \in Dialled, OnceAt(d), Asking(d)' => Asking(d),
         inbox' \in [Ends -> Seq(Messages)],
         Occurs(inbox'[Other[d]], "ConnReq") <= Occurs(inbox[Other[d]], "ConnReq"),
         Occurs(inbox'[d], "ConnChall") <= Occurs(inbox[d], "ConnChall"),
         Occurs(inbox'[Other[d]], "ConnPoW") <= Occurs(inbox[Other[d]], "ConnPoW"),
         UNCHANGED solvers,
         class'[d] = "valid" => class[d] = "valid",
         class'[Other[d]] = "valid" => class[Other[d]] = "valid"
  PROVE  AtAccepted(d)' <= 1 /\ AtDialled(d)' <= 1
<1>1. /\ Occurs(inbox'[Other[d]], "ConnReq") \in Nat
      /\ Occurs(inbox'[d], "ConnChall") \in Nat
      /\ Occurs(inbox'[Other[d]], "ConnPoW") \in Nat
  BY OccursType, Network
<1>2. Prior(d) \in Nat /\ Prior(d)' \in Nat /\ Prior(d)' <= Prior(d)
  <2> DEFINE req == Flag(Asking(d))
             solving == solvers[d]["connSolve"] + solvers[d]["connSend"]
  <2>1. req \in Nat /\ req' \in Nat /\ req' <= req
    BY DEF Flag
  <2>2. solving \in Nat /\ solving' = solving
    BY CountsOf
  <2>3. /\ Occurs(inbox[Other[d]], "ConnReq") \in Nat
        /\ Occurs(inbox[d], "ConnChall") \in Nat
        /\ solvers[d]["connSolve"] \in Nat /\ solvers[d]["connSend"] \in Nat
    BY CountsOf
  <2>4. Prior(d) = req + Occurs(inbox[Other[d]], "ConnReq") + Occurs(inbox[d], "ConnChall") + solving
    BY SMTT(30), <2>1, <2>3 DEF Prior
  <2>5. Prior(d)' = req' + Occurs(inbox'[Other[d]], "ConnReq") + Occurs(inbox'[d], "ConnChall") + solving
    BY SMTT(30), <1>1, <2>1, <2>3 DEF Prior
  <2> HIDE DEF req, solving
  <2>6. req' + Occurs(inbox'[Other[d]], "ConnReq") <= req + Occurs(inbox[Other[d]], "ConnReq")
    BY <1>1, <2>1, <2>3
  <2>7. Prior(d) \in Nat
    BY <2>1, <2>2, <2>3, <2>4
  <2>8. Prior(d)' \in Nat
    BY <1>1, <2>1, <2>2, <2>5
  <2>9. Prior(d)' <= Prior(d)
    BY SMTT(30), <1>1, <2>1, <2>2, <2>3, <2>4, <2>5, <2>6
  <2> QED
    BY <2>7, <2>8, <2>9
<1>3. /\ Flag(class[Other[d]] = "valid") \in Nat /\ Flag(class'[Other[d]] = "valid") \in Nat
      /\ Flag(class'[Other[d]] = "valid") <= Flag(class[Other[d]] = "valid")
      /\ Flag(class[d] = "valid") \in Nat /\ Flag(class'[d] = "valid") \in Nat
      /\ Flag(class'[d] = "valid") <= Flag(class[d] = "valid")
  BY DEF Flag
<1>4. AtAccepted(d)' <= 1
  <2>1. Occurs(inbox[Other[d]], "ConnPoW") \in Nat /\ AtAccepted(d) <= 1
    BY CountsOf DEF OnceAt
  <2> QED
    BY SMTT(30), <1>1, <1>2, <1>3, <2>1 DEF AtAccepted
<1>5. AtDialled(d)' <= 1
  <2>1. solvers[d]["connAdmit"] \in Nat /\ AtDialled(d) <= 1
    BY CountsOf DEF OnceAt
  <2> QED
    BY SMTT(30), <1>2, <1>3, <2>1 DEF AtDialled
<1> QED
  BY <1>4, <1>5

\* The message at the loop finds the connection in the map its handler looks in, or
\* removed: the checks of the handlers refuse nothing else.
LEMMA Expected ==
  ASSUME IInv, NEW e \in Ends, NEW m, Receive(e, m)
  PROVE  /\ m \in Messages /\ Occurs(inbox[e], m) > 0
         /\ m = "NewConn" <=> class[e] = "new"
         /\ m = "ConnReq" => e \in Accepted /\ class[e] \in {"inProgress", "gone"}
         /\ m = "ConnChall" => e \in Dialled /\ class[e] \in {"toBeProved", "gone"}
         /\ m = "ConnPoW" => e \in Accepted /\ class[e] \in {"inProgress", "gone"}
         /\ m \in {"PowChall", "PowPoW"} => Proved(e)
<1>1. inbox[e] \in Seq(Messages) /\ inbox[e] # <<>> /\ m = Head(inbox[e])
  BY DEF Receive, IInv, TypeOK
<1>2. m \in Messages /\ m = inbox[e][1] /\ 1 \in 1..Len(inbox[e])
  BY <1>1, HeadTailProperties, EmptySeq
<1>3. Occurs(inbox[e], m) > 0
  BY <1>1, <1>2, OccursType
<1>4. m = "NewConn" <=> class[e] = "new"
  BY <1>1, <1>3 DEF IInv, Announced, Flag
<1>5. m \in {"PowChall", "PowPoW"} => Proved(e)
  BY <1>3 DEF IInv, Renewing, RenewingAt
<1>6. ASSUME m \in {"ConnReq", "ConnPoW"}
      PROVE  e \in Accepted /\ class[e] \in {"inProgress", "gone"}
  <2>1. e \in Accepted
    BY <1>3, <1>6, Network DEF IInv, Roles
  <2> DEFINE d == Other[e]
  <2>2. d \in Dialled /\ d \in Ends /\ Other[d] = e
    BY <2>1, Network
  <2>3. AtAccepted(d) <= 1
    BY <2>2 DEF IInv, Once, OnceAt
  <2>4. /\ Occurs(inbox[e], "ConnReq") \in Nat /\ Occurs(inbox[e], "ConnPoW") \in Nat
        /\ Occurs(inbox[d], "ConnChall") \in Nat
        /\ solvers[d]["connSolve"] \in Nat /\ solvers[d]["connSend"] \in Nat
    BY SMTT(30), <2>2, OccursType DEF IInv, TypeOK, Stages
  <2>5. class[e] # "valid"
    BY <1>3, <1>6, <2>2, <2>3, <2>4 DEF AtAccepted, Prior, Asking, Flag
  <2> QED
    BY <1>4, <1>6, <2>1, <2>5 DEF IInv, Roles
<1>7. ASSUME m = "ConnChall"
      PROVE  e \in Dialled /\ class[e] \in {"toBeProved", "gone"}
  <2>1. e \in Dialled
    BY <1>3, <1>7, Network DEF IInv, Roles
  <2>2. AtDialled(e) <= 1
    BY <2>1 DEF IInv, Once, OnceAt
  <2>3. /\ Occurs(inbox[Other[e]], "ConnReq") \in Nat
        /\ Occurs(inbox[e], "ConnChall") \in Nat
        /\ solvers[e]["connSolve"] \in Nat /\ solvers[e]["connSend"] \in Nat
        /\ solvers[e]["connAdmit"] \in Nat
    BY SMTT(30), OccursType, Network DEF IInv, TypeOK, Stages
  <2>4. class[e] # "valid"
    BY <1>3, <1>7, <2>2, <2>3 DEF AtDialled, Prior, Asking, Flag
  <2> QED
    BY <2>1, <2>4 DEF IInv, Roles
<1> QED
  BY <1>2, <1>3, <1>4, <1>5, <1>6, <1>7

-----------------------------------------------------------------------------
(* The handlers. *)

LEMMA ConnReqInv ==
  ASSUME IInv, NEW e \in Ends, ConnReq(e)
  PROVE  IInv'
<1>1. /\ Receive(e, "ConnReq") /\ Idle(PeerOf[e])
      /\ UNCHANGED <<class, sentPowReq, ctxDone, writing, cut, solvers, faults>>
      /\ UNCHANGED <<todo, at, sending, renewals, pushes>>
  BY DEF ConnReq, Receive, connVars, loopVars
<1>2. /\ e \in Accepted /\ class[e] \in {"inProgress", "gone"}
      /\ Occurs(inbox[e], "ConnReq") > 0
  BY <1>1, Expected
<1>3. TypeOK /\ \A x \in Ends, k \in Messages : Occurs(inbox[x], k) \in Nat
  BY CountTypes DEF IInv
<1> DEFINE answered == class[e] = "inProgress" /\ e \notin cut
           Counted(x, k) == Occurs(inbox[x], k) - (IF x = e /\ k = "ConnReq" THEN 1 ELSE 0)
                              + (IF answered /\ x = Other[e] /\ k = "ConnChall" THEN 1 ELSE 0)
<1>4. /\ inbox' \in [Ends -> Seq(Messages)]
      /\ \A x \in Ends, k \in Messages : Occurs(inbox'[x], k) = Counted(x, k)
      /\ \A x \in Ends : x # e /\ inbox[x] # <<>> =>
           inbox'[x] # <<>> /\ Head(inbox'[x]) = Head(inbox[x])
      /\ \A x \in Ends : Behind(inbox[x]) => Behind(inbox'[x])
  <2>1. CASE class[e] = "inProgress"
    <3>1. Answer(e, "ConnChall") /\ "ConnChall" \in Messages
      BY <2>1 DEF ConnReq, Messages
    <3> QED
      BY <1>1, <1>3, <2>1, <3>1, AnswerEffect
  <2>2. CASE class[e] # "inProgress"
    <3>1. inbox' = Taken(e)
      BY <2>2 DEF ConnReq
    <3> QED
      BY <1>1, <1>3, <2>2, <3>1, TakeEffect
  <2> QED
    BY <2>1, <2>2
<1>5. \A x \in Ends, k \in Messages : Occurs(inbox'[x], k) = Counted(x, k)
  BY <1>4
<1>6. TypeOK'
  BY <1>1, <1>3, <1>4 DEF TypeOK
<1>7. Visiting' /\ \A p \in Peers : Visited(p)' = Visited(p)
  BY <1>1, VisitingKept DEF IInv
<1>8. Closing'
  BY <1>1 DEF IInv, Closing
<1>9. Roles'
  <2>1. /\ \A d \in Dialled : d \in Ends /\ d # e
        /\ \A a \in Accepted : a \in Ends /\ a # Other[e]
    BY <1>2, Network
  <2>2. \A d \in Dialled : /\ Occurs(inbox'[d], "ConnReq") = Occurs(inbox[d], "ConnReq")
                          /\ Occurs(inbox'[d], "ConnPoW") = Occurs(inbox[d], "ConnPoW")
    BY <1>3, <1>5, <2>1 DEF Messages
  <2>3. \A a \in Accepted : Occurs(inbox'[a], "ConnChall") = Occurs(inbox[a], "ConnChall")
    BY <1>3, <1>5, <2>1 DEF Messages
  <2> QED
    BY <1>1, <2>2, <2>3 DEF IInv, Roles
<1>10. Announced'
  <2>1. \A x \in Ends : Occurs(inbox'[x], "NewConn") = Occurs(inbox[x], "NewConn")
    BY <1>3, <1>5 DEF Messages
  <2> QED
    BY <1>1, <1>2, <1>4, <2>1 DEF IInv, Announced
<1>11. CutBoth'
  BY <1>1 DEF IInv, CutBoth
<1>12. Once'
  <2> SUFFICES ASSUME NEW d \in Dialled PROVE OnceAt(d)'
    BY DEF Once
  <2>1. /\ d \in Ends /\ Other[d] \in Ends /\ Other[d] \in Accepted /\ PeerOf[d] \in Peers
        /\ Other[d] = e <=> Other[e] = d
        /\ d # e
    BY <1>2, Network
  <2>2. OnceAt(d) /\ (d \in cut <=> Other[d] \in cut)
    BY <2>1, Network DEF IInv, Once, CutBoth
  <2>3. Visited(PeerOf[d])' = Visited(PeerOf[d])
    BY <1>7, <2>1
  <2>4. /\ Occurs(inbox'[Other[d]], "ConnReq") =
             Occurs(inbox[Other[d]], "ConnReq") - (IF Other[d] = e THEN 1 ELSE 0)
        /\ Occurs(inbox'[d], "ConnChall") =
             Occurs(inbox[d], "ConnChall") + (IF answered /\ Other[d] = e THEN 1 ELSE 0)
        /\ Occurs(inbox'[Other[d]], "ConnPoW") = Occurs(inbox[Other[d]], "ConnPoW")
    BY <1>3, <1>5, <2>1 DEF Messages
  <2> QED
    BY <1>1, <1>2, <1>3, <2>1, <2>2, <2>3, <2>4, CountsOf
    DEF OnceAt, AtAccepted, AtDialled, Prior, Asking, Flag
<1>13. PushBehindProof'
  BY <1>1, <1>4, Network DEF IInv, PushBehindProof
<1>14. Renewing'
  <2>1. \A x \in Ends, k \in {"PowReq", "PowChall", "PowPoW"} :
          Occurs(inbox'[x], k) <= Occurs(inbox[x], k)
    BY <1>3, <1>5 DEF Messages
  <2>2. \A x \in Ends, s \in {"powSolve", "powSend"} : solvers'[x][s] <= solvers[x][s]
    BY <1>1, <1>3, CountTypes
  <2> QED
    BY <1>1, <1>3, <1>6, <2>1, <2>2, RenewingKept DEF IInv, Proved
<1> QED
  BY <1>6, <1>7, <1>8, <1>9, <1>10, <1>11, <1>12, <1>13, <1>14 DEF IInv

\* A handler that answers nothing and starts nothing: it leaves the connection where
\* it is, or removes it, as it must when it gives up a part of the admission.
LEMMA DiscardInv ==
  ASSUME IInv, NEW e \in Ends, NEW m, Receive(e, m), inbox' = Taken(e), m # "NewConn",
         class' \in {class, [class EXCEPT ![e] = "gone"]},
         m \in {"ConnReq", "ConnChall", "ConnPoW"} => class'[e] = "gone",
         ctxDone' \in [Ends -> BOOLEAN],
         \A x \in Ends : ctxDone'[x] => ctxDone[x] \/ class'[x] = "gone",
         faults' \in 0..MaxFaults,
         UNCHANGED <<sentPowReq, writing, cut, solvers>>,
         UNCHANGED <<todo, at, sending, renewals, pushes>>
  PROVE  IInv'
<1>1. Idle(PeerOf[e])
  BY DEF Receive
<1>2. m \in Messages /\ class[e] # "new"
  BY Expected
<1>3. TypeOK /\ \A x \in Ends, k \in Messages : Occurs(inbox[x], k) \in Nat
  BY CountTypes DEF IInv
<1>4. inbox' \in [Ends -> Seq(Messages)]
  BY <1>3, TakeEffect
<1>5. /\ \A x \in Ends : x # e => inbox'[x] = inbox[x]
      /\ m # "ConnPoW" /\ Behind(inbox[e]) => Behind(inbox'[e])
  BY <1>3, TakeEffect
<1>6. \A x \in Ends, k \in Messages :
        Occurs(inbox'[x], k) = Occurs(inbox[x], k) - (IF x = e /\ k = m THEN 1 ELSE 0)
  BY <1>3, TakeEffect
<1>7. /\ class' \in [Ends -> Classes]
      /\ \A x \in Ends : class'[x] = class[x] \/ (x = e /\ class'[x] = "gone")
  BY <1>3 DEF TypeOK, Classes
<1>8. TypeOK'
  BY <1>3, <1>7, <1>4 DEF TypeOK
<1>9. Visiting' /\ \A p \in Peers : Visited(p)' = Visited(p)
  BY <1>1, <1>3, <1>7, VisitingKept DEF IInv
<1>10. Closing'
  <2> SUFFICES ASSUME NEW x \in Ends, ctxDone'[x] PROVE class'[x] = "gone"
    BY DEF Closing
  <2>1. ctxDone[x] => class[x] = "gone"
    BY DEF IInv, Closing
  <2> QED
    BY <1>7, <2>1
<1>11. \A x \in Ends, k \in Messages : Occurs(inbox'[x], k) <= Occurs(inbox[x], k)
  BY <1>3, <1>6
<1>12. \A x \in Ends, k \in Messages : Occurs(inbox'[x], k) \in Nat
  BY <1>4, OccursType
<1>13. Roles'
  <2>1. \A d \in Dialled : /\ Occurs(inbox'[d], "ConnReq") = 0
                           /\ Occurs(inbox'[d], "ConnPoW") = 0
    BY <1>11, <1>12, Network DEF IInv, Roles, Messages
  <2>2. \A a \in Accepted : Occurs(inbox'[a], "ConnChall") = 0
    BY <1>11, <1>12, Network DEF IInv, Roles, Messages
  <2> QED
    BY <1>7, <2>1, <2>2, Network DEF IInv, Roles
<1>14. Announced'
  <2>1. \A x \in Ends : Occurs(inbox'[x], "NewConn") = Occurs(inbox[x], "NewConn")
    BY <1>3, <1>6 DEF Messages
  <2>2. \A x \in Ends : class'[x] = "new" => class[x] = "new" /\ x # e
    BY <1>2, <1>7
  <2>3. \A x \in Ends : class'[x] = "new" <=> class[x] = "new"
    BY <1>2, <1>7
  <2> QED
    BY <1>5, <2>1, <2>2, <2>3 DEF IInv, Announced, Flag
<1>15. CutBoth'
  BY DEF IInv, CutBoth
<1>16. Once'
  <2> SUFFICES ASSUME NEW d \in Dialled PROVE OnceAt(d)'
    BY DEF Once
  <2>1. /\ d \in Ends /\ Other[d] \in Ends /\ PeerOf[d] \in Peers
    BY Network
  <2>2. OnceAt(d)
    BY DEF IInv, Once
  <2>3. Visited(PeerOf[d])' = Visited(PeerOf[d])
    BY <1>9, <2>1
  <2>4. /\ Occurs(inbox'[Other[d]], "ConnReq") <= Occurs(inbox[Other[d]], "ConnReq")
        /\ Occurs(inbox'[d], "ConnChall") <= Occurs(inbox[d], "ConnChall")
        /\ Occurs(inbox'[Other[d]], "ConnPoW") <= Occurs(inbox[Other[d]], "ConnPoW")
    BY <1>11, <2>1 DEF Messages
  <2>5. class'[d] # "gone" /\ class'[Other[d]] # "gone" =>
          /\ Occurs(inbox'[Other[d]], "ConnReq") = Occurs(inbox[Other[d]], "ConnReq")
          /\ Occurs(inbox'[d], "ConnChall") = Occurs(inbox[d], "ConnChall")
          /\ Occurs(inbox'[Other[d]], "ConnPoW") = Occurs(inbox[Other[d]], "ConnPoW")
    BY <1>3, <1>6, <2>1 DEF Messages
  <2>6. /\ class'[d] \in {class[d], "gone"} /\ class'[Other[d]] \in {class[Other[d]], "gone"}
    BY <1>7, <2>1
  <2>7. Asking(d)' = Asking(d)
    BY <2>3 DEF Asking
  <2>8. class'[d] # "gone" /\ class'[Other[d]] # "gone" =>
          /\ class'[d] = class[d] /\ class'[Other[d]] = class[Other[d]]
          /\ AtAccepted(d)' = AtAccepted(d)
    BY <2>5, <2>6, <2>7 DEF AtAccepted, Prior
  <2>9. AtAccepted(d)' <= 1 /\ AtDialled(d)' <= 1
    BY <1>3, <1>4, <2>2, <2>4, <2>6, <2>7, OnceLess
  <2> QED
    BY <2>2, <2>8, <2>9 DEF OnceAt
<1>17. PushBehindProof'
  <2>1. \A x \in Ends : class'[x] # "gone" /\ Behind(inbox[x]) => Behind(inbox'[x])
    BY <1>5
  <2> QED
    BY <1>7, <2>1, Network, PushBehindKept DEF IInv
<1>18. Renewing'
  <2>1. \A x \in Ends, k \in {"PowReq", "PowChall", "PowPoW"} :
          Occurs(inbox'[x], k) <= Occurs(inbox[x], k)
    BY <1>11 DEF Messages
  <2>2. \A x \in Ends, s \in {"powSolve", "powSend"} : solvers'[x][s] <= solvers[x][s]
    BY <1>3, CountTypes
  <2>3. \A x \in Ends : Proved(x) => Proved(x)'
    BY <1>7 DEF Proved
  <2> QED
    BY <1>3, <1>8, <2>1, <2>2, <2>3, RenewingKept DEF IInv
<1> QED
  BY <1>8, <1>9, <1>10, <1>13, <1>14, <1>15, <1>16, <1>17, <1>18 DEF IInv

LEMMA NewConnInv ==
  ASSUME IInv, NEW e \in Ends, NewConn(e)
  PROVE  IInv'
<1>1. /\ Receive(e, "NewConn") /\ Idle(PeerOf[e])
      /\ inbox' = Taken(e)
      /\ class' = [class EXCEPT ![e] = "inProgress"]
      /\ UNCHANGED <<sentPowReq, ctxDone, writing, cut, solvers, faults>>
      /\ UNCHANGED <<todo, at, sending, renewals, pushes>>
  BY DEF NewConn, Receive, connVars, loopVars
<1>2. class[e] = "new"
  BY <1>1, Expected
<1>3. e \in Accepted
  BY <1>2, Network DEF IInv, Roles
<1>4. TypeOK /\ \A x \in Ends, k \in Messages : Occurs(inbox[x], k) \in Nat
  BY CountTypes DEF IInv
<1>5. inbox' \in [Ends -> Seq(Messages)]
  BY <1>1, <1>4, TakeEffect
<1>6. \A x \in Ends, k \in Messages :
        Occurs(inbox'[x], k) = Occurs(inbox[x], k) - (IF x = e /\ k = "NewConn" THEN 1 ELSE 0)
  BY <1>1, <1>4, TakeEffect
<1>7. /\ \A x \in Ends : x # e => inbox'[x] = inbox[x]
      /\ Behind(inbox[e]) => Behind(inbox'[e])
  BY <1>1, <1>4, TakeEffect
<1>8. \A x \in Ends : class'[x] = IF x = e THEN "inProgress" ELSE class[x]
  BY <1>1, <1>4 DEF TypeOK
<1>9. \A x \in Ends, k \in Messages \ {"NewConn"} : Occurs(inbox'[x], k) = Occurs(inbox[x], k)
  BY <1>4, <1>6
<1>10. TypeOK'
  BY <1>1, <1>4, <1>5 DEF TypeOK, Classes
<1>11. Visiting' /\ \A p \in Peers : Visited(p)' = Visited(p)
  BY <1>1, <1>4, <1>8, VisitingKept DEF IInv
<1>12. Closing'
  BY <1>1, <1>2, <1>8, ClosingKept DEF IInv
<1>13. Roles'
  <2>1. \A d \in Dialled : /\ Occurs(inbox'[d], "ConnReq") = Occurs(inbox[d], "ConnReq")
                           /\ Occurs(inbox'[d], "ConnPoW") = Occurs(inbox[d], "ConnPoW")
    BY <1>9, Network DEF Messages
  <2>2. \A a \in Accepted : Occurs(inbox'[a], "ConnChall") = Occurs(inbox[a], "ConnChall")
    BY <1>9, Network DEF Messages
  <2> QED
    BY <1>1, <1>3, <1>8, <2>1, <2>2, Network DEF IInv, Roles
<1>14. Announced'
  <2> SUFFICES ASSUME NEW x \in Ends
               PROVE  /\ Occurs(inbox'[x], "NewConn") = Flag(class'[x] = "new")
                      /\ class'[x] = "new" => inbox'[x] # <<>> /\ Head(inbox'[x]) = "NewConn"
    BY DEF Announced
  <2>1. Occurs(inbox'[x], "NewConn") = Occurs(inbox[x], "NewConn") - (IF x = e THEN 1 ELSE 0)
    BY <1>6 DEF Messages
  <2>2. /\ Occurs(inbox[x], "NewConn") = Flag(class[x] = "new")
        /\ class[x] = "new" => inbox[x] # <<>> /\ Head(inbox[x]) = "NewConn"
    BY DEF IInv, Announced
  <2> QED
    BY <1>2, <1>7, <1>8, <2>1, <2>2 DEF Flag
<1>15. CutBoth'
  BY <1>1 DEF IInv, CutBoth
<1>16. Once'
  <2> SUFFICES ASSUME NEW d \in Dialled PROVE OnceAt(d)'
    BY DEF Once
  <2>1. d \in Ends /\ Other[d] \in Ends /\ PeerOf[d] \in Peers /\ d # e
    BY <1>3, Network
  <2>2. OnceAt(d) /\ Visited(PeerOf[d])' = Visited(PeerOf[d])
    BY <1>11, <2>1 DEF IInv, Once
  <2>3. /\ Occurs(inbox'[Other[d]], "ConnReq") = Occurs(inbox[Other[d]], "ConnReq")
        /\ Occurs(inbox'[d], "ConnChall") = Occurs(inbox[d], "ConnChall")
        /\ Occurs(inbox'[Other[d]], "ConnPoW") = Occurs(inbox[Other[d]], "ConnPoW")
    BY <1>9, <2>1 DEF Messages
  <2> QED
    BY <1>1, <1>2, <1>8, <2>1, <2>2, <2>3 DEF OnceAt, AtAccepted, AtDialled, Prior, Asking, Flag
<1>17. PushBehindProof'
  BY <1>2, <1>7, <1>8, Network, PushBehindKept DEF IInv
<1>18. Renewing'
  <2>1. \A x \in Ends, k \in {"PowReq", "PowChall", "PowPoW"} :
          Occurs(inbox'[x], k) <= Occurs(inbox[x], k)
    BY <1>4, <1>9 DEF Messages
  <2>2. \A x \in Ends, s \in {"powSolve", "powSend"} : solvers'[x][s] <= solvers[x][s]
    BY <1>1, <1>4, CountTypes
  <2>3. \A x \in Ends : Proved(x) => Proved(x)'
    BY <1>2, <1>8 DEF Proved
  <2> QED
    BY <1>4, <1>10, <2>1, <2>2, <2>3, RenewingKept DEF IInv
<1> QED
  BY <1>10, <1>11, <1>12, <1>13, <1>14, <1>15, <1>16, <1>17, <1>18 DEF IInv

LEMMA ConnChallInv ==
  ASSUME IInv, NEW e \in Ends, ConnChall(e)
  PROVE  IInv'
<1>1. /\ Receive(e, "ConnChall") /\ Idle(PeerOf[e])
      /\ inbox' = Taken(e)
      /\ UNCHANGED <<sentPowReq, ctxDone, writing, cut, faults>>
      /\ UNCHANGED <<todo, at, sending, renewals, pushes>>
  BY DEF ConnChall, Receive, connVars, loopVars
<1>2. /\ e \in Dialled /\ class[e] \in {"toBeProved", "gone"}
      /\ Occurs(inbox[e], "ConnChall") > 0
  BY <1>1, Expected
<1>3. TypeOK /\ \A x \in Ends, k \in Messages : Occurs(inbox[x], k) \in Nat
  BY CountTypes DEF IInv
<1>4. CASE class[e] = "gone"
  <2>1. /\ class' = [class EXCEPT ![e] = Removed(@)]
        /\ UNCHANGED solvers
    BY <1>4 DEF ConnChall, Drop
  <2>2. class' = [class EXCEPT ![e] = "gone"] /\ class'[e] = "gone"
    BY <1>3, <1>4, <2>1 DEF Removed, TypeOK
  <2>3. ctxDone' \in [Ends -> BOOLEAN] /\ faults' \in 0..MaxFaults
    BY <1>1, <1>3 DEF TypeOK
  <2> QED
    BY <1>1, <2>1, <2>2, <2>3, DiscardInv
<1>5. CASE class[e] = "toBeProved"
  <2>1. /\ UNCHANGED class
        /\ Spawn(e, "connSolve") /\ "connSolve" \in Stages
    BY <1>5 DEF ConnChall, Stages
  <2>2. inbox' \in [Ends -> Seq(Messages)]
    BY <1>1, <1>3, TakeEffect
  <2>3. \A x \in Ends, k \in Messages :
          Occurs(inbox'[x], k) = Occurs(inbox[x], k) - (IF x = e /\ k = "ConnChall" THEN 1 ELSE 0)
    BY <1>1, <1>3, TakeEffect
  <2>4. /\ \A x \in Ends : x # e => inbox'[x] = inbox[x]
        /\ Behind(inbox[e]) => Behind(inbox'[e])
    BY <1>1, <1>3, TakeEffect
  <2>5. /\ solvers' \in [Ends -> [Stages -> Nat]]
        /\ \A x \in Ends, s \in Stages :
             solvers'[x][s] = solvers[x][s] + (IF x = e /\ s = "connSolve" THEN 1 ELSE 0)
    BY <1>3, <2>1, SpawnEffect
  <2>6. \A x \in Ends, k \in Messages \ {"ConnChall"} : Occurs(inbox'[x], k) = Occurs(inbox[x], k)
    BY <1>3, <2>3
  <2>7. TypeOK'
    BY <1>1, <1>3, <2>1, <2>2, <2>5 DEF TypeOK
  <2>8. Visiting' /\ \A p \in Peers : Visited(p)' = Visited(p)
    BY <1>1, <1>3, <2>1, VisitingKept DEF IInv
  <2>9. Closing' /\ CutBoth'
    BY <1>1, <2>1 DEF IInv, Closing, CutBoth
  <2>10. Roles'
    <3>1. \A d \in Dialled : /\ Occurs(inbox'[d], "ConnReq") = Occurs(inbox[d], "ConnReq")
                             /\ Occurs(inbox'[d], "ConnPoW") = Occurs(inbox[d], "ConnPoW")
      BY <2>6, Network DEF Messages
    <3>2. \A a \in Accepted : a # e /\ inbox'[a] = inbox[a]
      BY <1>2, <2>4, Network
    <3>3. \A a \in Accepted, s \in Stages : solvers'[a][s] = solvers[a][s]
      BY <1>3, <2>5, <3>2, CountTypes, Network
    <3> QED
      BY <2>1, <3>1, <3>2, <3>3 DEF IInv, Roles, Stages
  <2>11. Announced'
    <3>1. \A x \in Ends : Occurs(inbox'[x], "NewConn") = Occurs(inbox[x], "NewConn")
      BY <2>6 DEF Messages
    <3> QED
      BY <1>5, <2>1, <2>4, <3>1 DEF IInv, Announced
  <2>12. Once'
    <3> SUFFICES ASSUME NEW d \in Dialled PROVE OnceAt(d)'
      BY DEF Once
    <3>1. d \in Ends /\ Other[d] \in Ends /\ PeerOf[d] \in Peers /\ Other[d] # e
      BY <1>2, Network
    <3>2. OnceAt(d) /\ Visited(PeerOf[d])' = Visited(PeerOf[d])
      BY <2>8, <3>1 DEF IInv, Once
    <3>3. /\ inbox'[Other[d]] = inbox[Other[d]]
          /\ Occurs(inbox'[d], "ConnChall") =
               Occurs(inbox[d], "ConnChall") - (IF d = e THEN 1 ELSE 0)
      BY <2>3, <2>4, <3>1 DEF Messages
    <3>4. /\ solvers'[d]["connSolve"] = solvers[d]["connSolve"] + (IF d = e THEN 1 ELSE 0)
          /\ solvers'[d]["connSend"] = solvers[d]["connSend"]
          /\ solvers'[d]["connAdmit"] = solvers[d]["connAdmit"]
      BY <1>3, <2>5, <3>1, CountTypes DEF Stages
    <3> QED
      BY <1>1, <1>3, <2>1, <3>2, <3>3, <3>4, CountsOf
      DEF OnceAt, AtAccepted, AtDialled, Prior, Asking, Flag
  <2>13. PushBehindProof'
    BY <2>1, <2>4, Network, PushBehindKept DEF IInv
  <2>14. Renewing'
    <3>1. \A x \in Ends, k \in {"PowReq", "PowChall", "PowPoW"} :
            Occurs(inbox'[x], k) <= Occurs(inbox[x], k)
      BY <1>3, <2>6 DEF Messages
    <3>2. \A x \in Ends, s \in {"powSolve", "powSend"} : solvers'[x][s] <= solvers[x][s]
      BY <1>3, <2>5, CountTypes DEF Stages
    <3> QED
      BY <1>3, <2>1, <2>7, <3>1, <3>2, RenewingKept DEF IInv, Proved
  <2> QED
    BY <2>7, <2>8, <2>9, <2>10, <2>11, <2>12, <2>13, <2>14 DEF IInv
<1> QED
  BY <1>2, <1>4, <1>5

LEMMA ConnPoWInv ==
  ASSUME IInv, NEW e \in Ends, ConnPoW(e)
  PROVE  IInv'
<1>1. /\ Receive(e, "ConnPoW") /\ Idle(PeerOf[e])
      /\ inbox' = Taken(e)
      /\ UNCHANGED <<sentPowReq, ctxDone, writing, cut, solvers>>
      /\ UNCHANGED <<todo, at, sending, renewals, pushes>>
  BY DEF ConnPoW, Receive, connVars, loopVars
<1>2. /\ e \in Accepted /\ class[e] \in {"inProgress", "gone"}
      /\ Occurs(inbox[e], "ConnPoW") > 0
  BY <1>1, Expected
<1>3. TypeOK /\ \A x \in Ends, k \in Messages : Occurs(inbox[x], k) \in Nat
  BY CountTypes DEF IInv
<1>4. CASE Drop(e)
  <2>1. class' = [class EXCEPT ![e] = "gone"] /\ class'[e] = "gone"
    BY <1>2, <1>3, <1>4 DEF Drop, Removed, TypeOK
  <2>2. faults' \in 0..MaxFaults
    BY <1>3, HandshakeAssumption DEF ConnPoW, TypeOK
  <2>3. ctxDone' \in [Ends -> BOOLEAN]
    BY <1>1, <1>3 DEF TypeOK
  <2> QED
    BY <1>1, <2>1, <2>2, <2>3, DiscardInv
<1>5. CASE /\ class[e] = "inProgress"
           /\ class' = [class EXCEPT ![e] = "valid"]
           /\ UNCHANGED faults
  <2>1. inbox' \in [Ends -> Seq(Messages)]
    BY <1>1, <1>3, TakeEffect
  <2>2. \A x \in Ends, k \in Messages :
          Occurs(inbox'[x], k) = Occurs(inbox[x], k) - (IF x = e /\ k = "ConnPoW" THEN 1 ELSE 0)
    BY <1>1, <1>3, TakeEffect
  <2>3. \A x \in Ends : x # e => inbox'[x] = inbox[x]
    BY <1>1, <1>3, TakeEffect
  <2>4. \A x \in Ends : class'[x] = IF x = e THEN "valid" ELSE class[x]
    BY <1>3, <1>5 DEF TypeOK
  <2>5. \A x \in Ends, k \in Messages \ {"ConnPoW"} : Occurs(inbox'[x], k) = Occurs(inbox[x], k)
    BY <1>3, <2>2
  <2>6. TypeOK'
    BY <1>1, <1>3, <1>5, <2>1 DEF TypeOK, Classes
  <2>7. Visiting' /\ \A p \in Peers : Visited(p)' = Visited(p)
    BY <1>1, <1>3, <2>4, VisitingKept DEF IInv
  <2>8. Closing'
    BY <1>1, <1>5, <2>4, ClosingKept DEF IInv
  <2>9. CutBoth'
    BY <1>1 DEF IInv, CutBoth
  <2>10. Roles'
    <3>1. \A d \in Dialled : inbox'[d] = inbox[d] /\ class'[d] = class[d]
      BY <1>2, <2>3, <2>4, Network
    <3>2. \A a \in Accepted : Occurs(inbox'[a], "ConnChall") = Occurs(inbox[a], "ConnChall")
      BY <2>5, Network DEF Messages
    <3> QED
      BY <1>1, <2>4, <3>1, <3>2, Network DEF IInv, Roles
  <2>11. Announced'
    <3>1. \A x \in Ends : Occurs(inbox'[x], "NewConn") = Occurs(inbox[x], "NewConn")
      BY <2>5 DEF Messages
    <3>2. \A x \in Ends : (class'[x] = "new" <=> class[x] = "new") /\ (class'[x] = "new" => x # e)
      BY <1>5, <2>4
    <3> QED
      BY <2>3, <3>1, <3>2 DEF IInv, Announced, Flag
  <2>12. Once'
    <3> SUFFICES ASSUME NEW d \in Dialled PROVE OnceAt(d)'
      BY DEF Once
    <3>1. d \in Ends /\ Other[d] \in Ends /\ PeerOf[d] \in Peers /\ d # e
      BY <1>2, Network
    <3>2. OnceAt(d) /\ Visited(PeerOf[d])' = Visited(PeerOf[d])
      BY <2>7, <3>1 DEF IInv, Once
    <3>3. /\ inbox'[d] = inbox[d]
          /\ Occurs(inbox'[Other[d]], "ConnReq") = Occurs(inbox[Other[d]], "ConnReq")
          /\ Occurs(inbox'[Other[d]], "ConnPoW") =
               Occurs(inbox[Other[d]], "ConnPoW") - (IF Other[d] = e THEN 1 ELSE 0)
      BY <2>2, <2>3, <2>5, <3>1 DEF Messages
    <3>4. class'[d] = class[d]
      BY <2>4, <3>1
    <3> QED
      BY <1>1, <1>3, <1>5, <2>4, <3>1, <3>2, <3>3, <3>4, CountsOf
      DEF OnceAt, AtAccepted, AtDialled, Prior, Asking, Flag
  <2>13. PushBehindProof'
    BY <2>3, <2>4, Network, PushBehindKept DEF IInv
  <2>14. Renewing'
    <3>1. \A x \in Ends, k \in {"PowReq", "PowChall", "PowPoW"} :
            Occurs(inbox'[x], k) <= Occurs(inbox[x], k)
      BY <1>3, <2>5 DEF Messages
    <3>2. \A x \in Ends, s \in {"powSolve", "powSend"} : solvers'[x][s] <= solvers[x][s]
      BY <1>1, <1>3, CountTypes
    <3>3. \A x \in Ends : Proved(x) => Proved(x)'
      BY <2>4 DEF Proved
    <3> QED
      BY <1>3, <2>6, <3>1, <3>2, <3>3, RenewingKept DEF IInv
  <2> QED
    BY <2>6, <2>7, <2>8, <2>9, <2>10, <2>11, <2>12, <2>13, <2>14 DEF IInv
<1> QED
  BY <1>4, <1>5 DEF ConnPoW

LEMMA PowReqInv ==
  ASSUME IInv, NEW e \in Ends, PowReq(e)
  PROVE  IInv'
<1>1. /\ Receive(e, "PowReq") /\ Idle(PeerOf[e])
      /\ UNCHANGED <<class, sentPowReq, ctxDone, writing, cut, solvers, faults>>
      /\ UNCHANGED <<todo, at, sending, renewals, pushes>>
  BY DEF PowReq, Receive, connVars, loopVars
<1>2. Occurs(inbox[e], "PowReq") > 0
  BY <1>1, Expected
<1>3. TypeOK /\ \A x \in Ends, k \in Messages : Occurs(inbox[x], k) \in Nat
  BY CountTypes DEF IInv
<1>4. CASE class[e] # "valid"
  <2>1. inbox' = Taken(e)
    BY <1>4 DEF PowReq
  <2>2. ctxDone' \in [Ends -> BOOLEAN] /\ faults' \in 0..MaxFaults
    BY <1>1, <1>3 DEF TypeOK
  <2> QED
    BY <1>1, <2>1, <2>2, DiscardInv
<1>5. CASE class[e] = "valid"
  <2>1. Answer(e, "PowChall") /\ "PowChall" \in Messages
    BY <1>5 DEF PowReq, Messages
  <2>2. inbox' \in [Ends -> Seq(Messages)]
    BY <1>1, <1>3, <2>1, AnswerEffect
  <2>3. \A x \in Ends, k \in Messages :
          Occurs(inbox'[x], k) =
            Occurs(inbox[x], k) - (IF x = e /\ k = "PowReq" THEN 1 ELSE 0)
              + (IF x = Other[e] /\ e \notin cut /\ k = "PowChall" THEN 1 ELSE 0)
    BY <1>1, <1>3, <2>1, AnswerEffect
  <2>4. /\ \A x \in Ends : x # e /\ inbox[x] # <<>> =>
             inbox'[x] # <<>> /\ Head(inbox'[x]) = Head(inbox[x])
        /\ \A x \in Ends : Behind(inbox[x]) => Behind(inbox'[x])
    BY <1>1, <1>3, <2>1, AnswerEffect
  <2>5. \A x \in Ends, k \in Messages \ {"PowReq", "PowChall"} :
          Occurs(inbox'[x], k) = Occurs(inbox[x], k)
    BY <1>3, <2>3
  <2>6. TypeOK'
    BY <1>1, <1>3, <2>2 DEF TypeOK
  <2>7. Visiting' /\ \A p \in Peers : Visited(p)' = Visited(p)
    BY <1>1, <1>3, VisitingKept DEF IInv
  <2>8. Closing' /\ CutBoth'
    BY <1>1 DEF IInv, Closing, CutBoth
  <2>9. \A x \in Ends : /\ Occurs(inbox'[x], "NewConn") = Occurs(inbox[x], "NewConn")
                        /\ Occurs(inbox'[x], "ConnReq") = Occurs(inbox[x], "ConnReq")
                        /\ Occurs(inbox'[x], "ConnChall") = Occurs(inbox[x], "ConnChall")
                        /\ Occurs(inbox'[x], "ConnPoW") = Occurs(inbox[x], "ConnPoW")
    BY <2>5 DEF Messages
  <2>10. Roles'
    BY <1>1, <2>9, Network DEF IInv, Roles
  <2>11. Announced'
    BY <1>1, <1>5, <2>4, <2>9 DEF IInv, Announced
  <2>12. Once'
    <3> SUFFICES ASSUME NEW d \in Dialled PROVE OnceAt(d)'
      BY DEF Once
    <3>1. d \in Ends /\ Other[d] \in Ends /\ PeerOf[d] \in Peers
      BY Network
    <3>2. OnceAt(d) /\ Visited(PeerOf[d])' = Visited(PeerOf[d])
      BY <2>7, <3>1 DEF IInv, Once
    <3> QED
      BY <1>1, <2>9, <3>1, <3>2 DEF OnceAt, AtAccepted, AtDialled, Prior, Asking
  <2>13. PushBehindProof'
    BY <1>1, <2>4, Network, PushBehindKept DEF IInv
  <2>14. Renewing'
    <3> SUFFICES ASSUME NEW x \in Ends PROVE RenewingAt(x)'
      BY DEF Renewing
    <3>1. RenewingAt(x) /\ RenewingAt(e)
      BY DEF IInv, Renewing
    <3>2. Proved(x)' = Proved(x) /\ Proved(Other[x])' = Proved(Other[x])
      BY <1>1 DEF Proved
    <3>3. Proved(e) /\ Proved(Other[e]) /\ Other[Other[e]] = e
      BY <1>2, <1>5, <3>1, Network DEF RenewingAt, Proved
    <3>4. /\ Occurs(inbox'[x], "PowReq") <= Occurs(inbox[x], "PowReq")
          /\ Occurs(inbox'[x], "PowPoW") = Occurs(inbox[x], "PowPoW")
          /\ x # Other[e] => Occurs(inbox'[x], "PowChall") = Occurs(inbox[x], "PowChall")
          /\ Occurs(inbox'[x], "PowReq") \in Int /\ Occurs(inbox[x], "PowReq") \in Int
      BY <1>3, <2>3 DEF Messages
    <3> QED
      BY <1>1, <3>1, <3>2, <3>3, <3>4 DEF RenewingAt
  <2> QED
    BY <2>6, <2>7, <2>8, <2>10, <2>11, <2>12, <2>13, <2>14 DEF IInv
<1> QED
  BY <1>4, <1>5

LEMMA PowChallInv ==
  ASSUME IInv, NEW e \in Ends, PowChall(e)
  PROVE  IInv'
<1>1. /\ Receive(e, "PowChall") /\ Idle(PeerOf[e])
      /\ inbox' = Taken(e)
      /\ UNCHANGED <<sentPowReq, ctxDone, writing, cut, faults>>
      /\ UNCHANGED <<todo, at, sending, renewals, pushes>>
  BY DEF PowChall, Receive, connVars, loopVars
<1>2. class[e] \in {"valid", "gone"} /\ Occurs(inbox[e], "PowChall") > 0
  BY <1>1, Expected DEF Proved
<1>3. TypeOK /\ \A x \in Ends, k \in Messages : Occurs(inbox[x], k) \in Nat
  BY CountTypes DEF IInv
<1>4. CASE ~(class[e] = "valid" /\ sentPowReq[e])
  <2>1. Drop(e) /\ UNCHANGED solvers
    BY <1>4 DEF PowChall
  <2>2. class' = [class EXCEPT ![e] = "gone"]
    BY <1>2, <1>3, <2>1 DEF Drop, Removed, TypeOK
  <2>3. ctxDone' \in [Ends -> BOOLEAN] /\ faults' \in 0..MaxFaults
    BY <1>1, <1>3 DEF TypeOK
  <2> QED
    BY <1>1, <2>1, <2>2, <2>3, DiscardInv
<1>5. CASE class[e] = "valid" /\ sentPowReq[e]
  <2>1. UNCHANGED class /\ Spawn(e, "powSolve") /\ "powSolve" \in Stages
    BY <1>5 DEF PowChall, Stages
  <2>2. inbox' \in [Ends -> Seq(Messages)]
    BY <1>1, <1>3, TakeEffect
  <2>3. \A x \in Ends, k \in Messages :
          Occurs(inbox'[x], k) = Occurs(inbox[x], k) - (IF x = e /\ k = "PowChall" THEN 1 ELSE 0)
    BY <1>1, <1>3, TakeEffect
  <2>4. /\ \A x \in Ends : x # e => inbox'[x] = inbox[x]
        /\ Behind(inbox[e]) => Behind(inbox'[e])
    BY <1>1, <1>3, TakeEffect
  <2>5. /\ solvers' \in [Ends -> [Stages -> Nat]]
        /\ \A x \in Ends, s \in Stages :
             solvers'[x][s] = solvers[x][s] + (IF x = e /\ s = "powSolve" THEN 1 ELSE 0)
    BY <1>3, <2>1, SpawnEffect
  <2>6. \A x \in Ends, k \in Messages \ {"PowChall"} : Occurs(inbox'[x], k) = Occurs(inbox[x], k)
    BY <1>3, <2>3
  <2>7. TypeOK'
    BY <1>1, <1>3, <2>1, <2>2, <2>5 DEF TypeOK
  <2>8. Visiting' /\ \A p \in Peers : Visited(p)' = Visited(p)
    BY <1>1, <1>3, <2>1, VisitingKept DEF IInv
  <2>9. Closing' /\ CutBoth'
    BY <1>1, <2>1 DEF IInv, Closing, CutBoth
  <2>10. \A x \in Ends : /\ Occurs(inbox'[x], "NewConn") = Occurs(inbox[x], "NewConn")
                         /\ Occurs(inbox'[x], "ConnReq") = Occurs(inbox[x], "ConnReq")
                         /\ Occurs(inbox'[x], "ConnChall") = Occurs(inbox[x], "ConnChall")
                         /\ Occurs(inbox'[x], "ConnPoW") = Occurs(inbox[x], "ConnPoW")
    BY <2>6 DEF Messages
  <2>11. \A x \in Ends : /\ solvers'[x]["connSolve"] = solvers[x]["connSolve"]
                         /\ solvers'[x]["connSend"] = solvers[x]["connSend"]
                         /\ solvers'[x]["connAdmit"] = solvers[x]["connAdmit"]
    BY <1>3, <2>5, CountTypes DEF Stages
  <2>12. Roles'
    BY <2>1, <2>10, <2>11, Network DEF IInv, Roles
  <2>13. Announced'
    BY <1>5, <2>1, <2>4, <2>10 DEF IInv, Announced
  <2>14. Once'
    <3> SUFFICES ASSUME NEW d \in Dialled PROVE OnceAt(d)'
      BY DEF Once
    <3>1. d \in Ends /\ Other[d] \in Ends /\ PeerOf[d] \in Peers
      BY Network
    <3>2. OnceAt(d) /\ Visited(PeerOf[d])' = Visited(PeerOf[d])
      BY <2>8, <3>1 DEF IInv, Once
    <3> QED
      BY <1>1, <2>1, <2>10, <2>11, <3>1, <3>2 DEF OnceAt, AtAccepted, AtDialled, Prior, Asking
  <2>15. PushBehindProof'
    BY <2>1, <2>4, Network, PushBehindKept DEF IInv
  <2>16. Renewing'
    <3> SUFFICES ASSUME NEW x \in Ends PROVE RenewingAt(x)'
      BY DEF Renewing
    <3>1. RenewingAt(x) /\ RenewingAt(e)
      BY DEF IInv, Renewing
    <3>2. Proved(x)' = Proved(x) /\ Proved(Other[x])' = Proved(Other[x])
      BY <2>1 DEF Proved
    <3>3. Proved(Other[e])
      BY <1>2, <3>1 DEF RenewingAt
    <3>4. /\ Occurs(inbox'[x], "PowReq") = Occurs(inbox[x], "PowReq")
          /\ Occurs(inbox'[x], "PowPoW") = Occurs(inbox[x], "PowPoW")
          /\ Occurs(inbox'[x], "PowChall") <= Occurs(inbox[x], "PowChall")
          /\ Occurs(inbox'[x], "PowChall") \in Int /\ Occurs(inbox[x], "PowChall") \in Int
      BY <1>3, <2>3 DEF Messages
    <3>5. /\ solvers'[x]["powSend"] = solvers[x]["powSend"]
          /\ x # e => solvers'[x]["powSolve"] = solvers[x]["powSolve"]
      BY <1>3, <2>5, CountTypes DEF Stages
    <3> QED
      BY <3>1, <3>2, <3>3, <3>4, <3>5 DEF RenewingAt
  <2> QED
    BY <2>7, <2>8, <2>9, <2>12, <2>13, <2>14, <2>15, <2>16 DEF IInv
<1> QED
  BY <1>4, <1>5

LEMMA PowPoWInv ==
  ASSUME IInv, NEW e \in Ends, PowPoW(e)
  PROVE  IInv'
<1>1. /\ Receive(e, "PowPoW") /\ inbox' = Taken(e)
      /\ UNCHANGED <<sentPowReq, ctxDone, writing, cut, solvers, faults>>
      /\ UNCHANGED <<todo, at, sending, renewals, pushes>>
  BY DEF PowPoW, connVars, loopVars
<1>2. class[e] \in {"valid", "gone"}
  BY <1>1, Expected DEF Proved
<1>3. class' \in {class, [class EXCEPT ![e] = "gone"]}
  BY <1>2 DEF PowPoW, Drop, Removed, IInv, TypeOK
<1>4. ctxDone' \in [Ends -> BOOLEAN] /\ faults' \in 0..MaxFaults
  BY <1>1 DEF IInv, TypeOK
<1> QED
  BY <1>1, <1>3, <1>4, DiscardInv

LEMMA PushInv ==
  ASSUME IInv, NEW e \in Ends, Push(e)
  PROVE  IInv'
<1>1. /\ Receive(e, "Push") /\ inbox' = Taken(e)
      /\ UNCHANGED <<class, sentPowReq, ctxDone, writing, cut, solvers, faults>>
      /\ UNCHANGED <<todo, at, sending, renewals, pushes>>
  BY DEF Push, connVars, loopVars
<1>2. ctxDone' \in [Ends -> BOOLEAN] /\ faults' \in 0..MaxFaults
  BY <1>1 DEF IInv, TypeOK
<1> QED
  BY <1>1, <1>2, DiscardInv

LEMMA UnregisterInv ==
  ASSUME IInv, NEW e \in Ends, Unregister(e)
  PROVE  IInv'
<1>1. /\ Receive(e, "Unregister") /\ inbox' = Taken(e)
      /\ Drop(e)
      /\ ctxDone' = [ctxDone EXCEPT ![e] = @ \/ Managed(e)]
      /\ UNCHANGED <<sentPowReq, writing, cut, solvers, faults>>
      /\ UNCHANGED <<todo, at, sending, renewals, pushes>>
  BY DEF Unregister, loopVars
<1>2. class[e] # "new" /\ TypeOK
  BY <1>1, Expected DEF IInv
<1>3. class' = [class EXCEPT ![e] = "gone"] /\ class'[e] = "gone"
  BY <1>1, <1>2 DEF Drop, Removed, TypeOK
<1>4. ctxDone' \in [Ends -> BOOLEAN] /\ faults' \in 0..MaxFaults
  BY <1>1, <1>2 DEF TypeOK
<1>5. \A x \in Ends : ctxDone'[x] => ctxDone[x] \/ class'[x] = "gone"
  BY <1>1, <1>2, <1>3 DEF TypeOK
<1> QED
  BY <1>1, <1>3, <1>4, <1>5, DiscardInv

LEMMA HandleInv ==
  ASSUME IInv, NEW e \in Ends, Handle(e)
  PROVE  IInv'
BY NewConnInv, ConnReqInv, ConnChallInv, ConnPoWInv, PowReqInv, PowChallInv, PowPoWInv,
   PushInv, UnregisterInv DEF Handle

-----------------------------------------------------------------------------
(* The tickers and the visits. *)

\* A peer in its select has no visit left.
LEMMA IdleVisited ==
  ASSUME NEW p \in Peers, Idle(p)
  PROVE  Visited(p) = {}
BY HandshakeAssumption DEF Visited, Idle

\* A step that changes nothing but where the loops are.
LEMMA FrameKept ==
  ASSUME IInv, TypeOK', Visiting', UNCHANGED <<class, ctxDone, cut, solvers, inbox>>,
         \A d \in Dialled : Asking(d)' = Asking(d)
  PROVE  IInv'
<1>1. Closing' /\ CutBoth'
  BY DEF IInv, Closing, CutBoth
<1>2. Roles'
  BY DEF IInv, Roles
<1>3. Announced'
  BY DEF IInv, Announced
<1>4. Once'
  BY DEF IInv, Once, OnceAt, AtAccepted, AtDialled, Prior
<1>5. PushBehindProof'
  BY DEF IInv, PushBehindProof
<1>6. Renewing'
  BY DEF IInv, Renewing, RenewingAt, Proved
<1> QED
  BY <1>1, <1>2, <1>3, <1>4, <1>5, <1>6 DEF IInv

\* What the two tickers that send have in common.
LEMMA TickerInv ==
  ASSUME IInv, NEW p \in Peers, Idle(p),
         NEW S \in SUBSET ValidEnds(p), todo' = [todo EXCEPT ![p] = S],
         NEW m \in {"PowReq", "Push"}, sending' = [sending EXCEPT ![p] = m],
         renewals' \in [Peers -> 0..MaxRenewals], pushes' \in [Peers -> 0..MaxPushes],
         UNCHANGED <<class, sentPowReq, ctxDone, writing, cut, solvers, inbox, at, faults>>
  PROVE  IInv'
<1>1. TypeOK /\ S \in SUBSET Ends /\ at[p] = NoEnd /\ NoEnd \notin S
  BY HandshakeAssumption DEF IInv, ValidEnds, EndsOf, Idle
<1>2. /\ \A q \in Peers : todo'[q] = IF q = p THEN S ELSE todo[q]
      /\ \A q \in Peers : sending'[q] = IF q = p THEN m ELSE sending[q]
  BY <1>1 DEF TypeOK
<1>3. TypeOK'
  <2>1. todo' \in [Peers -> SUBSET Ends]
    BY <1>1 DEF TypeOK
  <2>2. sending' \in [Peers -> {"ConnReq", "PowReq", "Push"}]
    BY <1>1 DEF TypeOK
  <2> QED
    BY <1>1, <2>1, <2>2 DEF TypeOK
<1>4. /\ Visited(p)' = S
      /\ \A q \in Peers : q # p => Visited(q)' = Visited(q)
  BY <1>1, <1>2, HandshakeAssumption DEF Visited
<1>5. Visiting'
  <2> SUFFICES ASSUME NEW q \in Peers
               PROVE  /\ at'[q] \notin todo'[q]
                      /\ \A e \in Visited(q)' :
                           /\ PeerOf[e] = q
                           /\ sending'[q] = "ConnReq" => e \in Dialled /\ class'[e] = "toBeProved"
                           /\ sending'[q] # "ConnReq" => class'[e] = "valid"
    BY DEF Visiting
  <2>1. CASE q = p
    BY <1>1, <1>2, <1>4, <2>1 DEF ValidEnds, EndsOf
  <2>2. CASE q # p
    BY <1>2, <1>4, <2>2 DEF IInv, Visiting
  <2> QED
    BY <2>1, <2>2
<1>6. \A d \in Dialled : Asking(d)' = Asking(d)
  <2> SUFFICES ASSUME NEW d \in Dialled PROVE Asking(d)' = Asking(d)
    OBVIOUS
  <2>1. PeerOf[d] \in Peers
    BY Network
  <2>2. CASE PeerOf[d] = p
    BY <1>2, <2>1, <2>2, IdleVisited DEF Asking
  <2>3. CASE PeerOf[d] # p
    BY <1>2, <1>4, <2>1, <2>3 DEF Asking
  <2> QED
    BY <2>2, <2>3
<1> QED
  BY <1>3, <1>5, <1>6, FrameKept

LEMMA RenewInv ==
  ASSUME IInv, NEW p \in Peers, Renew(p)
  PROVE  IInv'
<1>1. /\ Idle(p) /\ ValidEnds(p) \in SUBSET ValidEnds(p) /\ "PowReq" \in {"PowReq", "Push"}
      /\ todo' = [todo EXCEPT ![p] = ValidEnds(p)]
      /\ sending' = [sending EXCEPT ![p] = "PowReq"]
      /\ UNCHANGED <<class, sentPowReq, ctxDone, writing, cut, solvers, inbox, at, faults>>
  BY DEF Renew, connVars
<1>2. renewals' \in [Peers -> 0..MaxRenewals]
  <2>1. renewals[p] \in 0..MaxRenewals /\ renewals[p] < MaxRenewals /\ MaxRenewals \in Nat
    BY HandshakeAssumption DEF Renew, IInv, TypeOK
  <2>2. renewals[p] + 1 \in 0..MaxRenewals
    BY <2>1
  <2> QED
    BY <2>2 DEF Renew, IInv, TypeOK
<1>3. pushes' \in [Peers -> 0..MaxPushes]
  BY DEF Renew, IInv, TypeOK
<1> QED
  BY <1>1, <1>2, <1>3, TickerInv

LEMMA GossipInv ==
  ASSUME IInv, NEW p \in Peers, Gossip(p)
  PROVE  IInv'
<1>1. PICK S \in SUBSET ValidEnds(p) : todo' = [todo EXCEPT ![p] = S]
  BY DEF Gossip
<1>2. /\ Idle(p) /\ "Push" \in {"PowReq", "Push"}
      /\ sending' = [sending EXCEPT ![p] = "Push"]
      /\ UNCHANGED <<class, sentPowReq, ctxDone, writing, cut, solvers, inbox, at, faults>>
  BY DEF Gossip, connVars
<1>3. pushes' \in [Peers -> 0..MaxPushes]
  <2>1. pushes[p] \in 0..MaxPushes /\ pushes[p] < MaxPushes /\ MaxPushes \in Nat
    BY HandshakeAssumption DEF Gossip, IInv, TypeOK
  <2>2. pushes[p] + 1 \in 0..MaxPushes
    BY <2>1
  <2> QED
    BY <2>2 DEF Gossip, IInv, TypeOK
<1>4. renewals' \in [Peers -> 0..MaxRenewals]
  BY DEF Gossip, IInv, TypeOK
<1> QED
  BY <1>1, <1>2, <1>3, <1>4, TickerInv

LEMMA VisitInv ==
  ASSUME IInv, NEW p \in Peers, NEW e \in EndsOf(p), Visit(p, e)
  PROVE  IInv'
<1>1. /\ TypeOK /\ e \in Ends /\ e # NoEnd /\ at[p] = NoEnd /\ e \in todo[p]
      /\ todo' = [todo EXCEPT ![p] = @ \ {e}]
      /\ at' = [at EXCEPT ![p] = e]
      /\ sentPowReq' = [sentPowReq EXCEPT ![e] = @ \/ sending[p] = "PowReq"]
      /\ UNCHANGED <<class, ctxDone, writing, cut, solvers, inbox, sending, renewals, pushes, faults>>
  BY HandshakeAssumption DEF Visit, EndsOf, IInv
<1>2. /\ \A q \in Peers : todo'[q] = IF q = p THEN todo[p] \ {e} ELSE todo[q]
      /\ \A q \in Peers : at'[q] = IF q = p THEN e ELSE at[q]
  BY <1>1 DEF TypeOK
<1>3. TypeOK'
  <2>1. todo' \in [Peers -> SUBSET Ends] /\ at' \in [Peers -> Ends \cup {NoEnd}]
    BY <1>1 DEF TypeOK
  <2>2. sentPowReq' \in [Ends -> BOOLEAN]
    BY <1>1 DEF TypeOK
  <2> QED
    BY <1>1, <2>1, <2>2 DEF TypeOK
<1>4. \A q \in Peers : Visited(q)' = Visited(q)
  <2> SUFFICES ASSUME NEW q \in Peers PROVE Visited(q)' = Visited(q)
    OBVIOUS
  <2>1. \A x \in Ends : (x \in todo'[q] \/ x = at'[q]) <=> (x \in todo[q] \/ x = at[q])
    BY <1>1, <1>2, HandshakeAssumption
  <2> QED
    BY <2>1 DEF Visited
<1>5. Visiting'
  <2>1. \A q \in Peers : at'[q] \notin todo'[q]
    BY <1>1, <1>2 DEF IInv, Visiting
  <2> QED
    BY <1>1, <1>4, <2>1 DEF IInv, Visiting
<1>6. \A d \in Dialled : Asking(d)' = Asking(d)
  BY <1>1, <1>4, Network DEF Asking
<1> QED
  BY <1>1, <1>3, <1>5, <1>6, FrameKept

LEMMA VisitSendInv ==
  ASSUME IInv, NEW p \in Peers, VisitSend(p)
  PROVE  IInv'
<1> DEFINE e == at[p]
           m == sending[p]
<1>1. TypeOK /\ \A x \in Ends, k \in Messages : Occurs(inbox[x], k) \in Nat
  BY CountTypes DEF IInv
<1>2. /\ e \in Ends /\ e # NoEnd
      /\ m \in {"ConnReq", "PowReq", "Push"} /\ m \in Messages
  BY <1>1 DEF VisitSend, TypeOK, Messages
<1>3. /\ inbox' = Written(inbox, e, m)
      /\ at' = [at EXCEPT ![p] = NoEnd]
      /\ UNCHANGED <<class, sentPowReq, ctxDone, writing, cut, solvers>>
      /\ UNCHANGED <<todo, sending, renewals, pushes, faults>>
  BY DEF VisitSend, connVars
<1>4. /\ e \in Visited(p) /\ e \notin todo[p] /\ PeerOf[e] = p
      /\ m = "ConnReq" => e \in Dialled /\ class[e] = "toBeProved"
      /\ m # "ConnReq" => class[e] = "valid"
  BY <1>2 DEF IInv, Visiting, Visited
<1> HIDE DEF e, m
<1>5. inbox' \in [Ends -> Seq(Messages)]
  BY <1>1, <1>2, <1>3, WriteEffect
<1>6. \A x \in Ends, k \in Messages :
        Occurs(inbox'[x], k) =
          Occurs(inbox[x], k) + (IF x = Other[e] /\ e \notin cut /\ k = m THEN 1 ELSE 0)
  BY <1>1, <1>2, <1>3, WriteEffect
<1>7. \A x \in Ends : inbox[x] # <<>> => inbox'[x] # <<>> /\ Head(inbox'[x]) = Head(inbox[x])
  BY <1>1, <1>2, <1>3, WriteEffect
<1>8. \A x \in Ends :
        Behind(inbox[x]) /\ (m = "Push" /\ x = Other[e] /\ e \notin cut
                               => Occurs(inbox[x], "ConnPoW") > 0) => Behind(inbox'[x])
  BY <1>1, <1>2, <1>3, WriteEffect
<1>9. \A x \in Ends : /\ Occurs(inbox'[x], "NewConn") = Occurs(inbox[x], "NewConn")
                      /\ Occurs(inbox'[x], "ConnChall") = Occurs(inbox[x], "ConnChall")
                      /\ Occurs(inbox'[x], "ConnPoW") = Occurs(inbox[x], "ConnPoW")
                      /\ Occurs(inbox'[x], "PowChall") = Occurs(inbox[x], "PowChall")
                      /\ Occurs(inbox'[x], "PowPoW") = Occurs(inbox[x], "PowPoW")
  BY <1>1, <1>2, <1>6 DEF Messages
<1>10. \A x \in Ends :
         /\ Occurs(inbox'[x], "ConnReq") = Occurs(inbox[x], "ConnReq")
              + (IF x = Other[e] /\ e \notin cut /\ m = "ConnReq" THEN 1 ELSE 0)
         /\ Occurs(inbox'[x], "PowReq") = Occurs(inbox[x], "PowReq")
              + (IF x = Other[e] /\ e \notin cut /\ m = "PowReq" THEN 1 ELSE 0)
  BY <1>1, <1>2, <1>6 DEF Messages
<1>11. \A q \in Peers : at'[q] = IF q = p THEN NoEnd ELSE at[q]
  BY <1>1, <1>3 DEF TypeOK
<1>12. TypeOK'
  <2>1. at' \in [Peers -> Ends \cup {NoEnd}]
    BY <1>1, <1>3 DEF TypeOK
  <2> QED
    BY <1>1, <1>3, <1>5, <2>1 DEF TypeOK
<1>13. /\ \A q \in Peers : q # p => Visited(q)' = Visited(q)
       /\ Visited(p)' = Visited(p) \ {e}
  <2>1. \A q \in Peers : q # p => Visited(q)' = Visited(q)
    BY <1>3, <1>11 DEF Visited
  <2>2. \A x \in Ends : (x \in todo'[p] \/ x = at'[p]) <=> ((x \in todo[p] \/ x = at[p]) /\ x # e)
    BY <1>2, <1>3, <1>4, <1>11, HandshakeAssumption DEF e
  <2>3. Visited(p)' = Visited(p) \ {e}
    BY <2>2 DEF Visited
  <2> QED
    BY <2>1, <2>3
<1>14. Visiting'
  <2> SUFFICES ASSUME NEW q \in Peers
               PROVE  /\ at'[q] \notin todo'[q]
                      /\ \A x \in Visited(q)' :
                           /\ PeerOf[x] = q
                           /\ sending'[q] = "ConnReq" => x \in Dialled /\ class'[x] = "toBeProved"
                           /\ sending'[q] # "ConnReq" => class'[x] = "valid"
    BY DEF Visiting
  <2>1. at'[q] \notin todo'[q]
    BY <1>1, <1>3, <1>11, HandshakeAssumption DEF IInv, Visiting, TypeOK
  <2>2. Visited(q)' \subseteq Visited(q)
    BY <1>13
  <2> QED
    BY <1>3, <2>1, <2>2 DEF IInv, Visiting
<1>15. Closing' /\ CutBoth'
  BY <1>3 DEF IInv, Closing, CutBoth
<1>16. Roles'
  <2>1. \A d \in Dialled : Occurs(inbox'[d], "ConnReq") = Occurs(inbox[d], "ConnReq")
    <3>1. m = "ConnReq" => \A d \in Dialled : d # Other[e]
      BY <1>4, Network
    <3>2. \A d \in Dialled : d \in Ends /\ Occurs(inbox[d], "ConnReq") \in Nat
      BY <1>1, Network DEF Messages
    <3> QED
      BY <1>10, <3>1, <3>2
  <2> QED
    BY <1>3, <1>9, <2>1, Network DEF IInv, Roles
<1>17. Announced'
  BY <1>3, <1>7, <1>9 DEF IInv, Announced
<1>18. Once'
  <2> SUFFICES ASSUME NEW d \in Dialled PROVE OnceAt(d)'
    BY DEF Once
  <2>1. /\ d \in Ends /\ Other[d] \in Ends /\ PeerOf[d] \in Peers
        /\ Other[d] = Other[e] <=> d = e
    BY <1>2, Network
  <2>2. OnceAt(d)
    BY DEF IInv, Once
  <2>3. Flag(Asking(d))' = Flag(Asking(d)) - (IF d = e /\ m = "ConnReq" THEN 1 ELSE 0)
    BY <1>3, <1>4, <1>13, <2>1 DEF Asking, Flag, m
  <2>4. Occurs(inbox'[Other[d]], "ConnReq") = Occurs(inbox[Other[d]], "ConnReq")
              + (IF d = e /\ e \notin cut /\ m = "ConnReq" THEN 1 ELSE 0)
    BY <1>10, <2>1
  <2>5. Flag(Asking(d)) \in Nat
    BY DEF Flag
  <2>6. Prior(d)' = Prior(d) - (IF d = e /\ e \in cut /\ m = "ConnReq" THEN 1 ELSE 0)
    <3>1. Prior(d) = Flag(Asking(d)) + Occurs(inbox[Other[d]], "ConnReq") + Occurs(inbox[d], "ConnChall")
                       + solvers[d]["connSolve"] + solvers[d]["connSend"]
      BY DEF Prior
    <3>2. Prior(d)' = Flag(Asking(d))' + Occurs(inbox'[Other[d]], "ConnReq") + Occurs(inbox'[d], "ConnChall")
                        + solvers[d]["connSolve"] + solvers[d]["connSend"]
      BY <1>3 DEF Prior
    <3> QED
      BY <1>1, <1>9, <2>1, <2>3, <2>4, <2>5, <3>1, <3>2, CountsOf
  <2>7. Prior(d) \in Int
    BY <1>1, <2>5, CountsOf DEF Prior
  <2>8. /\ Flag(class[d] = "valid") \in Int /\ Flag(class[Other[d]] = "valid") \in Int
    BY DEF Flag
  <2>9. /\ AtAccepted(d)' = AtAccepted(d) - (IF d = e /\ e \in cut /\ m = "ConnReq" THEN 1 ELSE 0)
        /\ AtDialled(d)' = AtDialled(d) - (IF d = e /\ e \in cut /\ m = "ConnReq" THEN 1 ELSE 0)
        /\ AtAccepted(d) \in Int /\ AtDialled(d) \in Int
    BY <1>1, <1>3, <1>9, <2>1, <2>6, <2>7, <2>8, CountsOf DEF AtAccepted, AtDialled
  <2> QED
    BY <1>3, <2>2, <2>9 DEF OnceAt
<1>19. PushBehindProof'
  <2> SUFFICES ASSUME NEW a \in Accepted, class[a] \in {"new", "inProgress"}
               PROVE  Behind(inbox'[a])
    BY <1>3 DEF PushBehindProof
  <2>1. a \in Ends /\ Behind(inbox[a])
    BY Network DEF IInv, PushBehindProof
  <2>2. ASSUME m = "Push", a = Other[e], e \notin cut
        PROVE  Occurs(inbox[a], "ConnPoW") > 0
    <3>1. e \in Dialled /\ class[e] = "valid" /\ OnceAt(e)
      BY <1>2, <1>4, <2>2, Network DEF IInv, Once
    <3>2. AtDialled(e) <= 1 /\ AtAccepted(e) = 1
      BY <2>2, <3>1 DEF OnceAt
    <3>3. Prior(e) \in Nat
      <4>1. Flag(Asking(e)) \in Nat
        BY DEF Flag
      <4> QED
        BY <1>1, <3>1, <4>1, CountsOf DEF Prior
    <3>4. Prior(e) = 0
      BY <1>1, <3>1, <3>2, <3>3, CountsOf DEF AtDialled, Flag
    <3> QED
      BY <1>1, <2>1, <2>2, <3>2, <3>4 DEF AtAccepted, Flag, Messages
  <2> QED
    BY <1>8, <2>1, <2>2
<1>20. Renewing'
  <2> SUFFICES ASSUME NEW x \in Ends PROVE RenewingAt(x)'
    BY DEF Renewing
  <2>1. RenewingAt(x)
    BY DEF IInv, Renewing
  <2>2. Proved(x)' = Proved(x) /\ Proved(Other[x])' = Proved(Other[x])
    BY <1>3 DEF Proved
  <2>3. m = "PowReq" => Proved(e)
    BY <1>4 DEF Proved
  <2>4. Other[Other[e]] = e
    BY <1>2, Network
  <2>5. x # Other[e] \/ m # "PowReq" => Occurs(inbox'[x], "PowReq") = Occurs(inbox[x], "PowReq")
    BY <1>1, <1>10 DEF Messages
  <2> QED
    BY <1>3, <1>9, <2>1, <2>2, <2>3, <2>4, <2>5 DEF RenewingAt
<1> QED
  BY <1>12, <1>14, <1>15, <1>16, <1>17, <1>18, <1>19, <1>20 DEF IInv

LEMMA CullInv ==
  ASSUME IInv, NEW p \in Peers, NEW stale \in SUBSET ValidEnds(p), Cull(p, stale)
  PROVE  IInv'
<1>1. /\ TypeOK /\ Idle(p)
      /\ class' = [e \in Ends |-> IF e \in stale THEN "gone" ELSE class[e]]
      /\ UNCHANGED <<sentPowReq, ctxDone, writing, cut, solvers, inbox>>
      /\ UNCHANGED <<todo, at, sending, renewals, pushes>>
  BY DEF Cull, IInv, connVars, loopVars
<1>2. \A x \in Ends : \/ class'[x] = class[x]
                      \/ class[x] = "valid" /\ class'[x] = "gone" /\ Idle(PeerOf[x])
  BY <1>1 DEF ValidEnds, EndsOf
<1>3. TypeOK'
  <2>1. class' \in [Ends -> Classes]
    BY <1>1 DEF TypeOK, Classes
  <2>2. faults' \in 0..MaxFaults
    BY <1>1, HandshakeAssumption DEF Cull, TypeOK
  <2> QED
    BY <1>1, <2>1, <2>2 DEF TypeOK
<1>4. Visiting' /\ \A q \in Peers : Visited(q)' = Visited(q)
  BY <1>1, <1>2, VisitingKept DEF IInv
<1>5. Closing'
  BY <1>1, <1>2, ClosingKept DEF IInv
<1>6. CutBoth'
  BY <1>1 DEF IInv, CutBoth
<1>7. Roles'
  BY <1>1, <1>2, Network DEF IInv, Roles
<1>8. Announced'
  BY <1>1, <1>2 DEF IInv, Announced, Flag
<1>9. Once'
  <2> SUFFICES ASSUME NEW d \in Dialled PROVE OnceAt(d)'
    BY DEF Once
  <2>1. d \in Ends /\ Other[d] \in Ends /\ PeerOf[d] \in Peers
    BY Network
  <2>2. OnceAt(d) /\ Asking(d)' = Asking(d)
    BY <1>1, <1>4, <2>1 DEF IInv, Once, Asking
  <2>3. AtAccepted(d)' <= 1 /\ AtDialled(d)' <= 1
    <3>1. /\ class'[d] = "valid" => class[d] = "valid"
          /\ class'[Other[d]] = "valid" => class[Other[d]] = "valid"
      BY <1>2, <2>1
    <3>2. /\ Occurs(inbox'[Other[d]], "ConnReq") <= Occurs(inbox[Other[d]], "ConnReq")
          /\ Occurs(inbox'[d], "ConnChall") <= Occurs(inbox[d], "ConnChall")
          /\ Occurs(inbox'[Other[d]], "ConnPoW") <= Occurs(inbox[Other[d]], "ConnPoW")
      BY <1>1, CountsOf
    <3>3. inbox' \in [Ends -> Seq(Messages)]
      BY <1>1 DEF TypeOK
    <3> QED
      BY <1>1, <2>2, <3>1, <3>2, <3>3, OnceLess
  <2>4. class'[d] # "gone" /\ class'[Other[d]] # "gone" =>
          /\ class'[d] = class[d] /\ class'[Other[d]] = class[Other[d]]
          /\ AtAccepted(d)' = AtAccepted(d)
    BY <1>1, <1>2, <2>1, <2>2 DEF AtAccepted, Prior
  <2> QED
    BY <1>1, <2>2, <2>3, <2>4 DEF OnceAt
<1>10. PushBehindProof'
  BY <1>1, <1>2, Network, PushBehindKept DEF IInv
<1>11. Renewing'
  BY <1>1, <1>2, Network DEF IInv, Renewing, RenewingAt, Proved
<1> QED
  BY <1>3, <1>4, <1>5, <1>6, <1>7, <1>8, <1>9, <1>10, <1>11 DEF IInv

-----------------------------------------------------------------------------
(* The goroutines that answer a challenge, and the horizontal API. *)

LEMMA ConnSolvedInv ==
  ASSUME IInv, NEW e \in Ends, ConnSolved(e)
  PROVE  IInv'
<1>1. /\ TypeOK /\ solvers[e]["connSolve"] > 0
      /\ {"connSolve", "connSend"} \subseteq Stages
      /\ UNCHANGED <<class, sentPowReq, ctxDone, writing, cut, inbox, faults>>
      /\ UNCHANGED <<todo, at, sending, renewals, pushes>>
  BY DEF ConnSolved, connVars, loopVars, IInv, Stages
<1>2. e \in Dialled
  BY <1>1, Network DEF IInv, Roles
<1> DEFINE sent == IF ctxDone[e] THEN 0 ELSE 1
<1>3. /\ solvers' \in [Ends -> [Stages -> Nat]]
      /\ \A x \in Ends, s \in Stages :
           solvers'[x][s] = solvers[x][s] - (IF x = e /\ s = "connSolve" THEN 1 ELSE 0)
                                          + (IF x = e /\ s = "connSend" THEN sent ELSE 0)
  <2>1. CASE ctxDone[e]
    <3>1. End(e, "connSolve")
      BY <2>1 DEF ConnSolved
    <3>2. /\ solvers' \in [Ends -> [Stages -> Nat]]
          /\ \A x \in Ends, s \in Stages :
               solvers'[x][s] = solvers[x][s] - (IF x = e /\ s = "connSolve" THEN 1 ELSE 0)
      BY <1>1, <3>1, EndEffect
    <3>3. \A x \in Ends, s \in Stages : solvers'[x][s] \in Nat
      BY <3>2
    <3> QED
      BY <2>1, <3>2, <3>3
  <2>2. CASE ~ctxDone[e]
    <3>1. Step(e, "connSolve", "connSend")
      BY <2>2 DEF ConnSolved
    <3> QED
      BY <1>1, <2>2, <3>1, StepEffect
  <2> QED
    BY <2>1, <2>2
<1>4. ctxDone[e] => class[e] = "gone"
  BY DEF IInv, Closing
<1>5. sent \in {0, 1} /\ (sent = 0 => class[e] = "gone")
  BY <1>4
<1> HIDE DEF sent
<1>6. /\ \A d \in Dialled :
           /\ solvers'[d]["connSolve"] = solvers[d]["connSolve"] - (IF d = e THEN 1 ELSE 0)
           /\ solvers'[d]["connSend"] = solvers[d]["connSend"] + (IF d = e THEN sent ELSE 0)
           /\ solvers'[d]["connAdmit"] = solvers[d]["connAdmit"]
      /\ \A x \in Ends : /\ solvers'[x]["powSolve"] = solvers[x]["powSolve"]
                         /\ solvers'[x]["powSend"] = solvers[x]["powSend"]
  BY <1>1, <1>3, <1>5, CountTypes, Network
<1>7. TypeOK'
  BY <1>1, <1>3 DEF TypeOK
<1>8. Visiting' /\ \A q \in Peers : Visited(q)' = Visited(q)
  BY <1>1, VisitingKept DEF IInv
<1>9. Closing' /\ CutBoth' /\ Announced' /\ PushBehindProof'
  BY <1>1 DEF IInv, Closing, CutBoth, Announced, PushBehindProof
<1>10. Roles'
  <2>1. \A a \in Accepted : a \in Ends /\ a # e
    BY <1>2, Network
  <2>2. \A a \in Accepted, s \in Stages : solvers'[a][s] = solvers[a][s]
    BY <1>1, <1>3, <2>1, CountTypes
  <2> QED
    BY <1>1, <2>2 DEF IInv, Roles, Stages
<1>11. Once'
  <2> SUFFICES ASSUME NEW d \in Dialled PROVE OnceAt(d)'
    BY DEF Once
  <2>1. d \in Ends /\ PeerOf[d] \in Peers
    BY Network
  <2>2. OnceAt(d) /\ Asking(d)' = Asking(d)
    BY <1>1, <1>8, <2>1 DEF IInv, Once, Asking
  <2>3. Flag(Asking(d)) \in Nat
    BY DEF Flag
  <2>4. Prior(d) \in Int /\ Prior(d)' = Prior(d) - (IF d = e THEN 1 - sent ELSE 0)
    <3>1. Prior(d)' = Flag(Asking(d)) + Occurs(inbox[Other[d]], "ConnReq") + Occurs(inbox[d], "ConnChall")
                        + solvers'[d]["connSolve"] + solvers'[d]["connSend"]
      BY <1>1, <2>2 DEF Prior
    <3> QED
      BY <1>1, <1>5, <1>6, <2>3, <3>1, CountsOf DEF Prior
  <2>5. Flag(class[d] = "valid") \in Int /\ Flag(class[Other[d]] = "valid") \in Int
    BY DEF Flag
  <2>6. /\ AtAccepted(d)' = AtAccepted(d) - (IF d = e THEN 1 - sent ELSE 0)
        /\ AtAccepted(d) \in Int
    BY <1>1, <1>5, <2>4, <2>5, CountsOf DEF AtAccepted
  <2>7. /\ AtDialled(d)' = AtDialled(d) - (IF d = e THEN 1 - sent ELSE 0)
        /\ AtDialled(d) \in Int
    BY <1>1, <1>5, <1>6, <2>4, <2>5, CountsOf DEF AtDialled
  <2> QED
    BY <1>1, <1>5, <2>2, <2>6, <2>7 DEF OnceAt
<1>12. Renewing'
  BY <1>1, <1>6 DEF IInv, Renewing, RenewingAt, Proved
<1> QED
  BY <1>7, <1>8, <1>9, <1>10, <1>11, <1>12 DEF IInv

LEMMA ConnProveInv ==
  ASSUME IInv, NEW e \in Ends, ConnProve(e)
  PROVE  IInv'
<1>1. /\ TypeOK /\ solvers[e]["connSend"] > 0
      /\ {"connSend", "connAdmit"} \subseteq Stages /\ "ConnPoW" \in Messages
      /\ Step(e, "connSend", "connAdmit")
      /\ inbox' = Written(inbox, e, "ConnPoW")
      /\ UNCHANGED <<class, sentPowReq, ctxDone, writing, cut, faults>>
      /\ UNCHANGED <<todo, at, sending, renewals, pushes>>
  BY DEF ConnProve, connVars, loopVars, IInv, Stages, Messages
<1>2. e \in Dialled
  BY <1>1, Network DEF IInv, Roles
<1>3. \A x \in Ends, k \in Messages : Occurs(inbox[x], k) \in Nat
  BY <1>1, CountTypes
<1>4. /\ solvers' \in [Ends -> [Stages -> Nat]]
      /\ \A x \in Ends, s \in Stages :
           solvers'[x][s] = solvers[x][s] - (IF x = e /\ s = "connSend" THEN 1 ELSE 0)
                                          + (IF x = e /\ s = "connAdmit" THEN 1 ELSE 0)
  BY <1>1, StepEffect
<1>5. /\ \A d \in Dialled :
           /\ solvers'[d]["connSolve"] = solvers[d]["connSolve"]
           /\ solvers'[d]["connSend"] = solvers[d]["connSend"] - (IF d = e THEN 1 ELSE 0)
           /\ solvers'[d]["connAdmit"] = solvers[d]["connAdmit"] + (IF d = e THEN 1 ELSE 0)
      /\ \A x \in Ends : /\ solvers'[x]["powSolve"] = solvers[x]["powSolve"]
                         /\ solvers'[x]["powSend"] = solvers[x]["powSend"]
  BY <1>1, <1>4, CountTypes, Network
<1>6. inbox' \in [Ends -> Seq(Messages)]
  BY <1>1, WriteEffect
<1>7. \A x \in Ends, k \in Messages :
        Occurs(inbox'[x], k) =
          Occurs(inbox[x], k) + (IF x = Other[e] /\ e \notin cut /\ k = "ConnPoW" THEN 1 ELSE 0)
  BY <1>1, WriteEffect
<1>8. /\ \A x \in Ends : inbox[x] # <<>> => inbox'[x] # <<>> /\ Head(inbox'[x]) = Head(inbox[x])
      /\ \A x \in Ends : Behind(inbox[x]) => Behind(inbox'[x])
  BY <1>1, WriteEffect
<1>9. \A x \in Ends, k \in Messages \ {"ConnPoW"} : Occurs(inbox'[x], k) = Occurs(inbox[x], k)
  BY <1>3, <1>7
<1>10. TypeOK'
  BY <1>1, <1>4, <1>6 DEF TypeOK
<1>11. Visiting' /\ \A q \in Peers : Visited(q)' = Visited(q)
  BY <1>1, VisitingKept DEF IInv
<1>12. Closing' /\ CutBoth'
  BY <1>1 DEF IInv, Closing, CutBoth
<1>13. Roles'
  <2>1. \A d \in Dialled : /\ Occurs(inbox'[d], "ConnReq") = Occurs(inbox[d], "ConnReq")
                           /\ Occurs(inbox'[d], "ConnPoW") = Occurs(inbox[d], "ConnPoW")
    <3>1. \A d \in Dialled : d \in Ends /\ d # Other[e]
      BY <1>2, Network
    <3> QED
      BY <1>3, <1>7, <3>1 DEF Messages
  <2>2. \A a \in Accepted : Occurs(inbox'[a], "ConnChall") = Occurs(inbox[a], "ConnChall")
    BY <1>9, Network DEF Messages
  <2>3. \A a \in Accepted : a \in Ends /\ a # e
    BY <1>2, Network
  <2>4. \A a \in Accepted, s \in Stages : solvers'[a][s] = solvers[a][s]
    BY <1>1, <1>4, <2>3, CountTypes
  <2> QED
    BY <1>1, <2>1, <2>2, <2>4 DEF IInv, Roles, Stages
<1>14. Announced'
  <2>1. \A x \in Ends : Occurs(inbox'[x], "NewConn") = Occurs(inbox[x], "NewConn")
    BY <1>9 DEF Messages
  <2> QED
    BY <1>1, <1>8, <2>1 DEF IInv, Announced
<1>15. Once'
  <2> SUFFICES ASSUME NEW d \in Dialled PROVE OnceAt(d)'
    BY DEF Once
  <2>1. /\ d \in Ends /\ Other[d] \in Ends /\ PeerOf[d] \in Peers
        /\ Other[d] = Other[e] <=> d = e
    BY Network
  <2>2. OnceAt(d) /\ Asking(d)' = Asking(d)
    BY <1>1, <1>11, <2>1 DEF IInv, Once, Asking
  <2>3. Flag(Asking(d)) \in Nat
    BY DEF Flag
  <2>4. /\ Occurs(inbox'[Other[d]], "ConnReq") = Occurs(inbox[Other[d]], "ConnReq")
        /\ Occurs(inbox'[d], "ConnChall") = Occurs(inbox[d], "ConnChall")
        /\ Occurs(inbox'[Other[d]], "ConnPoW") =
             Occurs(inbox[Other[d]], "ConnPoW") + (IF d = e /\ e \notin cut THEN 1 ELSE 0)
    BY <1>1, <1>7, <1>9, <2>1 DEF Messages
  <2>5. Prior(d) \in Int /\ Prior(d)' = Prior(d) - (IF d = e THEN 1 ELSE 0)
    <3>1. Prior(d)' = Flag(Asking(d)) + Occurs(inbox[Other[d]], "ConnReq") + Occurs(inbox[d], "ConnChall")
                        + solvers[d]["connSolve"] + solvers'[d]["connSend"]
      BY <1>5, <2>2, <2>4 DEF Prior
    <3> QED
      BY <1>1, <1>5, <2>3, <3>1, CountsOf DEF Prior
  <2>6. Flag(class[d] = "valid") \in Int /\ Flag(class[Other[d]] = "valid") \in Int
    BY DEF Flag
  <2>7. /\ AtAccepted(d)' = AtAccepted(d) - (IF d = e /\ e \in cut THEN 1 ELSE 0)
        /\ AtAccepted(d) \in Int
    BY <1>1, <2>4, <2>5, <2>6, CountsOf DEF AtAccepted
  <2>8. AtDialled(d)' = AtDialled(d)
    BY <1>1, <1>5, <2>5, <2>6, CountsOf DEF AtDialled
  <2> QED
    BY <1>1, <2>2, <2>7, <2>8 DEF OnceAt
<1>16. PushBehindProof'
  BY <1>1, <1>8, Network, PushBehindKept DEF IInv
<1>17. Renewing'
  <2>1. \A x \in Ends : /\ Occurs(inbox'[x], "PowReq") = Occurs(inbox[x], "PowReq")
                        /\ Occurs(inbox'[x], "PowChall") = Occurs(inbox[x], "PowChall")
                        /\ Occurs(inbox'[x], "PowPoW") = Occurs(inbox[x], "PowPoW")
    BY <1>9 DEF Messages
  <2> QED
    BY <1>1, <1>5, <2>1 DEF IInv, Renewing, RenewingAt, Proved
<1> QED
  BY <1>10, <1>11, <1>12, <1>13, <1>14, <1>15, <1>16, <1>17 DEF IInv

LEMMA ConnAdmitInv ==
  ASSUME IInv, NEW e \in Ends, ConnAdmit(e)
  PROVE  IInv'
<1>1. /\ TypeOK /\ solvers[e]["connAdmit"] > 0 /\ "connAdmit" \in Stages
      /\ Idle(PeerOf[e])
      /\ End(e, "connAdmit")
      /\ class' = [class EXCEPT ![e] = Admitted(@)]
      /\ UNCHANGED <<sentPowReq, ctxDone, writing, cut, inbox, faults>>
      /\ UNCHANGED <<todo, at, sending, renewals, pushes>>
  BY DEF ConnAdmit, connVars, loopVars, IInv, Stages
<1>2. e \in Dialled
  BY <1>1, Network DEF IInv, Roles
<1>3. /\ solvers' \in [Ends -> [Stages -> Nat]]
      /\ \A x \in Ends, s \in Stages :
           solvers'[x][s] = solvers[x][s] - (IF x = e /\ s = "connAdmit" THEN 1 ELSE 0)
  BY <1>1, EndEffect
<1>4. /\ \A d \in Dialled :
           /\ solvers'[d]["connSolve"] = solvers[d]["connSolve"]
           /\ solvers'[d]["connSend"] = solvers[d]["connSend"]
           /\ solvers'[d]["connAdmit"] = solvers[d]["connAdmit"] - (IF d = e THEN 1 ELSE 0)
      /\ \A x \in Ends : /\ solvers'[x]["powSolve"] = solvers[x]["powSolve"]
                         /\ solvers'[x]["powSend"] = solvers[x]["powSend"]
  BY <1>1, <1>3, CountTypes, Network
<1>5. /\ class' \in [Ends -> Classes]
      /\ \A x \in Ends : class'[x] = IF x = e /\ class[e] # "gone" THEN "valid" ELSE class[x]
  BY <1>1, <1>2 DEF Admitted, TypeOK, Classes, IInv, Roles
<1>6. TypeOK'
  BY <1>1, <1>3, <1>5 DEF TypeOK
<1>7. Visiting' /\ \A q \in Peers : Visited(q)' = Visited(q)
  BY <1>1, <1>5, VisitingKept DEF IInv
<1>8. Closing'
  BY <1>1, <1>5, ClosingKept DEF IInv
<1>9. CutBoth'
  BY <1>1 DEF IInv, CutBoth
<1>10. Roles'
  <2>1. \A a \in Accepted : a \in Ends /\ a # e
    BY <1>2, Network
  <2>2. \A a \in Accepted, s \in Stages : solvers'[a][s] = solvers[a][s]
    BY <1>1, <1>3, <2>1, CountTypes
  <2> QED
    BY <1>1, <1>5, <2>1, <2>2, Network DEF IInv, Roles, Stages
<1>11. Announced'
  <2>1. \A x \in Ends : class'[x] = "new" <=> class[x] = "new"
    BY <1>2, <1>5 DEF IInv, Roles
  <2> QED
    BY <1>1, <2>1 DEF IInv, Announced, Flag
<1>12. Once'
  <2> SUFFICES ASSUME NEW d \in Dialled PROVE OnceAt(d)'
    BY DEF Once
  <2>1. d \in Ends /\ Other[d] \in Ends /\ PeerOf[d] \in Peers /\ Other[d] # e
    BY <1>2, Network
  <2>2. OnceAt(d) /\ Asking(d)' = Asking(d)
    BY <1>1, <1>7, <2>1 DEF IInv, Once, Asking
  <2>3. Prior(d)' = Prior(d)
    BY <1>1, <1>4, <2>2 DEF Prior
  <2>4. Prior(d) \in Nat
    <3>1. Flag(Asking(d)) \in Nat
      BY DEF Flag
    <3> QED
      BY <1>1, <3>1, CountsOf DEF Prior
  <2>5. class'[Other[d]] = class[Other[d]] /\ AtAccepted(d)' = AtAccepted(d)
    BY <1>1, <1>5, <2>1, <2>3 DEF AtAccepted
  <2>6. AtDialled(d)' <= 1
    <3>1. AtDialled(d) <= 1
      BY <2>2 DEF OnceAt
    <3>2. CASE d = e
      BY <1>1, <1>4, <1>5, <2>3, <2>4, <3>1, <3>2, CountsOf DEF AtDialled, Flag
    <3>3. CASE d # e
      BY <1>1, <1>4, <1>5, <2>1, <2>3, <3>1, <3>3, CountsOf DEF AtDialled
    <3> QED
      BY <3>2, <3>3
  <2>7. class'[d] # "gone" => class[d] # "gone"
    BY <1>5, <2>1
  <2> QED
    BY <1>1, <2>2, <2>5, <2>6, <2>7 DEF OnceAt
<1>13. PushBehindProof'
  BY <1>1, <1>5, Network, PushBehindKept DEF IInv
<1>14. Renewing'
  <2>1. \A x \in Ends : Proved(x) => Proved(x)'
    BY <1>5 DEF Proved
  <2>2. \A x \in Ends, k \in {"PowReq", "PowChall", "PowPoW"} :
          Occurs(inbox'[x], k) <= Occurs(inbox[x], k)
    BY <1>1, CountTypes
  <2>3. \A x \in Ends, s \in {"powSolve", "powSend"} : solvers'[x][s] <= solvers[x][s]
    BY <1>1, <1>4, CountTypes
  <2> QED
    BY <1>1, <1>6, <2>1, <2>2, <2>3, RenewingKept DEF IInv
<1> QED
  BY <1>6, <1>7, <1>8, <1>9, <1>10, <1>11, <1>12, <1>13, <1>14 DEF IInv

\* A step of a renewal leaves the admission of every connection where it is.
LEMMA AdmissionKept ==
  ASSUME IInv, TypeOK', Renewing', UNCHANGED <<class, ctxDone, cut, todo, at, sending>>,
         \A x \in Ends : /\ Occurs(inbox'[x], "NewConn") = Occurs(inbox[x], "NewConn")
                         /\ Occurs(inbox'[x], "ConnReq") = Occurs(inbox[x], "ConnReq")
                         /\ Occurs(inbox'[x], "ConnChall") = Occurs(inbox[x], "ConnChall")
                         /\ Occurs(inbox'[x], "ConnPoW") = Occurs(inbox[x], "ConnPoW"),
         \A x \in Ends : inbox[x] # <<>> => inbox'[x] # <<>> /\ Head(inbox'[x]) = Head(inbox[x]),
         \A x \in Ends : Behind(inbox[x]) => Behind(inbox'[x]),
         \A x \in Ends : /\ solvers'[x]["connSolve"] = solvers[x]["connSolve"]
                         /\ solvers'[x]["connSend"] = solvers[x]["connSend"]
                         /\ solvers'[x]["connAdmit"] = solvers[x]["connAdmit"]
  PROVE  IInv'
<1>1. Visiting' /\ \A q \in Peers : Visited(q)' = Visited(q)
  BY VisitingKept DEF IInv
<1>2. Closing' /\ CutBoth'
  BY DEF IInv, Closing, CutBoth
<1>3. Roles'
  BY Network DEF IInv, Roles
<1>4. Announced'
  BY DEF IInv, Announced
<1>5. Once'
  <2> SUFFICES ASSUME NEW d \in Dialled PROVE OnceAt(d)'
    BY DEF Once
  <2>1. d \in Ends /\ Other[d] \in Ends /\ PeerOf[d] \in Peers
    BY Network
  <2>2. OnceAt(d) /\ Asking(d)' = Asking(d)
    BY <1>1, <2>1 DEF IInv, Once, Asking
  <2> QED
    BY <2>1, <2>2 DEF OnceAt, AtAccepted, AtDialled, Prior
<1>6. PushBehindProof'
  BY Network, PushBehindKept DEF IInv
<1> QED
  BY <1>1, <1>2, <1>3, <1>4, <1>5, <1>6 DEF IInv

LEMMA PowSolvedInv ==
  ASSUME IInv, NEW e \in Ends, PowSolved(e)
  PROVE  IInv'
<1>1. /\ TypeOK /\ solvers[e]["powSolve"] > 0
      /\ {"powSolve", "powSend"} \subseteq Stages
      /\ UNCHANGED <<class, ctxDone, writing, cut, inbox, faults>>
      /\ UNCHANGED <<todo, at, sending, renewals, pushes>>
  BY DEF PowSolved, loopVars, IInv, Stages
<1> DEFINE sent == IF ctxDone[e] THEN 0 ELSE 1
<1>2. /\ solvers' \in [Ends -> [Stages -> Nat]]
      /\ \A x \in Ends, s \in Stages :
           solvers'[x][s] = solvers[x][s] - (IF x = e /\ s = "powSolve" THEN 1 ELSE 0)
                                          + (IF x = e /\ s = "powSend" THEN sent ELSE 0)
  <2>1. CASE ctxDone[e]
    <3>1. End(e, "powSolve")
      BY <2>1 DEF PowSolved
    <3>2. /\ solvers' \in [Ends -> [Stages -> Nat]]
          /\ \A x \in Ends, s \in Stages :
               solvers'[x][s] = solvers[x][s] - (IF x = e /\ s = "powSolve" THEN 1 ELSE 0)
      BY <1>1, <3>1, EndEffect
    <3>3. \A x \in Ends, s \in Stages : solvers'[x][s] \in Nat
      BY <3>2
    <3> QED
      BY <2>1, <3>2, <3>3
  <2>2. CASE ~ctxDone[e]
    <3>1. Step(e, "powSolve", "powSend")
      BY <2>2 DEF PowSolved
    <3> QED
      BY <1>1, <2>2, <3>1, StepEffect
  <2> QED
    BY <2>1, <2>2
<1>3. sent \in {0, 1}
  OBVIOUS
<1> HIDE DEF sent
<1>4. /\ \A x \in Ends : /\ solvers'[x]["connSolve"] = solvers[x]["connSolve"]
                         /\ solvers'[x]["connSend"] = solvers[x]["connSend"]
                         /\ solvers'[x]["connAdmit"] = solvers[x]["connAdmit"]
      /\ \A x \in Ends : x # e => /\ solvers'[x]["powSolve"] = solvers[x]["powSolve"]
                                  /\ solvers'[x]["powSend"] = solvers[x]["powSend"]
  BY <1>1, <1>2, <1>3, CountTypes
<1>5. TypeOK'
  <2>1. sentPowReq' \in [Ends -> BOOLEAN]
    BY <1>1 DEF PowSolved, TypeOK
  <2> QED
    BY <1>1, <1>2, <2>1 DEF TypeOK
<1>6. Renewing'
  <2> SUFFICES ASSUME NEW x \in Ends PROVE RenewingAt(x)'
    BY DEF Renewing
  <2>1. RenewingAt(x) /\ RenewingAt(e)
    BY DEF IInv, Renewing
  <2>2. Proved(Other[e])
    BY <1>1, <2>1 DEF RenewingAt
  <2> QED
    BY <1>1, <1>4, <2>1, <2>2 DEF RenewingAt, Proved
<1> QED
  BY <1>1, <1>4, <1>5, <1>6, AdmissionKept

LEMMA PowProveInv ==
  ASSUME IInv, NEW e \in Ends, PowProve(e)
  PROVE  IInv'
<1>1. /\ TypeOK /\ solvers[e]["powSend"] > 0
      /\ "powSend" \in Stages /\ "PowPoW" \in Messages
      /\ End(e, "powSend")
      /\ inbox' = Written(inbox, e, "PowPoW")
      /\ UNCHANGED <<class, sentPowReq, ctxDone, writing, cut, faults>>
      /\ UNCHANGED <<todo, at, sending, renewals, pushes>>
  BY DEF PowProve, connVars, loopVars, IInv, Stages, Messages
<1>2. \A x \in Ends, k \in Messages : Occurs(inbox[x], k) \in Nat
  BY <1>1, CountTypes
<1>3. /\ solvers' \in [Ends -> [Stages -> Nat]]
      /\ \A x \in Ends, s \in Stages :
           solvers'[x][s] = solvers[x][s] - (IF x = e /\ s = "powSend" THEN 1 ELSE 0)
  BY <1>1, EndEffect
<1>4. /\ \A x \in Ends : /\ solvers'[x]["connSolve"] = solvers[x]["connSolve"]
                         /\ solvers'[x]["connSend"] = solvers[x]["connSend"]
                         /\ solvers'[x]["connAdmit"] = solvers[x]["connAdmit"]
      /\ \A x \in Ends : /\ solvers'[x]["powSolve"] = solvers[x]["powSolve"]
                         /\ solvers'[x]["powSend"] <= solvers[x]["powSend"]
                         /\ solvers'[x]["powSend"] \in Nat /\ solvers[x]["powSend"] \in Nat
  BY <1>1, <1>3, CountTypes
<1>5. inbox' \in [Ends -> Seq(Messages)]
  BY <1>1, WriteEffect
<1>6. \A x \in Ends, k \in Messages :
        Occurs(inbox'[x], k) =
          Occurs(inbox[x], k) + (IF x = Other[e] /\ e \notin cut /\ k = "PowPoW" THEN 1 ELSE 0)
  BY <1>1, WriteEffect
<1>7. /\ \A x \in Ends : inbox[x] # <<>> => inbox'[x] # <<>> /\ Head(inbox'[x]) = Head(inbox[x])
      /\ \A x \in Ends : Behind(inbox[x]) => Behind(inbox'[x])
  BY <1>1, WriteEffect
<1>8. \A x \in Ends, k \in Messages \ {"PowPoW"} : Occurs(inbox'[x], k) = Occurs(inbox[x], k)
  BY <1>2, <1>6
<1>9. \A x \in Ends : x # Other[e] => Occurs(inbox'[x], "PowPoW") = Occurs(inbox[x], "PowPoW")
  BY <1>1, <1>2, <1>6
<1>10. TypeOK'
  BY <1>1, <1>3, <1>5 DEF TypeOK
<1>11. Renewing'
  <2> SUFFICES ASSUME NEW x \in Ends PROVE RenewingAt(x)'
    BY DEF Renewing
  <2>1. RenewingAt(x) /\ RenewingAt(e)
    BY DEF IInv, Renewing
  <2>2. Proved(Other[e])
    BY <1>1, <2>1 DEF RenewingAt
  <2>3. /\ Occurs(inbox'[x], "PowReq") = Occurs(inbox[x], "PowReq")
        /\ Occurs(inbox'[x], "PowChall") = Occurs(inbox[x], "PowChall")
    BY <1>8 DEF Messages
  <2> QED
    BY <1>1, <1>4, <1>9, <2>1, <2>2, <2>3 DEF RenewingAt, Proved
<1>12. \A x \in Ends : /\ Occurs(inbox'[x], "NewConn") = Occurs(inbox[x], "NewConn")
                       /\ Occurs(inbox'[x], "ConnReq") = Occurs(inbox[x], "ConnReq")
                       /\ Occurs(inbox'[x], "ConnChall") = Occurs(inbox[x], "ConnChall")
                       /\ Occurs(inbox'[x], "ConnPoW") = Occurs(inbox[x], "ConnPoW")
  BY <1>8 DEF Messages
<1> QED
  BY <1>1, <1>4, <1>7, <1>10, <1>11, <1>12, AdmissionKept

LEMMA WriterEndsInv ==
  ASSUME IInv, NEW e \in Ends, WriterEnds(e)
  PROVE  IInv'
<1>1. /\ TypeOK /\ writing' = [writing EXCEPT ![e] = FALSE]
      /\ UNCHANGED <<class, sentPowReq, ctxDone, cut, solvers, inbox, faults>>
      /\ UNCHANGED <<todo, at, sending, renewals, pushes>>
  BY DEF WriterEnds, loopVars, IInv
<1>2. TypeOK'
  BY <1>1 DEF TypeOK
<1>3. Visiting' /\ \A q \in Peers : Visited(q)' = Visited(q)
  BY <1>1, VisitingKept DEF IInv
<1>4. \A d \in Dialled : Asking(d)' = Asking(d)
  BY <1>1, <1>3, Network DEF Asking
<1> QED
  BY <1>1, <1>2, <1>3, <1>4, FrameKept

LEMMA LoseInv ==
  ASSUME IInv, NEW c \in Dialled, Lose(c)
  PROVE  IInv'
<1> DEFINE y == Other[c]
<1>1. PICK left \in Leftovers(inbox[c]), right \in Leftovers(inbox[y]) :
        inbox' = [inbox EXCEPT ![c] = left, ![y] = right]
  BY DEF Lose
<1>2. /\ TypeOK /\ c \in Ends /\ y \in Ends /\ c # y /\ Other[y] = c
      /\ inbox \in [Ends -> Seq(Messages)]
      /\ inbox[c] \in Seq(Messages) /\ inbox[y] \in Seq(Messages)
  BY Network DEF IInv, TypeOK
<1>3. /\ cut' = cut \cup {c, y}
      /\ faults < MaxFaults /\ faults' = faults + 1
      /\ UNCHANGED <<class, sentPowReq, ctxDone, writing, solvers>>
      /\ UNCHANGED <<todo, at, sending, renewals, pushes>>
  BY DEF Lose, loopVars
<1> HIDE DEF y
<1>4. /\ inbox'[c] = left /\ inbox'[y] = right
      /\ \A x \in Ends : x # c /\ x # y => inbox'[x] = inbox[x]
  BY <1>1, <1>2
<1>5. \A x \in Ends : inbox'[x] = inbox[x] \/ inbox'[x] \in Leftovers(inbox[x])
  BY <1>4
<1>6. \A x \in Ends, k \in Messages : Occurs(inbox[x], k) \in Nat
  BY <1>2, CountTypes
<1>7. inbox' \in [Ends -> Seq(Messages)]
  <2>1. left \in Seq(Messages) /\ right \in Seq(Messages)
    BY <1>2, LeftoversProperties
  <2> QED
    BY <1>1, <1>2, <2>1
<1>8. \A x \in Ends, k \in Messages \ {"Unregister"} : Occurs(inbox'[x], k) <= Occurs(inbox[x], k)
  <2> TAKE x \in Ends, k \in Messages \ {"Unregister"}
  <2>1. inbox[x] \in Seq(Messages)
    BY <1>2
  <2>2. CASE inbox'[x] = inbox[x]
    BY <1>6, <2>2
  <2>3. CASE inbox'[x] \in Leftovers(inbox[x])
    BY <2>1, <2>3, LeftoversProperties
  <2> QED
    BY <1>5, <2>2, <2>3
<1>9. \A x \in Ends : /\ Occurs(inbox'[x], "NewConn") = Occurs(inbox[x], "NewConn")
                      /\ inbox[x] # <<>> /\ Head(inbox[x]) = "NewConn" =>
                           inbox'[x] # <<>> /\ Head(inbox'[x]) = "NewConn"
                      /\ Behind(inbox[x]) => Behind(inbox'[x])
  <2> TAKE x \in Ends
  <2>1. inbox[x] \in Seq(Messages)
    BY <1>2
  <2> QED
    BY <1>5, <2>1, LeftoversProperties
<1>10. TypeOK'
  <2>1. cut' \subseteq Ends
    BY <1>2, <1>3 DEF TypeOK
  <2>2. faults' \in 0..MaxFaults
    BY <1>2, <1>3, HandshakeAssumption DEF TypeOK
  <2> QED
    BY <1>2, <1>3, <1>7, <2>1, <2>2 DEF TypeOK
<1>11. Visiting' /\ \A q \in Peers : Visited(q)' = Visited(q)
  BY <1>2, <1>3, VisitingKept DEF IInv
<1>12. Closing'
  BY <1>3 DEF IInv, Closing
<1>13. CutBoth'
  BY <1>2, <1>3 DEF IInv, CutBoth, y
<1>14. Roles'
  <2>1. \A d \in Dialled : Occurs(inbox'[d], "ConnReq") = 0 /\ Occurs(inbox'[d], "ConnPoW") = 0
    <3> TAKE d \in Dialled
    <3>1. d \in Ends /\ Occurs(inbox[d], "ConnReq") = 0 /\ Occurs(inbox[d], "ConnPoW") = 0
      BY Network DEF IInv, Roles
    <3>2. Occurs(inbox'[d], "ConnReq") \in Nat /\ Occurs(inbox'[d], "ConnPoW") \in Nat
      BY <1>7, <3>1, OccursType
    <3> QED
      BY <1>8, <3>1, <3>2 DEF Messages
  <2>2. \A a \in Accepted : Occurs(inbox'[a], "ConnChall") = 0
    <3> TAKE a \in Accepted
    <3>1. a \in Ends /\ Occurs(inbox[a], "ConnChall") = 0
      BY Network DEF IInv, Roles
    <3>2. Occurs(inbox'[a], "ConnChall") \in Nat
      BY <1>7, <3>1, OccursType
    <3> QED
      BY <1>8, <3>1, <3>2 DEF Messages
  <2> QED
    BY <1>3, <2>1, <2>2 DEF IInv, Roles
<1>15. Announced'
  BY <1>3, <1>9 DEF IInv, Announced
<1>16. Once'
  <2> SUFFICES ASSUME NEW d \in Dialled PROVE OnceAt(d)'
    BY DEF Once
  <2>1. /\ d \in Ends /\ Other[d] \in Ends /\ PeerOf[d] \in Peers
        /\ d # y /\ (Other[d] = y <=> d = c) /\ Other[d] # c
    BY Network DEF y
  <2>2. OnceAt(d) /\ Asking(d)' = Asking(d)
    BY <1>3, <1>11, <2>1 DEF IInv, Once, Asking
  <2>3. AtAccepted(d)' <= 1 /\ AtDialled(d)' <= 1
    <3>1. /\ Occurs(inbox'[Other[d]], "ConnReq") <= Occurs(inbox[Other[d]], "ConnReq")
          /\ Occurs(inbox'[d], "ConnChall") <= Occurs(inbox[d], "ConnChall")
          /\ Occurs(inbox'[Other[d]], "ConnPoW") <= Occurs(inbox[Other[d]], "ConnPoW")
      BY <1>8, <2>1 DEF Messages
    <3> QED
      BY <1>2, <1>3, <1>7, <2>2, <3>1, OnceLess
  <2>4. CASE d = c
    BY <1>3, <2>3, <2>4 DEF OnceAt
  <2>5. CASE d # c
    <3>1. inbox'[d] = inbox[d] /\ inbox'[Other[d]] = inbox[Other[d]]
      BY <1>4, <2>1, <2>5
    <3>2. AtAccepted(d)' = AtAccepted(d) /\ (d \notin cut' => d \notin cut)
      BY <1>3, <2>2, <3>1 DEF AtAccepted, Prior
    <3> QED
      BY <1>3, <2>2, <2>3, <3>2 DEF OnceAt
  <2> QED
    BY <2>4, <2>5
<1>17. PushBehindProof'
  BY <1>3, <1>9, Network, PushBehindKept DEF IInv
<1>18. Renewing'
  <2>1. \A x \in Ends, k \in {"PowReq", "PowChall", "PowPoW"} :
          Occurs(inbox'[x], k) <= Occurs(inbox[x], k)
    BY <1>8 DEF Messages
  <2>2. \A x \in Ends, s \in {"powSolve", "powSend"} : solvers'[x][s] <= solvers[x][s]
    <3>1. TypeOK /\ solvers' = solvers
      BY <1>2, <1>3
    <3> QED
      BY <3>1, CountTypes
  <2>3. \A x \in Ends : Proved(x)' = Proved(x)
    BY <1>3 DEF Proved
  <2> QED
    BY <1>2, <1>10, <2>1, <2>2, <2>3, RenewingKept DEF IInv
<1> QED
  BY <1>10, <1>11, <1>12, <1>13, <1>14, <1>15, <1>16, <1>17, <1>18 DEF IInv

-----------------------------------------------------------------------------
(* The invariant holds throughout. *)

LEMMA InitIInv == Init => IInv
<1> SUFFICES ASSUME Init PROVE IInv
  OBVIOUS
<1>1. \A x \in Ends :
        /\ x \in Dialled => class[x] = "toBeProved" /\ inbox[x] = <<>>
        /\ x \in Accepted => class[x] = "new" /\ inbox[x] = <<"NewConn">>
        /\ ~ctxDone[x]
        /\ \A s \in Stages : solvers[x][s] = 0
  BY Network DEF Init
<1>2. \A p \in Peers : at[p] = NoEnd /\ sending[p] = "ConnReq" /\ todo[p] = EndsOf(p) \cap Dialled
  BY DEF Init
<1>3. cut = {} /\ NoEnd \notin Ends
  BY HandshakeAssumption DEF Init
<1>4. \A x \in Ends, m \in Messages :
        Occurs(inbox[x], m) = IF x \in Accepted /\ m = "NewConn" THEN 1 ELSE 0
  <2> TAKE x \in Ends, m \in Messages
  <2>1. CASE x \in Dialled
    BY <1>1, <2>1, OccursEmpty, Network
  <2>2. CASE x \in Accepted
    <3>1. inbox[x] = <<"NewConn">>
      BY <1>1, <2>2
    <3>2. Occurs(<<"NewConn">>, m) = Flag(m = "NewConn")
      BY OccursOne DEF Messages
    <3> QED
      BY <2>2, <3>1, <3>2 DEF Flag
  <2> QED
    BY <2>1, <2>2, Network
<1>5. TypeOK
  <2>1. inbox \in [Ends -> Seq(Messages)]
    <3>1. <<"NewConn">> \in Seq(Messages) /\ <<>> \in Seq(Messages)
      BY DEF Messages
    <3> QED
      BY <3>1 DEF Init
  <2>2. class \in [Ends -> Classes]
    BY DEF Init, Classes
  <2>3. todo \in [Peers -> SUBSET Ends]
    BY DEF Init, EndsOf
  <2>4. /\ renewals \in [Peers -> 0..MaxRenewals] /\ pushes \in [Peers -> 0..MaxPushes]
        /\ faults \in 0..MaxFaults
    BY HandshakeAssumption DEF Init
  <2> QED
    BY <2>1, <2>2, <2>3, <2>4 DEF Init, TypeOK
<1>6. \A p \in Peers : Visited(p) = EndsOf(p) \cap Dialled
  BY <1>2, <1>3 DEF Visited, EndsOf
<1>7. Visiting
  BY <1>1, <1>2, <1>3, <1>6, Network DEF Visiting, EndsOf
<1>8. Closing /\ CutBoth
  BY <1>1, <1>3 DEF Closing, CutBoth
<1>9. Roles
  BY <1>1, <1>4, Network DEF Roles, Messages, Stages
<1>10. Announced
  <2> SUFFICES ASSUME NEW e \in Ends
               PROVE  /\ Occurs(inbox[e], "NewConn") = Flag(class[e] = "new")
                      /\ class[e] = "new" => inbox[e] # <<>> /\ Head(inbox[e]) = "NewConn"
    BY DEF Announced
  <2>1. "NewConn" \in Messages
    BY DEF Messages
  <2>2. CASE e \in Dialled
    BY <1>1, <1>4, <2>1, <2>2, Network DEF Flag
  <2>3. CASE e \in Accepted
    BY <1>1, <1>4, <2>1, <2>3 DEF Flag
  <2> QED
    BY <2>2, <2>3, Network
<1>11. Once
  <2> SUFFICES ASSUME NEW d \in Dialled PROVE OnceAt(d)
    BY DEF Once
  <2>1. d \in Ends /\ Other[d] \in Accepted /\ Other[d] \in Ends /\ PeerOf[d] \in Peers
    BY Network
  <2>2. Flag(Asking(d)) = 1
    BY <1>2, <1>6, <2>1 DEF Asking, EndsOf, Flag
  <2>3. /\ Occurs(inbox[Other[d]], "ConnReq") = 0 /\ Occurs(inbox[d], "ConnChall") = 0
        /\ Occurs(inbox[Other[d]], "ConnPoW") = 0
    BY <1>4, <2>1 DEF Messages
  <2>4. /\ solvers[d]["connSolve"] = 0 /\ solvers[d]["connSend"] = 0
        /\ solvers[d]["connAdmit"] = 0
    BY <1>1, <2>1 DEF Stages
  <2>5. Flag(class[d] = "valid") = 0 /\ Flag(class[Other[d]] = "valid") = 0
    BY <1>1, <2>1 DEF Flag
  <2>6. Prior(d) = 1
    BY <2>2, <2>3, <2>4 DEF Prior
  <2> QED
    BY <2>3, <2>4, <2>5, <2>6 DEF OnceAt, AtAccepted, AtDialled
<1>12. PushBehindProof
  <2> SUFFICES ASSUME NEW a \in Accepted PROVE Behind(inbox[a])
    BY DEF PushBehindProof
  <2>1. inbox[a] = <<"NewConn">>
    BY <1>1, Network
  <2> QED
    BY <2>1 DEF Behind
<1>13. Renewing
  <2> SUFFICES ASSUME NEW e \in Ends PROVE RenewingAt(e)
    BY DEF Renewing
  <2>1. /\ Occurs(inbox[e], "PowReq") = 0 /\ Occurs(inbox[e], "PowChall") = 0
        /\ Occurs(inbox[e], "PowPoW") = 0
    BY <1>4 DEF Messages
  <2>2. solvers[e]["powSolve"] = 0 /\ solvers[e]["powSend"] = 0
    BY <1>1 DEF Stages
  <2> QED
    BY <2>1, <2>2 DEF RenewingAt
<1> QED
  BY <1>5, <1>7, <1>8, <1>9, <1>10, <1>11, <1>12, <1>13 DEF IInv

LEMMA NextIInv == IInv /\ [Next]_vars => IInv'
<1> SUFFICES ASSUME IInv, [Next]_vars PROVE IInv'
  OBVIOUS
<1>1. ASSUME NEW p \in Peers, Loop(p) PROVE IInv'
  <2>1. CASE VisitSend(p)
    BY <2>1, VisitSendInv
  <2>2. CASE \E e \in EndsOf(p) : Handle(e) \/ Visit(p, e)
    <3>1. PICK e \in EndsOf(p) : Handle(e) \/ Visit(p, e)
      BY <2>2
    <3>2. e \in Ends /\ PeerOf[e] = p
      BY DEF EndsOf
    <3> QED
      BY <3>1, <3>2, HandleInv, VisitInv
  <2> QED
    BY <1>1, <2>1, <2>2 DEF Loop
<1>2. ASSUME NEW p \in Peers, Renew(p) PROVE IInv'
  BY <1>2, RenewInv
<1>3. ASSUME NEW p \in Peers, Gossip(p) PROVE IInv'
  BY <1>3, GossipInv
<1>4. ASSUME NEW p \in Peers, \E stale \in SUBSET ValidEnds(p) \ {{}} : Cull(p, stale) PROVE IInv'
  BY <1>4, CullInv
<1>5. ASSUME NEW e \in Ends, Solve(e) PROVE IInv'
  BY <1>5, ConnSolvedInv, ConnProveInv, ConnAdmitInv, PowSolvedInv, PowProveInv DEF Solve
<1>6. ASSUME NEW e \in Ends, WriterEnds(e) PROVE IInv'
  BY <1>6, WriterEndsInv
<1>7. ASSUME NEW d \in Dialled, Lose(d) PROVE IInv'
  BY <1>7, LoseInv
<1>8. CASE UNCHANGED vars
  <2>1. TypeOK'
    BY <1>8 DEF vars, IInv, TypeOK
  <2>2. Visiting' /\ \A q \in Peers : Visited(q)' = Visited(q)
    BY <1>8, VisitingKept DEF vars, IInv
  <2>3. \A d \in Dialled : Asking(d)' = Asking(d)
    BY <1>8, <2>2, Network DEF vars, Asking
  <2> QED
    BY <1>8, <2>1, <2>2, <2>3, FrameKept DEF vars
<1> QED
  BY <1>1, <1>2, <1>3, <1>4, <1>5, <1>6, <1>7, <1>8 DEF Next

\* Every reachable state satisfies IInv: each part holds at the start, and every
\* handler, visit, ticker, goroutine and fault of Handshake keeps the conjunction.
THEOREM InvariantHolds == Spec => []IInv
<1>1. Init => IInv
  BY InitIInv
<1>2. IInv /\ [Next]_vars => IInv'
  BY NextIInv
<1> QED
  BY <1>1, <1>2, PTL DEF Spec

-----------------------------------------------------------------------------
(* What follows from it. *)

\* The variables have their types in every reachable state; in particular no counter
\* of goroutines falls below zero and no message is of an unknown kind.
THEOREM TypeCorrect == Spec => []TypeOK
BY InvariantHolds, PTL DEF IInv

\* The loop of a peer never waits for a writer that was told to end: Cfunc is called
\* only for a connection that is in no map, and none of the loop's visits is at one.
THEOREM NeverStuck == Spec => []LoopNeverStuck
<1>1. IInv => LoopNeverStuck
  <2> SUFFICES ASSUME IInv PROVE LoopNeverStuck
    OBVIOUS
  <2>1. \A e \in Ends : Managed(e) => ~ctxDone[e]
    BY DEF IInv, Closing, Managed
  <2>2. ASSUME NEW p \in Peers, at[p] # NoEnd
        PROVE  ~ctxDone[at[p]]
    <3>1. at[p] \in Ends /\ at[p] \in Visited(p)
      BY <2>2 DEF IInv, TypeOK, Visited
    <3>2. class[at[p]] \in {"toBeProved", "valid"}
      BY <3>1 DEF IInv, Visiting
    <3> QED
      BY <3>1, <3>2 DEF IInv, Closing
  <2> QED
    BY <2>1, <2>2 DEF LoopNeverStuck
<1> QED
  BY <1>1, InvariantHolds, PTL

LEMMA CountOfOne ==
  ASSUME NEW e, NEW m
  PROVE  Count(e, {m}) = Occurs(inbox[e], m)
<1>1. {i \in 1..Len(inbox[e]) : inbox[e][i] \in {m}} = Places(inbox[e], m)
  BY DEF Places
<1> QED
  BY <1>1 DEF Count, Occurs

LEMMA CountOfTwo ==
  ASSUME NEW e \in Ends, NEW k \in Messages, NEW m \in Messages, k # m, TypeOK
  PROVE  Count(e, {k, m}) = Occurs(inbox[e], k) + Occurs(inbox[e], m)
<1> DEFINE K == Places(inbox[e], k)
           M == Places(inbox[e], m)
<1>1. {i \in 1..Len(inbox[e]) : inbox[e][i] \in {k, m}} = K \cup M
  BY DEF Places
<1>2. K \cap M = {}
  BY DEF Places
<1>3. IsFiniteSet(K) /\ IsFiniteSet(M) /\ Occurs(inbox[e], k) \in Nat /\ Occurs(inbox[e], m) \in Nat
  BY OccursType DEF TypeOK
<1>4. Cardinality(K) = Occurs(inbox[e], k) /\ Cardinality(M) = Occurs(inbox[e], m)
  BY DEF Occurs
<1> HIDE DEF K, M
<1>5. Cardinality(K \cup M) = Cardinality(K) + Cardinality(M)
  <2>1. Cardinality(K \cup M) = Cardinality(K) + Cardinality(M) - Cardinality(K \cap M)
    BY <1>3, FS_Union
  <2>2. Cardinality(K \cap M) = 0
    BY <1>2, FS_EmptySet
  <2> QED
    BY <1>3, <1>4, <2>1, <2>2
<1> QED
  BY <1>1, <1>4, <1>5 DEF Count

\* As long as a connection is neither lost nor dropped, its admission is at exactly
\* one place, in every network: no interleaving of the two loops and the solving
\* goroutine loses the request, the challenge or the proof, or does it twice.
THEOREM HandshakeOnce == Spec => []OneHandshake
<1>1. IInv => OneHandshake
  <2> SUFFICES ASSUME IInv, NEW d \in Dialled, d \notin cut,
                      class[d] # "gone", class[Other[d]] # "gone"
               PROVE  Admissions(d) = 1
    BY DEF OneHandshake
  <2>1. TypeOK /\ d \in Ends /\ Other[d] \in Ends /\ PeerOf[d] \in Peers
    BY Network DEF IInv
  <2>2. AtAccepted(d) = 1
    BY DEF IInv, Once, OnceAt
  <2>3. Count(Other[d], {"ConnReq", "ConnPoW"})
          = Occurs(inbox[Other[d]], "ConnReq") + Occurs(inbox[Other[d]], "ConnPoW")
    BY <2>1, CountOfTwo DEF Messages
  <2>4. Count(d, {"ConnChall"}) = Occurs(inbox[d], "ConnChall")
    BY CountOfOne
  <2>5. (sending[PeerOf[d]] = "ConnReq" /\ (d \in todo[PeerOf[d]] \/ at[PeerOf[d]] = d)) = Asking(d)
    BY <2>1 DEF Asking, Visited
  <2> DEFINE asked == Flag(Asking(d))
             open == Flag(class[Other[d]] = "valid")
  <2>6. asked \in Nat /\ open \in Nat
    BY DEF Flag
  <2>7. Admissions(d) = asked + Count(Other[d], {"ConnReq", "ConnPoW"}) + Count(d, {"ConnChall"})
                          + solvers[d]["connSolve"] + solvers[d]["connSend"] + open
    BY <2>5 DEF Admissions
  <2>8. AtAccepted(d) = (asked + Occurs(inbox[Other[d]], "ConnReq") + Occurs(inbox[d], "ConnChall")
                          + solvers[d]["connSolve"] + solvers[d]["connSend"])
                          + Occurs(inbox[Other[d]], "ConnPoW") + open
    BY DEF AtAccepted, Prior
  <2> HIDE DEF asked, open
  <2> QED
    BY <2>1, <2>2, <2>3, <2>4, <2>6, <2>7, <2>8, CountsOf
<1> QED
  BY <1>1, InvariantHolds, PTL

\* A push is never at the listening peer's loop before the proof of the connection it
\* came on was: the peer that pushes sent the proof first and the connection is a FIFO.
THEOREM ProofBeforePush == Spec => []PushAfterProof
<1>1. IInv => PushAfterProof
  <2> SUFFICES ASSUME IInv, NEW a \in Accepted, inbox[a] # <<>>, Head(inbox[a]) = "Push"
               PROVE  class[a] \in {"valid", "gone"}
    BY DEF PushAfterProof
  <2>1. inbox[a] \in Seq(Messages) /\ class[a] \in {"new", "inProgress", "valid", "gone"}
    BY Network DEF IInv, TypeOK, Roles
  <2>2. ~Behind(inbox[a])
    BY <2>1, BehindFirst
  <2> QED
    BY <2>1, <2>2 DEF IInv, PushBehindProof
<1> QED
  BY <1>1, InvariantHolds, PTL

\* A handler drops a connection that was in a map only for one of the reasons given.
LEMMA HandlerDrops ==
  ASSUME IInv, NEW x \in Ends, Handle(x), NEW e \in Ends, Managed(e), class'[e] = "gone"
  PROVE  \/ faults' > faults
         \/ Head(inbox[e]) = "Unregister"
         \/ Head(inbox[e]) = "PowChall" /\ class[e] = "valid" /\ ~sentPowReq[e]
<1>1. TypeOK /\ class[e] # "gone" /\ class[e] \in {"toBeProved", "inProgress", "valid"}
  BY DEF IInv, Managed
<1>2. CASE NewConn(x)
  BY <1>1, <1>2 DEF NewConn, TypeOK
<1>3. CASE ConnReq(x) \/ PowReq(x) \/ Push(x)
  BY <1>1, <1>3 DEF ConnReq, PowReq, Push
<1>4. CASE ConnChall(x)
  <2>1. class[x] \in {"toBeProved", "gone"}
    BY <1>4, Expected DEF ConnChall
  <2> QED
    BY <1>1, <1>4, <2>1 DEF ConnChall, Drop, Removed, TypeOK
<1>5. CASE ConnPoW(x)
  <2>1. class[x] \in {"inProgress", "gone"}
    BY <1>5, Expected DEF ConnPoW
  <2> QED
    BY <1>1, <1>5, <2>1 DEF ConnPoW, Drop, Removed, TypeOK
<1>6. CASE PowChall(x)
  <2>1. class[x] \in {"valid", "gone"} /\ Head(inbox[x]) = "PowChall"
    BY <1>6, Expected DEF PowChall, Proved, Receive
  <2> QED
    BY <1>1, <1>6, <2>1 DEF PowChall, Drop, Removed, TypeOK
<1>7. CASE PowPoW(x)
  <2>1. class[x] \in {"valid", "gone"}
    BY <1>7, Expected DEF PowPoW, Proved
  <2> QED
    BY <1>1, <1>7, <2>1 DEF PowPoW, Drop, Removed, TypeOK
<1>8. CASE Unregister(x)
  BY <1>1, <1>8 DEF Unregister, Receive, Drop, Removed, TypeOK
<1> QED
  BY <1>2, <1>3, <1>4, <1>5, <1>6, <1>7, <1>8 DEF Handle

\* A step drops a connection only when it is lost, stale or proved too late, or when a
\* challenge of the renewal arrives that the peer does not remember to have asked for.
THEOREM DropsAreExplained == Spec => DropsExplained
<1> DEFINE Reason(e) == \/ faults' > faults
                        \/ Head(inbox[e]) = "Unregister"
                        \/ Head(inbox[e]) = "PowChall" /\ class[e] = "valid" /\ ~sentPowReq[e]
<1>1. ASSUME IInv, [Next]_vars, NEW e \in Ends, Managed(e), class'[e] = "gone"
      PROVE  Reason(e)
  <2>1. TypeOK /\ class[e] # "gone"
    BY <1>1 DEF IInv, Managed
  <2>2. CASE class' = class
    BY <1>1, <2>1, <2>2
  <2>3. ASSUME NEW x \in Ends, Handle(x) PROVE Reason(e)
    BY <1>1, <2>3, HandlerDrops
  <2>4. ASSUME NEW p \in Peers, Loop(p), class' # class PROVE Reason(e)
    <3>1. PICK x \in EndsOf(p) : Handle(x)
      BY <2>4 DEF Loop, Visit, VisitSend
    <3>2. x \in Ends
      BY DEF EndsOf
    <3> QED
      BY <2>3, <3>1, <3>2
  <2>5. ASSUME NEW p \in Peers, NEW stale, Cull(p, stale) PROVE Reason(e)
    BY <2>1, <2>5 DEF Cull, TypeOK
  <2>6. ASSUME NEW x \in Ends, Solve(x), class' # class PROVE Reason(e)
    <3>1. ConnAdmit(x)
      BY <2>6 DEF Solve, ConnSolved, ConnProve, PowSolved, PowProve
    <3> QED
      BY <1>1, <2>1, <3>1 DEF ConnAdmit, Admitted, TypeOK
  <2>7. ASSUME \/ \E p \in Peers : Renew(p) \/ Gossip(p)
               \/ \E x \in Ends : WriterEnds(x)
               \/ \E d \in Dialled : Lose(d)
               \/ UNCHANGED vars
        PROVE  class' = class
    BY <2>7 DEF Renew, Gossip, WriterEnds, Lose, vars
  <2> QED
    BY <1>1, <2>2, <2>4, <2>5, <2>6, <2>7 DEF Next
<1>2. IInv /\ [Next]_vars => [\A e \in Ends : Managed(e) /\ class'[e] = "gone" => Reason(e)]_vars
  BY <1>1
<1> QED
  BY <1>2, InvariantHolds, PTL DEF Spec, DropsExplained

=============================================================================
