---------------------------- MODULE GossipProofs ----------------------------
(***************************************************************************)
(* What Gossip keeps for every network, every choice of messages, times to *)
(* live and verdicts, and every loss of messages from the caches.          *)
(*                                                                         *)
(* None of the theorems is inductive.  Of a push: it repeats what the      *)
(* caches of its sender had; Backed says that what waits to be relayed is  *)
(* endorsed, and HopsInv counts, for a copy anywhere, its time to live and *)
(* its hops.  Of the caches: CachesInv, further below.                     *)
(***************************************************************************)
EXTENDS Gossip, FiniteSetTheorems, TLAPS

USE GossipAssumption

Types ==
  /\ open \subseteq Links
  /\ net \in [Links -> Seq(Copies)]
  /\ invalid \in [Peers -> SUBSET Copies]
  /\ valid \in [Peers -> SUBSET Copies]
  /\ sent \in [Peers -> SUBSET Copies]
  /\ batch \in [Peers -> SUBSET Copies]
  /\ asked \in [Peers -> SUBSET Messages]
  /\ endorsed \in [Peers -> SUBSET Messages]

\* What a peer is going to relay, it endorsed.
Backed == \A p \in Peers : \A c \in valid[p] \cup batch[p] : c.msg \in endorsed[p]

\* A copy that arrived has its last hop counted and not yet taken off its ttl.
Travelled(c) == TtlOf[c.msg] > 0 => c.ttl >= 1 /\ c.ttl + c.hops = TtlOf[c.msg] + 1

\* A copy that is to be relayed has as many hops left as its ttl says.
ToTravel(c) == TtlOf[c.msg] > 0 => c.ttl >= 1 /\ c.ttl + c.hops = TtlOf[c.msg]

HopsInv ==
  /\ \A l \in Links : \A i \in 1..Len(net[l]) : Travelled(net[l][i])
  /\ \A p \in Peers : \A c \in invalid[p] : Travelled(c)
  /\ \A p \in Peers : \A c \in valid[p] \cup batch[p] : ToTravel(c)

IInv == Types /\ Backed /\ EndorsedOnly /\ HopsInv

-----------------------------------------------------------------------------
(* The operators of the handlers. *)

\* An insertion adds the value inserted and no other.
LEMMA InsertedAdds ==
  ASSUME NEW cache, NEW c, NEW new \in Inserted(cache, c)
  PROVE  new \subseteq cache \cup {c}
BY DEF Inserted

LEMMA InsertIntoKeeps ==
  ASSUME NEW caches, caches \in [Peers -> SUBSET Copies],
         NEW next, NEW p \in Peers, NEW c \in Copies,
         \E new \in Inserted(caches[p], c) : next = [caches EXCEPT ![p] = new]
  PROVE  /\ next \in [Peers -> SUBSET Copies]
         /\ \A q \in Peers : next[q] \subseteq caches[q] \cup (IF q = p THEN {c} ELSE {})
<1>1. PICK new \in Inserted(caches[p], c) : next = [caches EXCEPT ![p] = new]
  OBVIOUS
<1>2. new \subseteq caches[p] \cup {c}
  BY <1>1, InsertedAdds
<1> QED
  BY <1>1, <1>2

\* The ttl of a copy is a number below the modulus, before and after it ages, and
\* ages by 1 unless it is 0.
LEMMA AgedType ==
  ASSUME NEW c \in Copies
  PROVE  /\ Aged(c) \in Copies
         /\ Aged(c).msg = c.msg
         /\ Aged(c).hops = c.hops
         /\ c.ttl >= 1 => Aged(c).ttl = c.ttl - 1
<1>1. c.ttl \in 0..(TtlModulus - 1) /\ c.msg \in Messages /\ c.hops \in Nat
  BY DEF Copies
<1>2. (c.ttl - 1) % TtlModulus \in 0..(TtlModulus - 1)
  BY <1>1
<1>3. c.ttl >= 1 => (c.ttl - 1) % TtlModulus = c.ttl - 1
  BY <1>1
<1> QED
  BY <1>1, <1>2, <1>3 DEF Aged, Copies

\* Taking the first push off a link leaves the others.
LEMMA TailKeeps ==
  ASSUME NEW s \in Seq(Copies), s # <<>>
  PROVE  /\ Tail(s) \in Seq(Copies)
         /\ Head(s) \in Copies
         /\ Head(s) = s[1] /\ 1 \in 1..Len(s)
         /\ \A i \in 1..Len(Tail(s)) : i + 1 \in 1..Len(s) /\ Tail(s)[i] = s[i + 1]
OBVIOUS

-----------------------------------------------------------------------------
(* The invariant. *)

LEMMA InitIInv == Init => IInv
BY DEF Init, IInv, Types, Backed, EndorsedOnly, HopsInv

LEMMA AnnounceIInv ==
  ASSUME IInv, NEW m \in Messages, Announce(m)
  PROVE  IInv'
<1> DEFINE p == Origin[m]
           c == [msg |-> m, ttl |-> TtlOf[m], hops |-> 0]
<1>1. p \in Peers /\ c \in Copies /\ TtlOf[m] \in Nat
  BY DEF Copies
<1>2. /\ \E new \in Inserted(valid[p], c) : valid' = [valid EXCEPT ![p] = new]
      /\ valid \in [Peers -> SUBSET Copies]
  BY DEF Announce, InsertInto, IInv, Types
<1>3. /\ endorsed' = [endorsed EXCEPT ![p] = @ \cup {m}]
      /\ UNCHANGED <<open, net, invalid, sent, batch, asked>>
  BY DEF Announce, linkVars
<1>4. c.msg = m /\ ToTravel(c)
  BY <1>1 DEF ToTravel
<1> HIDE DEF p, c
<1>5. /\ valid' \in [Peers -> SUBSET Copies]
      /\ \A q \in Peers : valid'[q] \subseteq valid[q] \cup (IF q = p THEN {c} ELSE {})
  BY <1>1, <1>2, InsertIntoKeeps
<1>6. /\ endorsed' \in [Peers -> SUBSET Messages]
      /\ \A q \in Peers : endorsed[q] \subseteq endorsed'[q]
      /\ m \in endorsed'[p]
  BY <1>1, <1>3 DEF IInv, Types
<1>7. Types'
  BY <1>3, <1>5, <1>6 DEF IInv, Types
<1>8. Backed'
  BY <1>3, <1>4, <1>5, <1>6 DEF IInv, Backed
<1>9. EndorsedOnly'
  BY <1>3, <1>6 DEF IInv, EndorsedOnly
<1>10. HopsInv'
  BY <1>3, <1>4, <1>5 DEF IInv, HopsInv
<1> QED
  BY <1>7, <1>8, <1>9, <1>10 DEF IInv

LEMMA ReceiveIInv ==
  ASSUME IInv, NEW q \in Peers, NEW p \in Peers, <<q, p>> \in Links, Receive(q, p)
  PROVE  IInv'
<1> DEFINE l == <<q, p>>
           c == Head(net[l])
<1>1. /\ net[l] \in Seq(Copies) /\ net[l] # <<>>
      /\ net' = [net EXCEPT ![l] = Tail(net[l])]
      /\ UNCHANGED <<open, valid, sent, batch, endorsed>>
  BY DEF Receive, linkVars, IInv, Types
<1>2. /\ c \in Copies /\ c = net[l][1] /\ 1 \in 1..Len(net[l])
      /\ Tail(net[l]) \in Seq(Copies)
      /\ \A i \in 1..Len(Tail(net[l])) :
           i + 1 \in 1..Len(net[l]) /\ Tail(net[l])[i] = net[l][i + 1]
  BY <1>1, TailKeeps
<1>3. /\ net' \in [Links -> Seq(Copies)]
      /\ \A k \in Links : \A i \in 1..Len(net'[k]) :
           \E j \in 1..Len(net[k]) : net'[k][i] = net[k][j]
  <2>1. net' \in [Links -> Seq(Copies)]
    BY <1>1, <1>2 DEF IInv, Types
  <2>2. ASSUME NEW k \in Links, NEW i \in 1..Len(net'[k])
        PROVE  \E j \in 1..Len(net[k]) : net'[k][i] = net[k][j]
    <3>1. CASE k = l
      BY <1>1, <1>2, <2>2, <3>1 DEF IInv, Types
    <3>2. CASE k # l
      BY <1>1, <2>2, <3>2 DEF IInv, Types
    <3> QED
      BY <3>1, <3>2
  <2> QED
    BY <2>1, <2>2
<1>4. /\ invalid' \in [Peers -> SUBSET Copies]
      /\ \A r \in Peers : invalid'[r] \subseteq invalid[r] \cup {c}
      /\ asked' \in [Peers -> SUBSET Messages]
  <2>1. CASE <<p, q>> \in open /\ c.msg \notin Held(p)
    <3>1. /\ \E new \in Inserted(invalid[p], c) : invalid' = [invalid EXCEPT ![p] = new]
          /\ asked' = [asked EXCEPT ![p] = @ \cup {c.msg}]
      BY <2>1 DEF Receive, InsertInto
    <3>2. invalid \in [Peers -> SUBSET Copies]
      BY DEF IInv, Types
    <3> HIDE DEF c
    <3>3. /\ invalid' \in [Peers -> SUBSET Copies]
          /\ \A r \in Peers : invalid'[r] \subseteq invalid[r] \cup (IF r = p THEN {c} ELSE {})
      <4>1. c \in Copies
        BY <1>2
      <4>2. \E new \in Inserted(invalid[p], c) : invalid' = [invalid EXCEPT ![p] = new]
        BY <3>1
      <4> QED
        BY <3>2, <4>1, <4>2, InsertIntoKeeps
    <3>4. c.msg \in Messages
      BY <1>2 DEF Copies
    <3>5. asked' \in [Peers -> SUBSET Messages]
      BY <3>1, <3>4 DEF IInv, Types
    <3> QED
      BY <3>3, <3>5
  <2>2. CASE ~(<<p, q>> \in open /\ c.msg \notin Held(p))
    BY <2>2 DEF Receive, IInv, Types
  <2> QED
    BY <2>1, <2>2
<1> HIDE DEF c
<1>5. Types'
  BY <1>1, <1>3, <1>4 DEF IInv, Types
<1>6. Backed'
  BY <1>1 DEF IInv, Backed
<1>7. EndorsedOnly'
  BY <1>1, <1>3 DEF IInv, EndorsedOnly
<1>8. Travelled(c)
  BY <1>2 DEF IInv, HopsInv
<1>9. HopsInv'
  BY <1>1, <1>3, <1>4, <1>8 DEF IInv, HopsInv
<1> QED
  BY <1>5, <1>6, <1>7, <1>9 DEF IInv

LEMMA ValidateIInv ==
  ASSUME IInv, NEW p \in Peers, NEW m \in asked[p], NEW ok \in BOOLEAN, Validate(p, m, ok)
  PROVE  IInv'
<1>1. /\ m \in Messages
      /\ endorsed' = [endorsed EXCEPT ![p] = IF ok THEN @ \cup {m} ELSE @]
      /\ asked' \in {asked, [asked EXCEPT ![p] = @ \ {m}]}
      /\ UNCHANGED <<open, net, batch>>
  BY DEF Validate, linkVars, IInv, Types
<1>2. /\ endorsed' \in [Peers -> SUBSET Messages]
      /\ \A q \in Peers : endorsed[q] \subseteq endorsed'[q]
      /\ ok => m \in endorsed'[p]
      /\ asked' \in [Peers -> SUBSET Messages]
  <2>1. endorsed \in [Peers -> SUBSET Messages] /\ asked \in [Peers -> SUBSET Messages]
    BY DEF IInv, Types
  <2>2. [asked EXCEPT ![p] = @ \ {m}] \in [Peers -> SUBSET Messages]
    BY <2>1
  <2>3. asked' \in [Peers -> SUBSET Messages]
    BY <1>1, <2>1, <2>2
  <2> QED
    BY <1>1, <2>1, <2>3
<1>3. CASE Find(invalid[p], m) = {}
  <2>1. UNCHANGED <<invalid, valid, sent>>
    BY <1>3 DEF Validate
  <2>2. Types'
    BY <1>1, <1>2, <2>1 DEF IInv, Types
  <2>3. Backed' /\ EndorsedOnly'
    BY <1>1, <1>2, <2>1 DEF IInv, Backed, EndorsedOnly
  <2>4. HopsInv'
    BY <1>1, <2>1 DEF IInv, HopsInv
  <2> QED
    BY <2>2, <2>3, <2>4 DEF IInv
<1>4. CASE Find(invalid[p], m) # {}
  <2>1. PICK c \in Find(invalid[p], m) : StoreVerdict(p, c, ok)
    BY <1>4 DEF Validate
  <2>2. c \in invalid[p] /\ c \in Copies /\ c.msg = m /\ Travelled(c)
    BY <2>1 DEF Find, IInv, Types, HopsInv
  <2>3. /\ Aged(c) \in Copies /\ Aged(c).msg = m
        /\ c.ttl # 1 => ToTravel(Aged(c))
    <3>1. c.ttl \in Nat /\ c.hops \in Nat /\ TtlOf[m] \in Nat
      BY <1>1, <2>2 DEF Copies
    <3>2. /\ Aged(c) \in Copies /\ Aged(c).msg = m /\ Aged(c).hops = c.hops
          /\ c.ttl >= 1 => Aged(c).ttl = c.ttl - 1
      BY <2>2, AgedType
    <3> QED
      BY <2>2, <3>1, <3>2 DEF Travelled, ToTravel
  <2>4. /\ invalid' \in [Peers -> SUBSET Copies]
        /\ \A q \in Peers : invalid'[q] \subseteq invalid[q]
    BY <2>1 DEF StoreVerdict, IInv, Types
  <2> DEFINE moved == IF ok /\ c.ttl # 1 THEN {Aged(c)} ELSE {}
  <2>5. /\ valid' \in [Peers -> SUBSET Copies]
        /\ sent' \in [Peers -> SUBSET Copies]
        /\ \A q \in Peers : valid'[q] \subseteq valid[q] \cup (IF q = p THEN moved ELSE {})
    <3>1. CASE ok /\ c.ttl # 1
      <4>1. /\ \E new \in Inserted(valid[p], Aged(c)) : valid' = [valid EXCEPT ![p] = new]
            /\ UNCHANGED sent
            /\ valid \in [Peers -> SUBSET Copies]
        BY <2>1, <3>1 DEF StoreVerdict, InsertInto, IInv, Types
      <4>2. /\ valid' \in [Peers -> SUBSET Copies]
            /\ \A q \in Peers : valid'[q] \subseteq valid[q] \cup (IF q = p THEN {Aged(c)} ELSE {})
        BY <2>3, <4>1, InsertIntoKeeps
      <4> QED
        BY <3>1, <4>1, <4>2 DEF IInv, Types
    <3>2. CASE ok /\ c.ttl = 1
      <4>1. /\ \E new \in Inserted(sent[p], c) : sent' = [sent EXCEPT ![p] = new]
            /\ UNCHANGED valid
            /\ sent \in [Peers -> SUBSET Copies]
        BY <2>1, <3>2 DEF StoreVerdict, InsertInto, IInv, Types
      <4>2. sent' \in [Peers -> SUBSET Copies]
        BY <2>2, <4>1, InsertIntoKeeps
      <4> QED
        BY <4>1, <4>2 DEF IInv, Types
    <3>3. CASE ~ok
      BY <2>1, <3>3 DEF StoreVerdict, IInv, Types
    <3> QED
      BY <3>1, <3>2, <3>3
  <2>6. Types'
    BY <1>1, <1>2, <2>4, <2>5 DEF IInv, Types
  <2>7. \A d \in moved : d.msg \in endorsed'[p] /\ ToTravel(d)
    BY <1>2, <2>3
  <2> HIDE DEF moved
  <2>8. Backed'
    BY <1>1, <1>2, <2>5, <2>7 DEF IInv, Backed
  <2>9. EndorsedOnly'
    BY <1>1, <1>2 DEF IInv, EndorsedOnly
  <2>10. HopsInv'
    BY <1>1, <2>4, <2>5, <2>7 DEF IInv, HopsInv
  <2> QED
    BY <2>6, <2>8, <2>9, <2>10 DEF IInv
<1> QED
  BY <1>3, <1>4

LEMMA RelayIInv ==
  ASSUME IInv, NEW p \in Peers, NEW c \in batch[p], Relay(p, c)
  PROVE  IInv'
<1> DEFINE d == [c EXCEPT !.hops = @ + 1]
<1>1. c \in Copies /\ c.msg \in endorsed[p] /\ ToTravel(c)
  BY DEF IInv, Types, Backed, HopsInv
<1>2. d \in Copies /\ d.msg = c.msg /\ Travelled(d)
  <2>1. /\ c.hops \in Nat /\ c.ttl \in Nat /\ c.msg \in Messages
        /\ d \in Copies /\ d.msg = c.msg /\ d.ttl = c.ttl /\ d.hops = c.hops + 1
    BY <1>1 DEF Copies
  <2>2. TtlOf[c.msg] \in Nat
    BY <2>1
  <2> HIDE DEF d
  <2> QED
    BY <1>1, <2>1, <2>2 DEF ToTravel, Travelled
<1>3. PICK S \in Receivers(p) :
        net' = [l \in Links |-> IF l[1] = p /\ l[2] \in S THEN Append(net[l], d) ELSE net[l]]
  BY DEF Relay
<1>4. /\ batch' = [batch EXCEPT ![p] = @ \ {c}]
      /\ valid' = [valid EXCEPT ![p] = @ \ {c}]
      /\ \E new \in Inserted(sent[p], c) : sent' = [sent EXCEPT ![p] = new]
      /\ UNCHANGED <<open, invalid, asked, endorsed>>
  BY DEF Relay, InsertInto, linkVars
<1> HIDE DEF d
<1>5. /\ net' \in [Links -> Seq(Copies)]
      /\ \A l \in Links : \A i \in 1..Len(net'[l]) :
           \/ i \in 1..Len(net[l]) /\ net'[l][i] = net[l][i]
           \/ l[1] = p /\ net'[l][i] = d
  <2>1. \A l \in Links : net[l] \in Seq(Copies) /\ net'[l] \in {Append(net[l], d), net[l]}
                         /\ (net'[l] # net[l] => l[1] = p)
    BY <1>3 DEF IInv, Types
  <2>2. \A l \in Links : Append(net[l], d) \in Seq(Copies)
    BY <1>2, <2>1
  <2>3. net' \in [Links -> Seq(Copies)]
    BY <1>3, <2>1, <2>2
  <2>4. ASSUME NEW l \in Links, NEW i \in 1..Len(net'[l])
        PROVE  \/ i \in 1..Len(net[l]) /\ net'[l][i] = net[l][i]
               \/ l[1] = p /\ net'[l][i] = d
    <3>1. CASE net'[l] = net[l]
      BY <2>4, <3>1
    <3>2. CASE net'[l] # net[l]
      <4>1. net'[l] = Append(net[l], d) /\ l[1] = p /\ net[l] \in Seq(Copies)
        BY <2>1, <3>2
      <4>2. i \in 1..(Len(net[l]) + 1)
        BY <2>4, <4>1
      <4> QED
        BY <4>1, <4>2
    <3> QED
      BY <3>1, <3>2
  <2> QED
    BY <2>3, <2>4
<1>6. /\ batch' \in [Peers -> SUBSET Copies]
      /\ valid' \in [Peers -> SUBSET Copies]
      /\ \A q \in Peers : batch'[q] \subseteq batch[q] /\ valid'[q] \subseteq valid[q]
  BY <1>4 DEF IInv, Types
<1>7. sent' \in [Peers -> SUBSET Copies]
  <2>1. sent \in [Peers -> SUBSET Copies]
    BY DEF IInv, Types
  <2> QED
    BY ZenonT(30), <1>1, <1>4, <2>1, InsertIntoKeeps
<1>8. Types'
  BY <1>4, <1>5, <1>6, <1>7 DEF IInv, Types
<1>9. Backed'
  BY <1>4, <1>6 DEF IInv, Backed
<1>10. EndorsedOnly'
  BY <1>1, <1>2, <1>4, <1>5 DEF IInv, EndorsedOnly
<1>11. HopsInv'
  BY ZenonT(30), <1>2, <1>4, <1>5, <1>6 DEF IInv, HopsInv
<1> QED
  BY <1>8, <1>9, <1>10, <1>11 DEF IInv

LEMMA NextIInv == IInv /\ [Next]_vars => IInv'
<1> SUFFICES ASSUME IInv, [Next]_vars PROVE IInv'
  OBVIOUS
<1>1. ASSUME NEW m \in Messages, Announce(m) PROVE IInv'
  BY <1>1, AnnounceIInv
<1>2. ASSUME NEW p \in Peers, NEW q \in Peers, <<p, q>> \in Links, Receive(p, q) PROVE IInv'
  BY <1>2, ReceiveIInv
<1>3. ASSUME NEW p \in Peers, NEW q \in Peers, <<p, q>> \in Links, Open(p, q) \/ Close(p, q)
      PROVE  IInv'
  <2>1. open' \subseteq Links /\ UNCHANGED <<net, invalid, valid, sent, batch, asked, endorsed>>
    BY <1>3 DEF Open, Close, IInv, Types
  <2>2. Types'
    BY <2>1 DEF IInv, Types
  <2>3. Backed' /\ EndorsedOnly'
    BY <2>1 DEF IInv, Backed, EndorsedOnly
  <2>4. HopsInv'
    BY <2>1 DEF IInv, HopsInv
  <2> QED
    BY <2>2, <2>3, <2>4 DEF IInv
<1>4. ASSUME NEW p \in Peers, NEW m \in asked[p], NEW ok \in Verdicts, Validate(p, m, ok)
      PROVE  IInv'
  <2>1. ok \in BOOLEAN
    OBVIOUS
  <2> QED
    BY <1>4, <2>1, ValidateIInv
<1>5. ASSUME NEW p \in Peers, Tick(p) PROVE IInv'
  <2>1. /\ batch' = [batch EXCEPT ![p] = valid[p]]
        /\ UNCHANGED <<open, net, invalid, valid, sent, asked, endorsed>>
    BY <1>5 DEF Tick, linkVars
  <2>2. /\ batch' \in [Peers -> SUBSET Copies]
        /\ \A q \in Peers : batch'[q] \subseteq batch[q] \cup valid[q]
    BY <2>1 DEF IInv, Types
  <2>3. Types'
    BY <2>1, <2>2 DEF IInv, Types
  <2>4. Backed' /\ EndorsedOnly'
    BY <2>1, <2>2 DEF IInv, Backed, EndorsedOnly
  <2>5. HopsInv'
    BY <2>1, <2>2 DEF IInv, HopsInv
  <2> QED
    BY <2>3, <2>4, <2>5 DEF IInv
<1>6. ASSUME NEW p \in Peers, NEW c \in batch[p], Relay(p, c) PROVE IInv'
  BY <1>6, RelayIInv
<1>7. CASE UNCHANGED vars
  <2>1. UNCHANGED <<open, net, invalid, valid, sent, batch, asked, endorsed>>
    BY <1>7 DEF vars
  <2>2. Types'
    BY <2>1 DEF IInv, Types
  <2>3. Backed' /\ EndorsedOnly' /\ HopsInv'
    BY <2>1 DEF IInv, Backed, EndorsedOnly, HopsInv
  <2> QED
    BY <2>2, <2>3 DEF IInv
<1> QED
  BY <1>1, <1>2, <1>3, <1>4, <1>5, <1>6, <1>7 DEF Next

LEMMA GossipInvariance == Spec => []IInv
BY InitIInv, NextIInv, PTL DEF Spec

-----------------------------------------------------------------------------

\* Whatever a peer pushes, its own application announced or found valid, in every
\* network and however many messages the caches lose.
THEOREM PushesAreEndorsed == Spec => []EndorsedOnly
<1>1. IInv => EndorsedOnly
  BY DEF IInv
<1> QED
  BY <1>1, GossipInvariance, PTL

\* A message with a time to live never makes more hops than that: the handler
\* that compares it with 1 keeps the uint8 from wrapping, on every path.
THEOREM TtlBoundsHops == Spec => []HopsBounded
<1>1. ASSUME IInv PROVE HopsBounded
  <2> SUFFICES ASSUME NEW l \in Links, NEW i \in 1..Len(net[l]), TtlOf[net[l][i].msg] > 0
               PROVE  net[l][i].hops <= TtlOf[net[l][i].msg]
    BY DEF HopsBounded
  <2>1. net[l] \in Seq(Copies) /\ Travelled(net[l][i])
    BY <1>1 DEF IInv, Types, HopsInv
  <2>2. net[l][i] \in Copies
    BY <2>1
  <2>3. /\ net[l][i].msg \in Messages
        /\ net[l][i].ttl \in Nat
        /\ net[l][i].hops \in Nat
    BY <2>2 DEF Copies
  <2>4. TtlOf[net[l][i].msg] \in Nat
    BY <2>3
  <2> QED
    BY <2>1, <2>3, <2>4 DEF Travelled
<1> QED
  BY <1>1, GossipInvariance, PTL

-----------------------------------------------------------------------------
(* The caches.  A second invariant, which uses the first for the types:    *)
(* that a message has one place among the caches of a peer is what the     *)
(* counts of notices and relays rest on, and they count, against what was  *)
(* forgotten, also the place the message has now.                          *)

Single(S) == \A c, d \in S : c.msg = d.msg => c = d
Apart(S, T) == \A c \in S, d \in T : c.msg # d.msg
OnePlace(A, B, C) ==
  Single(A) /\ Single(B) /\ Single(C) /\ Apart(A, B) /\ Apart(A, C) /\ Apart(B, C)

Has(S, m) == \E c \in S : c.msg = m

Histories ==
  /\ closed \subseteq Links /\ announced \subseteq Messages
  /\ notices \in [Peers -> [Messages -> Nat]]
  /\ relays \in [Peers -> [Messages -> Nat]]
  /\ forgotten \in [Peers -> [Messages -> Nat]]

Small(S) == IsFiniteSet(S) /\ Cardinality(S) <= Capacity

Bounded == \A p \in Peers : Small(invalid[p]) /\ Small(valid[p]) /\ Small(sent[p])

\* What the ticker has still to relay is valid; the loop handles nothing else meanwhile.
Placed == \A p \in Peers : OnePlace(invalid[p], valid[p], sent[p]) /\ batch[p] \subseteq valid[p]

\* Nobody has a message before it is announced.
Known ==
  /\ \A l \in Links : \A i \in 1..Len(net[l]) : net[l][i].msg \in announced
  /\ \A p \in Peers : Held(p) \subseteq announced

\* A message that is held was taken in once more than it was forgotten, with a notice
\* each time except for the announcement.
NoticedAt(p, m) ==
  IF m \in announced \/ p # Origin[m]
  THEN notices[p][m] + (IF m \in Held(p) THEN 0 ELSE 1)
         <= forgotten[p][m] + (IF p = Origin[m] THEN 0 ELSE 1)
  ELSE notices[p][m] = 0
Noticed == \A p \in Peers : \A m \in Messages : NoticedAt(p, m)

\* A message that was relayed and not forgotten is among the sent ones.
RelayedAt(p, m) == relays[p][m] <= forgotten[p][m] + (IF Has(sent[p], m) THEN 1 ELSE 0)
Relayed == \A p \in Peers : \A m \in Messages : RelayedAt(p, m)

CachesInv == Histories /\ Bounded /\ Placed /\ Known /\ Noticed /\ Relayed

LEMMA HeldIsHas ==
  ASSUME NEW p, NEW m
  PROVE  m \in Held(p) <=> Has(invalid[p], m) \/ Has(valid[p], m) \/ Has(sent[p], m)
BY DEF Held, Has

\* An insertion keeps a cache within its capacity and has the value inserted.
LEMMA InsertedSmall ==
  ASSUME NEW cache, Small(cache), NEW c, NEW new \in Inserted(cache, c)
  PROVE  Small(new) /\ c \in new
<1>1. IsFiniteSet(cache) /\ Cardinality(cache) \in Nat /\ Cardinality(cache) <= Capacity
  BY FS_CardinalityType DEF Small
<1>2. ASSUME NEW S, IsFiniteSet(S), Cardinality(S) < Capacity
      PROVE  Small(S \cup {c})
  <2>1. /\ IsFiniteSet(S \cup {c})
        /\ Cardinality(S \cup {c}) = IF c \in S THEN Cardinality(S) ELSE Cardinality(S) + 1
    BY <1>2, FS_AddElement
  <2>2. Cardinality(S) \in Nat
    BY <1>2, FS_CardinalityType
  <2> QED
    BY <1>2, <2>1, <2>2 DEF Small
<1>3. CASE Cardinality(cache) < Capacity
  BY <1>1, <1>2, <1>3 DEF Inserted
<1>4. CASE ~(Cardinality(cache) < Capacity)
  <2>1. PICK old \in cache : new = (cache \ {old}) \cup {c}
    BY <1>4 DEF Inserted
  <2>2. IsFiniteSet(cache \ {old}) /\ Cardinality(cache \ {old}) = Cardinality(cache) - 1
    BY <1>1, <2>1, FS_RemoveElement
  <2>3. Cardinality(cache \ {old}) < Capacity
    BY <1>1, <2>2
  <2> QED
    BY <1>2, <2>1, <2>2, <2>3
<1> QED
  BY <1>3, <1>4

LEMMA SmallerIsSmall ==
  ASSUME NEW S, Small(S), NEW T, T \subseteq S
  PROVE  Small(T)
<1>1. IsFiniteSet(T) /\ Cardinality(T) <= Cardinality(S)
  BY FS_Subset DEF Small
<1>2. Cardinality(T) \in Nat /\ Cardinality(S) \in Nat
  BY <1>1, FS_CardinalityType DEF Small
<1> QED
  BY <1>1, <1>2 DEF Small

\* The places that remain when caches shrink, and the place of a message new to them.
LEMMA OnePlaceLess ==
  ASSUME NEW A, NEW B, NEW C, OnePlace(A, B, C),
         NEW A1, NEW B1, NEW C1, A1 \subseteq A, B1 \subseteq B, C1 \subseteq C
  PROVE  OnePlace(A1, B1, C1)
BY DEF OnePlace, Single, Apart

LEMMA OnePlaceMore ==
  ASSUME NEW A, NEW B, NEW C, OnePlace(A, B, C),
         NEW c, ~Has(A, c.msg), ~Has(B, c.msg), ~Has(C, c.msg)
  PROVE  /\ OnePlace(A \cup {c}, B, C)
         /\ OnePlace(A, B \cup {c}, C)
         /\ OnePlace(A, B, C \cup {c})
BY DEF OnePlace, Single, Apart, Has

\* What NoteForgotten writes.
LEMMA ForgetEffect ==
  ASSUME Histories, NEW p \in Peers, NoteForgotten(p)
  PROVE  /\ forgotten' \in [Peers -> [Messages -> Nat]]
         /\ \A q \in Peers : \A m \in Messages :
              forgotten'[q][m] = forgotten[q][m]
                + (IF q = p /\ m \in Held(p) /\ m \notin Held(p)' THEN 1 ELSE 0)
<1> DEFINE row == [m \in Messages |-> IF m \in Held(p) \ Held(p)'
                                      THEN forgotten[p][m] + 1 ELSE forgotten[p][m]]
<1>1. forgotten \in [Peers -> [Messages -> Nat]] /\ forgotten' = [forgotten EXCEPT ![p] = row]
  BY DEF NoteForgotten, Histories
<1>2. /\ row \in [Messages -> Nat]
      /\ \A m \in Messages : row[m] = forgotten[p][m]
           + (IF m \in Held(p) /\ m \notin Held(p)' THEN 1 ELSE 0)
  BY <1>1
<1> HIDE DEF row
<1>3. \A q \in Peers : \A m \in Messages : forgotten[q][m] \in Nat
  BY <1>1
<1>4. \A q \in Peers : forgotten'[q] = IF q = p THEN row ELSE forgotten[q]
  BY <1>1
<1> QED
  BY <1>1, <1>2, <1>3, <1>4

\* The messages that do not come to p by a step keep their notices.
LEMMA NoticedElsewhere ==
  ASSUME Histories, Noticed, NEW p \in Peers, NoteForgotten(p), NEW N,
         \A q \in Peers : q # p => Held(q)' = Held(q),
         Held(p)' \subseteq Held(p) \cup N,
         \A m \in Messages : (m \in announced' <=> m \in announced) \/ (m \in N /\ p = Origin[m]),
         \A q \in Peers : \A m \in Messages :
           q # p \/ m \notin N => notices'[q][m] = notices[q][m]
  PROVE  \A q \in Peers : \A m \in Messages : q # p \/ m \notin N => NoticedAt(q, m)'
<1> SUFFICES ASSUME NEW q \in Peers, NEW m \in Messages, q # p \/ m \notin N
             PROVE  NoticedAt(q, m)'
  OBVIOUS
<1>1. /\ notices[q][m] \in Nat /\ forgotten[q][m] \in Nat
      /\ forgotten'[q][m] = forgotten[q][m]
           + (IF q = p /\ m \in Held(p) /\ m \notin Held(p)' THEN 1 ELSE 0)
  BY ForgetEffect DEF Histories
<1>2. NoticedAt(q, m) /\ notices'[q][m] = notices[q][m]
  BY DEF Noticed
<1>3. CASE q = p
  BY <1>1, <1>2, <1>3 DEF NoticedAt
<1>4. CASE q # p
  BY <1>1, <1>2, <1>4 DEF NoticedAt
<1> QED
  BY <1>3, <1>4

\* A step relays only what comes to the sent messages, and what leaves these is forgotten.
LEMMA RelayedKept ==
  ASSUME Histories, Relayed, NEW p \in Peers, NoteForgotten(p),
         \A q \in Peers : q # p => sent'[q] = sent[q],
         \A m \in Messages : Has(sent[p], m) /\ ~Has(sent'[p], m) => m \in Held(p) /\ m \notin Held(p)',
         relays' \in [Peers -> [Messages -> Nat]],
         \A q \in Peers : \A m \in Messages :
           relays'[q][m] <= relays[q][m] + (IF Has(sent'[q], m) /\ ~Has(sent[q], m) THEN 1 ELSE 0)
  PROVE  Relayed'
<1> SUFFICES ASSUME NEW q \in Peers, NEW m \in Messages PROVE RelayedAt(q, m)'
  BY DEF Relayed
<1>1. /\ relays[q][m] \in Nat /\ forgotten[q][m] \in Nat /\ relays'[q][m] \in Nat
      /\ forgotten'[q][m] = forgotten[q][m]
           + (IF q = p /\ m \in Held(p) /\ m \notin Held(p)' THEN 1 ELSE 0)
  BY ForgetEffect DEF Histories
<1>2. RelayedAt(q, m)
  BY DEF Relayed
<1>3. relays'[q][m] <= relays[q][m] + (IF Has(sent'[q], m) /\ ~Has(sent[q], m) THEN 1 ELSE 0)
  OBVIOUS
<1>4. CASE q = p
  BY <1>1, <1>2, <1>3, <1>4 DEF RelayedAt
<1>5. CASE q # p
  BY <1>1, <1>2, <1>3, <1>5 DEF RelayedAt
<1> QED
  BY <1>4, <1>5

\* A step that relays nothing and leaves the sent messages alone.
LEMMA RelayedAlone ==
  ASSUME Histories, Relayed, NEW p \in Peers, NoteForgotten(p), UNCHANGED <<sent, relays>>
  PROVE  Relayed'
<1> SUFFICES ASSUME NEW q \in Peers, NEW m \in Messages PROVE RelayedAt(q, m)'
  BY DEF Relayed
<1>1. /\ relays[q][m] \in Nat /\ forgotten[q][m] \in Nat
      /\ forgotten'[q][m] = forgotten[q][m]
           + (IF q = p /\ m \in Held(p) /\ m \notin Held(p)' THEN 1 ELSE 0)
  BY ForgetEffect DEF Histories
<1>2. RelayedAt(q, m)
  BY DEF Relayed
<1>3. Has(sent[q], m)' = Has(sent[q], m)
  BY DEF Has
<1> QED
  BY <1>1, <1>2, <1>3 DEF RelayedAt

\* What the two counters of Receive and Relay become.
LEMMA CountedOnce ==
  ASSUME NEW f \in [Peers -> [Messages -> Nat]], NEW p \in Peers, NEW m \in Messages,
         NEW n \in Nat, NEW g, g = [f EXCEPT ![p][m] = n]
  PROVE  /\ g \in [Peers -> [Messages -> Nat]]
         /\ g[p][m] = n
         /\ \A q \in Peers : \A k \in Messages : q # p \/ k # m => g[q][k] = f[q][k]
<1> DEFINE row == [f[p] EXCEPT ![m] = n]
<1>1. g = [f EXCEPT ![p] = row]
  OBVIOUS
<1>2. row \in [Messages -> Nat] /\ row[m] = n /\ \A k \in Messages : k # m => row[k] = f[p][k]
  OBVIOUS
<1> HIDE DEF row
<1> QED
  BY <1>1, <1>2

LEMMA AnnounceCaches ==
  ASSUME IInv, CachesInv, NEW m \in Messages, Announce(m)
  PROVE  CachesInv'
<1> DEFINE p == Origin[m]
           c == [msg |-> m, ttl |-> TtlOf[m], hops |-> 0]
<1>1. p \in Peers /\ c.msg = m /\ batch[p] = {} /\ m \notin announced
  BY DEF Announce, Idle
<1>2. /\ \E new \in Inserted(valid[p], c) : valid' = [valid EXCEPT ![p] = new]
      /\ announced' = announced \cup {m}
      /\ UNCHANGED <<open, closed, net, invalid, sent, batch, asked, notices, relays>>
      /\ NoteForgotten(p)
  BY DEF Announce, InsertInto, linkVars
<1> HIDE DEF p, c
<1>3. PICK new \in Inserted(valid[p], c) : valid' = [valid EXCEPT ![p] = new]
  BY <1>2
<1>4. /\ valid'[p] = new
      /\ \A q \in Peers : q # p => valid'[q] = valid[q]
  BY <1>1, <1>3 DEF IInv, Types
<1>5. new \subseteq valid[p] \cup {c} /\ Small(new) /\ c \in new
  BY <1>1, <1>3, InsertedAdds, InsertedSmall DEF CachesInv, Bounded
<1>6. m \notin Held(p) /\ m \in Held(p)' /\ Held(p)' \subseteq Held(p) \cup {m}
  <2>1. m \notin Held(p)
    BY <1>1 DEF CachesInv, Known
  <2> QED
    BY <1>1, <1>2, <1>4, <1>5, <2>1 DEF Held
<1>7. \A q \in Peers : q # p => Held(q)' = Held(q)
  BY <1>2, <1>4 DEF Held
<1>8. Histories'
  BY <1>1, <1>2, ForgetEffect DEF CachesInv, Histories
<1>9. Bounded'
  BY <1>2, <1>4, <1>5 DEF CachesInv, Bounded
<1>10. Placed'
  <2>1. OnePlace(invalid[p], valid[p], sent[p])
    BY <1>1 DEF CachesInv, Placed
  <2>2. OnePlace(invalid[p], valid[p] \cup {c}, sent[p])
    BY <1>1, <1>6, <2>1, OnePlaceMore, HeldIsHas
  <2>3. OnePlace(invalid[p], new, sent[p])
    BY <1>5, <2>2, OnePlaceLess
  <2> QED
    BY <1>1, <1>2, <1>4, <2>3 DEF CachesInv, Placed
<1>11. Known'
  BY <1>2, <1>6, <1>7 DEF CachesInv, Known
<1>12. Noticed'
  <2>1. \A q \in Peers : \A k \in Messages : q # p \/ k \notin {m} => NoticedAt(q, k)'
    <3>1. PICK N : N = {m}
      OBVIOUS
    <3>2. \A k \in Messages : (k \in announced' <=> k \in announced) \/ (k \in N /\ p = Origin[k])
      BY <1>2, <3>1 DEF p
    <3>3. notices' = notices /\ Histories /\ Noticed /\ NoteForgotten(p)
      BY <1>2 DEF CachesInv
    <3>4. Held(p)' \subseteq Held(p) \cup N
      BY <1>6, <3>1
    <3>5. \A q \in Peers : \A k \in Messages : q # p \/ k \notin N => NoticedAt(q, k)'
      BY <1>1, <1>7, <3>2, <3>3, <3>4, NoticedElsewhere
    <3> QED
      BY <3>1, <3>5
  <2>2. NoticedAt(p, m)'
    <3>1. notices[p][m] = 0
      BY <1>1 DEF CachesInv, Noticed, NoticedAt, p
    <3>2. forgotten'[p][m] \in Nat
      BY <1>1, <1>8 DEF Histories
    <3> QED
      BY <1>2, <1>6, <3>1, <3>2 DEF NoticedAt, p
  <2> QED
    BY <2>1, <2>2 DEF Noticed
<1>13. Relayed'
  BY <1>1, <1>2, RelayedAlone DEF CachesInv
<1> QED
  BY <1>8, <1>9, <1>10, <1>11, <1>12, <1>13 DEF CachesInv

LEMMA ReceiveCaches ==
  ASSUME IInv, CachesInv, NEW q \in Peers, NEW p \in Peers, <<q, p>> \in Links, Receive(q, p)
  PROVE  CachesInv'
<1> DEFINE l == <<q, p>>
<1>0. PICK c : c = Head(net[l])
  OBVIOUS
<1> DEFINE taken == <<p, q>> \in open /\ c.msg \notin Held(p)
           N == IF taken THEN {c.msg} ELSE {}
<1>1. /\ net \in [Links -> Seq(Copies)] /\ net[l] \in Seq(Copies) /\ net[l] # <<>>
      /\ net' = [net EXCEPT ![l] = Tail(net[l])]
      /\ UNCHANGED <<open, closed, valid, sent, batch, announced, relays>>
      /\ NoteForgotten(p) /\ batch[p] = {}
  BY DEF Receive, linkVars, IInv, Types, Idle
<1>2. /\ c \in Copies /\ c.msg \in Messages /\ c = net[l][1] /\ 1 \in 1..Len(net[l])
      /\ \A i \in 1..Len(Tail(net[l])) :
           i + 1 \in 1..Len(net[l]) /\ Tail(net[l])[i] = net[l][i + 1]
  BY <1>0, <1>1, TailKeeps DEF Copies
<1>3. c.msg \in announced
  BY <1>2 DEF CachesInv, Known
<1>4. /\ \E new \in {invalid[p]} \cup (IF taken THEN Inserted(invalid[p], c) ELSE {}) :
           invalid' = [invalid EXCEPT ![p] = new] /\ (taken => c \in new)
      /\ notices' = IF taken THEN [notices EXCEPT ![p][c.msg] = notices[p][c.msg] + 1] ELSE notices
  <2>1. CASE taken
    <3>1. PICK new \in Inserted(invalid[p], c) : invalid' = [invalid EXCEPT ![p] = new]
      BY <1>0, <2>1 DEF Receive, InsertInto
    <3>2. c \in new
      BY <3>1, InsertedSmall DEF CachesInv, Bounded
    <3>3. notices' = [notices EXCEPT ![p][c.msg] = notices[p][c.msg] + 1]
      BY <1>0, <2>1 DEF Receive
    <3> HIDE DEF taken
    <3> QED
      BY <2>1, <3>1, <3>2, <3>3
  <2>2. CASE ~taken
    <3>1. invalid' = invalid /\ notices' = notices /\ invalid \in [Peers -> SUBSET Copies]
      BY <1>0, <2>2 DEF Receive, IInv, Types
    <3> HIDE DEF taken
    <3> QED
      BY <2>2, <3>1
  <2> QED
    BY <2>1, <2>2
<1>5. PICK new \in {invalid[p]} \cup (IF taken THEN Inserted(invalid[p], c) ELSE {}) :
        invalid' = [invalid EXCEPT ![p] = new] /\ (taken => c \in new)
  BY <1>4
<1>6. new \subseteq invalid[p] \cup (IF taken THEN {c} ELSE {}) /\ Small(new)
  BY <1>5, InsertedAdds, InsertedSmall DEF CachesInv, Bounded
<1>7. /\ invalid'[p] = new
      /\ \A r \in Peers : r # p => invalid'[r] = invalid[r]
  BY <1>5 DEF IInv, Types
<1>8. taken => ~Has(invalid[p], c.msg) /\ ~Has(valid[p], c.msg) /\ ~Has(sent[p], c.msg)
  BY HeldIsHas
<1>9. Held(p)' \subseteq Held(p) \cup N /\ (taken => c.msg \notin Held(p) /\ c.msg \in Held(p)')
  BY <1>1, <1>5, <1>6, <1>7 DEF Held
<1>10. \A r \in Peers : r # p => Held(r)' = Held(r)
  BY <1>1, <1>7 DEF Held
<1> HIDE DEF taken
<1>11. /\ notices' \in [Peers -> [Messages -> Nat]]
       /\ \A r \in Peers : \A k \in Messages : r # p \/ k \notin N => notices'[r][k] = notices[r][k]
       /\ taken => notices'[p][c.msg] = notices[p][c.msg] + 1
  <2>1. notices \in [Peers -> [Messages -> Nat]]
    BY DEF CachesInv, Histories
  <2>2. CASE taken
    <3>1. notices' = [notices EXCEPT ![p][c.msg] = notices[p][c.msg] + 1]
      BY <1>4, <2>2
    <3>2. PICK n : n = notices[p][c.msg] + 1
      OBVIOUS
    <3>3. n \in Nat
      BY <1>2, <2>1, <3>2
    <3>4. notices' = [notices EXCEPT ![p][c.msg] = n]
      BY <3>1, <3>2
    <3>5. N = {c.msg}
      BY <2>2
    <3> HIDE DEF N
    <3>6. /\ notices' \in [Peers -> [Messages -> Nat]]
          /\ notices'[p][c.msg] = n
          /\ \A r \in Peers : \A k \in Messages : r # p \/ k # c.msg => notices'[r][k] = notices[r][k]
      BY <1>2, <2>1, <3>3, <3>4, CountedOnce
    <3> QED
      BY <3>2, <3>5, <3>6
  <2> QED
    BY <1>4, <2>1, <2>2
<1>12. Histories'
  BY <1>1, <1>11, ForgetEffect DEF CachesInv, Histories
<1>13. Bounded'
  BY <1>1, <1>6, <1>7 DEF CachesInv, Bounded
<1>14. Placed'
  <2>1. OnePlace(invalid[p], valid[p], sent[p])
    BY DEF CachesInv, Placed
  <2>2. OnePlace(new, valid[p], sent[p])
    <3>1. CASE taken
      <4>1. OnePlace(invalid[p] \cup {c}, valid[p], sent[p])
        BY <1>8, <2>1, <3>1, OnePlaceMore
      <4> QED
        BY <1>6, <3>1, <4>1, OnePlaceLess
    <3>2. CASE ~taken
      BY <1>6, <2>1, <3>2, OnePlaceLess
    <3> QED
      BY <3>1, <3>2
  <2> QED
    BY <1>1, <1>7, <2>2 DEF CachesInv, Placed
<1>15. Known'
  <2>1. \A k \in Links : \A i \in 1..Len(net'[k]) : net'[k][i].msg \in announced
    <3> TAKE k \in Links
    <3>1. CASE k = l
      BY <1>1, <1>2, <3>1 DEF CachesInv, Known
    <3>2. CASE k # l
      BY <1>1, <3>2 DEF CachesInv, Known
    <3> QED
      BY <3>1, <3>2
  <2> QED
    <3>1. N \subseteq announced /\ announced' = announced
      BY <1>1, <1>3
    <3> HIDE DEF N
    <3>2. \A r \in Peers : Held(r) \subseteq announced
      BY DEF CachesInv, Known
    <3>3. \A r \in Peers : Held(r)' \subseteq announced
      BY <1>9, <1>10, <3>1, <3>2
    <3> QED
      BY <2>1, <3>1, <3>3 DEF Known
<1>16. Noticed'
  <2>1. \A r \in Peers : \A k \in Messages : r # p \/ k \notin N => NoticedAt(r, k)'
    <3>1. Histories /\ Noticed /\ NoteForgotten(p) /\ announced' = announced
      BY <1>1 DEF CachesInv
    <3> HIDE DEF N
    <3> QED
      BY <1>9, <1>10, <1>11, <3>1, NoticedElsewhere
  <2>2. taken => NoticedAt(p, c.msg)'
    <3> SUFFICES ASSUME taken PROVE NoticedAt(p, c.msg)'
      OBVIOUS
    <3>1. /\ forgotten[p][c.msg] \in Nat /\ notices[p][c.msg] \in Nat
          /\ forgotten'[p][c.msg] = forgotten[p][c.msg]
      <4>1. forgotten[p][c.msg] \in Nat /\ notices[p][c.msg] \in Nat
        BY SMTT(30), <1>2 DEF CachesInv, Histories
      <4> QED
        BY <1>1, <1>2, <1>9, <4>1, ForgetEffect DEF CachesInv
    <3>2. NoticedAt(p, c.msg)
      BY <1>2 DEF CachesInv, Noticed
    <3>3. announced' = announced /\ c.msg \in announced
      BY <1>1, <1>3
    <3>4. c.msg \notin Held(p) /\ c.msg \in Held(p)' /\ notices'[p][c.msg] = notices[p][c.msg] + 1
      BY <1>9, <1>11
    <3> QED
      BY <3>1, <3>2, <3>3, <3>4 DEF NoticedAt
  <2>3. ~taken => N = {}
    OBVIOUS
  <2>4. taken => N = {c.msg}
    OBVIOUS
  <2> HIDE DEF N
  <2> QED
    BY <2>1, <2>2, <2>3, <2>4 DEF Noticed
<1>17. Relayed'
  BY <1>1, RelayedAlone DEF CachesInv
<1> QED
  BY <1>12, <1>13, <1>14, <1>15, <1>16, <1>17 DEF CachesInv

LEMMA ValidateCaches ==
  ASSUME IInv, CachesInv, NEW p \in Peers, NEW m \in asked[p], NEW ok \in BOOLEAN,
         Validate(p, m, ok)
  PROVE  CachesInv'
<1>1. /\ batch[p] = {} /\ NoteForgotten(p)
      /\ UNCHANGED <<open, closed, net, batch, announced, notices, relays>>
  BY DEF Validate, linkVars, Idle
<1>2. \E A, B, C :
        /\ invalid' = [invalid EXCEPT ![p] = A]
        /\ valid' = [valid EXCEPT ![p] = B]
        /\ sent' = [sent EXCEPT ![p] = C]
        /\ Small(A) /\ Small(B) /\ Small(C)
        /\ OnePlace(A, B, C)
        /\ \A k : Has(A, k) \/ Has(B, k) \/ Has(C, k) => k \in Held(p)
        /\ \A k : Has(sent[p], k) /\ ~Has(C, k) => ~Has(A, k) /\ ~Has(B, k)
  <2>1. /\ invalid = [invalid EXCEPT ![p] = invalid[p]]
        /\ valid = [valid EXCEPT ![p] = valid[p]]
        /\ sent = [sent EXCEPT ![p] = sent[p]]
    BY DEF IInv, Types
  <2>2. OnePlace(invalid[p], valid[p], sent[p])
    BY DEF CachesInv, Placed
  <2>3. Small(invalid[p]) /\ Small(valid[p]) /\ Small(sent[p])
    BY DEF CachesInv, Bounded
  <2>4. CASE Find(invalid[p], m) = {}
    <3>1. UNCHANGED <<invalid, valid, sent>>
      BY <2>4 DEF Validate
    <3> WITNESS invalid[p], valid[p], sent[p]
    <3> QED
      BY <2>1, <2>2, <2>3, <3>1, HeldIsHas
  <2>5. CASE Find(invalid[p], m) # {}
    <3>1. PICK c \in Find(invalid[p], m) : StoreVerdict(p, c, ok)
      BY <2>5 DEF Validate
    <3>2. c \in invalid[p] /\ c \in Copies
      BY <3>1 DEF Find, IInv, Types
    <3> DEFINE A == invalid[p] \ {c}
    <3>3. invalid' = [invalid EXCEPT ![p] = A] /\ Small(A)
      BY <2>3, <3>1, SmallerIsSmall DEF StoreVerdict
    <3>4. Aged(c).msg = c.msg
      BY <3>2, AgedType
    <3>5. \A d \in invalid[p] : d.msg = c.msg => d = c
      BY <2>2, <3>2 DEF OnePlace, Single
    <3>6. ~Has(A, c.msg) /\ ~Has(valid[p], c.msg) /\ ~Has(sent[p], c.msg)
      BY <2>2, <3>2, <3>5 DEF OnePlace, Apart, Has
    <3>7. OnePlace(A, valid[p], sent[p])
      BY <2>2, OnePlaceLess
    <3>8. \A k : Has(A, k) \/ Has(valid[p], k) \/ Has(sent[p], k) => k \in Held(p)
      BY HeldIsHas DEF Has
    <3>9. c.msg \in Held(p)
      BY <3>2, HeldIsHas DEF Has
    <3> HIDE DEF A
    <3>10. CASE ~ok
      <4>1. UNCHANGED <<valid, sent>>
        BY <3>1, <3>10 DEF StoreVerdict
      <4> WITNESS A, valid[p], sent[p]
      <4> QED
        BY <2>1, <2>3, <3>3, <3>7, <3>8, <4>1
    <3>11. CASE ok /\ c.ttl = 1
      <4>1. UNCHANGED valid /\ InsertInto(sent, p, c)
        BY <3>1, <3>11 DEF StoreVerdict
      <4>2. PICK C \in Inserted(sent[p], c) : sent' = [sent EXCEPT ![p] = C]
        BY <4>1 DEF InsertInto
      <4>3. Small(C) /\ c \in C /\ C \subseteq sent[p] \cup {c}
        BY <2>3, <4>2, InsertedSmall, InsertedAdds
      <4>4. OnePlace(A, valid[p], C)
        BY <3>6, <3>7, <4>3, OnePlaceMore, OnePlaceLess
      <4>5. \A k : Has(C, k) => Has(sent[p], k) \/ k = c.msg
        BY <4>3 DEF Has
      <4>6. \A k : Has(sent[p], k) => ~Has(A, k) /\ ~Has(valid[p], k)
        BY <3>7 DEF OnePlace, Apart, Has
      <4> WITNESS A, valid[p], C
      <4> QED
        BY <2>1, <2>3, <3>3, <3>8, <3>9, <4>1, <4>2, <4>3, <4>4, <4>5, <4>6
    <3>12. CASE ok /\ c.ttl # 1
      <4>1. UNCHANGED sent /\ InsertInto(valid, p, Aged(c))
        BY <3>1, <3>12 DEF StoreVerdict
      <4>2. PICK B \in Inserted(valid[p], Aged(c)) : valid' = [valid EXCEPT ![p] = B]
        BY <4>1 DEF InsertInto
      <4>3. Small(B) /\ B \subseteq valid[p] \cup {Aged(c)}
        BY <2>3, <4>2, InsertedSmall, InsertedAdds
      <4>4. OnePlace(A, B, sent[p])
        BY ZenonT(30), <3>4, <3>6, <3>7, <4>3, OnePlaceMore, OnePlaceLess
      <4>5. \A k : Has(B, k) => Has(valid[p], k) \/ k = c.msg
        BY <3>4, <4>3 DEF Has
      <4> WITNESS A, B, sent[p]
      <4> QED
        BY <2>1, <2>3, <3>3, <3>8, <3>9, <4>1, <4>2, <4>3, <4>4, <4>5
    <3> QED
      BY <3>10, <3>11, <3>12
  <2> QED
    BY <2>4, <2>5
<1>3. PICK A, B, C :
        /\ invalid' = [invalid EXCEPT ![p] = A]
        /\ valid' = [valid EXCEPT ![p] = B]
        /\ sent' = [sent EXCEPT ![p] = C]
        /\ Small(A) /\ Small(B) /\ Small(C)
        /\ OnePlace(A, B, C)
        /\ \A k : Has(A, k) \/ Has(B, k) \/ Has(C, k) => k \in Held(p)
        /\ \A k : Has(sent[p], k) /\ ~Has(C, k) => ~Has(A, k) /\ ~Has(B, k)
  BY <1>2
<1>4. /\ invalid'[p] = A /\ valid'[p] = B /\ sent'[p] = C
      /\ \A q \in Peers : q # p =>
           invalid'[q] = invalid[q] /\ valid'[q] = valid[q] /\ sent'[q] = sent[q]
  BY <1>3 DEF IInv, Types
<1>5. /\ \A q \in Peers : q # p => Held(q)' = Held(q)
      /\ \A k : k \in Held(p)' <=> Has(A, k) \/ Has(B, k) \/ Has(C, k)
      /\ Held(p)' \subseteq Held(p)
  <2>1. \A q \in Peers : q # p => Held(q)' = Held(q)
    BY <1>4 DEF Held
  <2>2. \A k : k \in Held(p)' <=> Has(A, k) \/ Has(B, k) \/ Has(C, k)
    BY <1>4 DEF Held, Has
  <2> QED
    BY <1>3, <2>1, <2>2
<1>6. Histories'
  BY <1>1, ForgetEffect DEF CachesInv, Histories
<1>7. Bounded'
  BY <1>3, <1>4 DEF CachesInv, Bounded
<1>8. Placed'
  BY <1>1, <1>3, <1>4 DEF CachesInv, Placed
<1>9. Known'
  BY <1>1, <1>5 DEF CachesInv, Known
<1>10. Noticed'
  <2>1. Histories /\ Noticed /\ NoteForgotten(p) /\ announced' = announced /\ notices' = notices
    BY <1>1 DEF CachesInv
  <2>2. PICK N : N = {}
    OBVIOUS
  <2>3. Held(p)' \subseteq Held(p) \cup N
    BY <1>5
  <2>4. \A q \in Peers : \A k \in Messages : q # p \/ k \notin N => NoticedAt(q, k)'
    BY <1>5, <2>1, <2>3, NoticedElsewhere
  <2> QED
    BY <2>2, <2>4 DEF Noticed
<1>11. Relayed'
  <2>1. Histories /\ Relayed /\ NoteForgotten(p) /\ relays' = relays
    BY <1>1 DEF CachesInv
  <2>2. \A k \in Messages : Has(sent[p], k) /\ ~Has(sent'[p], k) => k \in Held(p) /\ k \notin Held(p)'
    BY <1>3, <1>4, <1>5, HeldIsHas
  <2>3. /\ relays' \in [Peers -> [Messages -> Nat]]
        /\ \A q \in Peers : \A k \in Messages :
             relays'[q][k] <= relays[q][k] + (IF Has(sent'[q], k) /\ ~Has(sent[q], k) THEN 1 ELSE 0)
    BY <2>1 DEF Histories
  <2> QED
    BY <1>4, <2>1, <2>2, <2>3, RelayedKept
<1> QED
  BY <1>6, <1>7, <1>8, <1>9, <1>10, <1>11 DEF CachesInv

LEMMA RelayCaches ==
  ASSUME IInv, CachesInv, NEW p \in Peers, NEW c \in batch[p], Relay(p, c)
  PROVE  CachesInv'
<1>1. /\ batch' = [batch EXCEPT ![p] = @ \ {c}]
      /\ valid' = [valid EXCEPT ![p] = @ \ {c}]
      /\ \E new \in Inserted(sent[p], c) : sent' = [sent EXCEPT ![p] = new]
      /\ NoteForgotten(p)
      /\ UNCHANGED <<open, closed, invalid, asked, announced, endorsed, notices>>
  BY DEF Relay, InsertInto, linkVars
<1>2. c \in valid[p] /\ c \in Copies /\ c.msg \in Messages
  BY DEF CachesInv, Placed, IInv, Types, Copies
<1>3. PICK C \in Inserted(sent[p], c) : sent' = [sent EXCEPT ![p] = C]
  BY <1>1
<1>4. Small(C) /\ c \in C /\ C \subseteq sent[p] \cup {c}
  BY <1>3, InsertedSmall, InsertedAdds DEF CachesInv, Bounded
<1>5. /\ sent'[p] = C /\ valid'[p] = valid[p] \ {c} /\ batch'[p] = batch[p] \ {c}
      /\ \A q \in Peers : q # p =>
           sent'[q] = sent[q] /\ valid'[q] = valid[q] /\ batch'[q] = batch[q]
  BY <1>1, <1>3 DEF IInv, Types
<1>6. OnePlace(invalid[p], valid[p], sent[p])
  BY DEF CachesInv, Placed
<1>7. /\ ~Has(sent[p], c.msg) /\ ~Has(invalid[p], c.msg) /\ ~Has(valid[p] \ {c}, c.msg)
      /\ Has(C, c.msg) /\ \A k : Has(C, k) => Has(sent[p], k) \/ k = c.msg
      /\ \A k : Has(sent[p], k) => ~Has(invalid[p], k) /\ ~Has(valid[p], k)
  BY <1>2, <1>4, <1>6 DEF OnePlace, Single, Apart, Has
<1>8. OnePlace(invalid[p], valid[p] \ {c}, C)
  <2>1. OnePlace(invalid[p], valid[p] \ {c}, sent[p])
    BY <1>6, OnePlaceLess
  <2>2. OnePlace(invalid[p], valid[p] \ {c}, sent[p] \cup {c})
    BY <1>7, <2>1, OnePlaceMore
  <2> QED
    BY <1>4, <2>2, OnePlaceLess
<1>9. /\ \A q \in Peers : q # p => Held(q)' = Held(q)
      /\ \A k : k \in Held(p)' <=> Has(invalid[p], k) \/ Has(valid[p] \ {c}, k) \/ Has(C, k)
  <2>1. \A q \in Peers : q # p => Held(q)' = Held(q)
    BY <1>1, <1>5 DEF Held
  <2>2. \A k : k \in Held(p)' <=> Has(invalid[p], k) \/ Has(valid[p] \ {c}, k) \/ Has(C, k)
    BY <1>1, <1>5 DEF Held, Has
  <2> QED
    BY <2>1, <2>2
<1>10. Held(p)' \subseteq Held(p) /\ c.msg \in Held(p)
  <2>1. c.msg \in Held(p)
    BY <1>2, HeldIsHas DEF Has
  <2>2. \A k : Has(valid[p] \ {c}, k) => Has(valid[p], k)
    BY DEF Has
  <2> QED
    BY <1>7, <1>9, <2>1, <2>2, HeldIsHas
<1>11. PICK S \in Receivers(p) :
         /\ net' = [l \in Links |-> IF l[1] = p /\ l[2] \in S
                                    THEN Append(net[l], [c EXCEPT !.hops = @ + 1])
                                    ELSE net[l]]
         /\ relays' = [relays EXCEPT ![p][c.msg] = IF S = {} THEN @ ELSE @ + 1]
  BY DEF Relay
<1>12. /\ relays' \in [Peers -> [Messages -> Nat]]
       /\ relays'[p][c.msg] <= relays[p][c.msg] + 1
       /\ \A q \in Peers : \A k \in Messages : q # p \/ k # c.msg => relays'[q][k] = relays[q][k]
  <2>1. relays \in [Peers -> [Messages -> Nat]]
    BY DEF CachesInv, Histories
  <2>2. PICK n : n = IF S = {} THEN relays[p][c.msg] ELSE relays[p][c.msg] + 1
    OBVIOUS
  <2>3. n \in Nat /\ n <= relays[p][c.msg] + 1
    BY <1>2, <2>1, <2>2
  <2>4. relays' = [relays EXCEPT ![p][c.msg] = n]
    BY <1>11, <2>2
  <2> QED
    BY <1>2, <2>1, <2>3, <2>4, CountedOnce
<1>13. Histories'
  BY <1>1, <1>12, ForgetEffect DEF CachesInv, Histories
<1>14. Bounded'
  <2>1. Small(valid[p] \ {c})
    BY SmallerIsSmall DEF CachesInv, Bounded
  <2> QED
    BY <1>1, <1>4, <1>5, <2>1 DEF CachesInv, Bounded
<1>15. Placed'
  BY <1>1, <1>5, <1>8 DEF CachesInv, Placed
<1>16. Known'
  <2>1. ASSUME NEW l \in Links, NEW i \in 1..Len(net'[l])
        PROVE  net'[l][i].msg \in announced
    <3>1. net[l] \in Seq(Copies)
      BY DEF IInv, Types
    <3>2. \A j \in 1..Len(net[l]) : net[l][j].msg \in announced
      BY DEF CachesInv, Known
    <3>3. c.msg \in announced
      BY <1>10 DEF CachesInv, Known
    <3> DEFINE d == [c EXCEPT !.hops = @ + 1]
    <3>4. d.msg = c.msg /\ d \in Copies
      BY SMTT(30), <1>2 DEF Copies
    <3>5. net'[l] \in {net[l], Append(net[l], d)}
      BY <1>11
    <3> HIDE DEF d
    <3>6. CASE net'[l] = net[l]
      BY <2>1, <3>2, <3>6
    <3>7. CASE net'[l] = Append(net[l], d)
      BY <2>1, <3>1, <3>2, <3>3, <3>4, <3>7
    <3> QED
      BY <3>5, <3>6, <3>7
  <2> QED
    BY <1>1, <1>9, <1>10, <2>1 DEF CachesInv, Known
<1>17. Noticed'
  <2>1. Histories /\ Noticed /\ NoteForgotten(p) /\ announced' = announced /\ notices' = notices
    BY <1>1 DEF CachesInv
  <2>2. PICK N : N = {}
    OBVIOUS
  <2>3. Held(p)' \subseteq Held(p) \cup N
    BY <1>10
  <2>4. \A q \in Peers : \A k \in Messages : q # p \/ k \notin N => NoticedAt(q, k)'
    BY <1>9, <2>1, <2>3, NoticedElsewhere
  <2> QED
    BY <2>2, <2>4 DEF Noticed
<1>18. Relayed'
  <2>1. Histories /\ Relayed /\ NoteForgotten(p)
    BY <1>1 DEF CachesInv
  <2>2. \A k \in Messages : Has(sent[p], k) /\ ~Has(sent'[p], k) => k \in Held(p) /\ k \notin Held(p)'
    <3>1. \A k : Has(valid[p] \ {c}, k) => Has(valid[p], k)
      BY DEF Has
    <3> QED
      BY <1>5, <1>7, <1>9, <3>1, HeldIsHas
  <2>3. \A q \in Peers : \A k \in Messages :
          relays'[q][k] <= relays[q][k] + (IF Has(sent'[q], k) /\ ~Has(sent[q], k) THEN 1 ELSE 0)
    <3> TAKE q \in Peers
    <3> TAKE k \in Messages
    <3>1. relays[q][k] \in Nat
      BY DEF CachesInv, Histories
    <3>2. CASE q = p /\ k = c.msg
      BY <1>5, <1>7, <1>12, <3>1, <3>2
    <3>3. CASE ~(q = p /\ k = c.msg)
      BY <1>12, <3>1, <3>3
    <3> QED
      BY <3>2, <3>3
  <2> QED
    BY <1>5, <1>12, <2>1, <2>2, <2>3, RelayedKept
<1> QED
  BY <1>13, <1>14, <1>15, <1>16, <1>17, <1>18 DEF CachesInv

\* The ticker, and what becomes of the connections: no cache changes.
LEMMA FrameCaches ==
  ASSUME CachesInv, UNCHANGED <<net, invalid, valid, sent, announced, notices, relays, forgotten>>,
         closed' \subseteq Links,
         \A p \in Peers : batch'[p] \subseteq valid[p]
  PROVE  CachesInv'
<1>1. Histories' /\ Bounded' /\ Placed'
  BY DEF CachesInv, Histories, Bounded, Placed
<1>2. \A p : Held(p)' = Held(p)
  BY DEF Held
<1>3. Known'
  BY <1>2 DEF CachesInv, Known
<1>4. Noticed'
  BY <1>2 DEF CachesInv, Noticed, NoticedAt
<1>5. Relayed'
  BY DEF CachesInv, Relayed, RelayedAt
<1> QED
  BY <1>1, <1>3, <1>4, <1>5 DEF CachesInv

LEMMA InitCaches == Init => CachesInv
<1> SUFFICES ASSUME Init PROVE CachesInv
  OBVIOUS
<1>1. Histories
  BY DEF Init, Histories
<1>2. Bounded
  <2>1. Small({})
    BY FS_EmptySet DEF Small
  <2> QED
    BY <2>1 DEF Init, Bounded
<1>3. Placed
  BY DEF Init, Placed, OnePlace, Single, Apart
<1>4. \A p \in Peers : Held(p) = {}
  BY DEF Init, Held
<1>5. Known
  BY <1>4 DEF Init, Known
<1>6. Noticed
  BY <1>4 DEF Init, Noticed, NoticedAt
<1>7. Relayed
  BY DEF Init, Relayed, RelayedAt, Has
<1> QED
  BY <1>1, <1>2, <1>3, <1>5, <1>6, <1>7 DEF CachesInv

LEMMA NextCaches == IInv /\ CachesInv /\ [Next]_vars => CachesInv'
<1> SUFFICES ASSUME IInv, CachesInv, [Next]_vars PROVE CachesInv'
  OBVIOUS
<1>1. ASSUME NEW m \in Messages, Announce(m) PROVE CachesInv'
  BY <1>1, AnnounceCaches
<1>2. ASSUME NEW p \in Peers, NEW q \in Peers, <<p, q>> \in Links, Receive(p, q) PROVE CachesInv'
  BY <1>2, ReceiveCaches
<1>3. ASSUME NEW p \in Peers, NEW q \in Peers, Open(p, q) PROVE CachesInv'
  BY <1>3, FrameCaches DEF Open, CachesInv, Histories, Placed
<1>4. ASSUME NEW p \in Peers, NEW q \in Peers, <<p, q>> \in Links, Close(p, q) PROVE CachesInv'
  BY <1>4, FrameCaches DEF Close, CachesInv, Histories, Placed
<1>5. ASSUME NEW p \in Peers, NEW m \in asked[p], NEW ok \in Verdicts, Validate(p, m, ok)
      PROVE  CachesInv'
  BY <1>5, ValidateCaches
<1>6. ASSUME NEW p \in Peers, Tick(p) PROVE CachesInv'
  <2>1. \A q \in Peers : batch'[q] \subseteq valid[q]
    BY <1>6 DEF Tick, CachesInv, Placed, IInv, Types
  <2>2. /\ UNCHANGED <<net, invalid, valid, sent, announced, notices, relays, forgotten>>
        /\ closed' \subseteq Links
    BY <1>6 DEF Tick, linkVars, CachesInv, Histories
  <2> QED
    BY <2>1, <2>2, FrameCaches
<1>7. ASSUME NEW p \in Peers, NEW c \in batch[p], Relay(p, c) PROVE CachesInv'
  BY <1>7, RelayCaches
<1>8. CASE UNCHANGED vars
  BY <1>8, FrameCaches DEF vars, CachesInv, Histories, Placed
<1> QED
  BY <1>1, <1>2, <1>3, <1>4, <1>5, <1>6, <1>7, <1>8 DEF Next

LEMMA CachesInvariance == Spec => []CachesInv
BY GossipInvariance, InitCaches, NextCaches, PTL DEF Spec

\* The variables have their types: in particular no cache ever has more than Capacity
\* messages, whatever is announced, pushed to the peer or judged in whichever order.
THEOREM GossipTypeCorrect == Spec => []TypeOK
<1>1. IInv /\ CachesInv => TypeOK
  BY DEF IInv, Types, CachesInv, Histories, Bounded, Small, TypeOK
<1> QED
  BY <1>1, GossipInvariance, CachesInvariance, PTL

\* A message has one place among the caches of a peer, although an insertion checks
\* nothing: a message is taken in only when no cache has it, and moved only out of one.
THEOREM PlacedOnce == Spec => []OneCache
<1>1. CachesInv => OneCache
  <2> SUFFICES ASSUME CachesInv, NEW p \in Peers, NEW m \in Messages
               PROVE  Cardinality(Find(invalid[p], m)) + Cardinality(Find(valid[p], m))
                        + Cardinality(Find(sent[p], m)) <= 1
    BY DEF OneCache
  <2>1. OnePlace(invalid[p], valid[p], sent[p])
    BY DEF CachesInv, Placed
  <2>2. ASSUME NEW S, Single(S)
        PROVE  Cardinality(Find(S, m)) = IF Has(S, m) THEN 1 ELSE 0
    <3>1. CASE Has(S, m)
      <4>1. PICK c \in S : c.msg = m
        BY <3>1 DEF Has
      <4>2. Find(S, m) = {c}
        BY <2>2, <4>1 DEF Single, Find
      <4> QED
        BY <3>1, <4>2, FS_Singleton
    <3>2. CASE ~Has(S, m)
      <4>1. Find(S, m) = {}
        BY <3>2 DEF Has, Find
      <4> QED
        BY <3>2, <4>1, FS_EmptySet
    <3> QED
      BY <3>1, <3>2
  <2>3. /\ Cardinality(Find(invalid[p], m)) = IF Has(invalid[p], m) THEN 1 ELSE 0
        /\ Cardinality(Find(valid[p], m)) = IF Has(valid[p], m) THEN 1 ELSE 0
        /\ Cardinality(Find(sent[p], m)) = IF Has(sent[p], m) THEN 1 ELSE 0
    BY <2>1, <2>2 DEF OnePlace
  <2>4. /\ ~(Has(invalid[p], m) /\ Has(valid[p], m))
        /\ ~(Has(invalid[p], m) /\ Has(sent[p], m))
        /\ ~(Has(valid[p], m) /\ Has(sent[p], m))
    BY <2>1 DEF OnePlace, Apart, Has
  <2> QED
    BY <2>3, <2>4
<1> QED
  BY <1>1, CachesInvariance, PTL

\* An application is notified of a message at most once more than its peer forgot it,
\* and of its own message at most that often: whatever paths the copies take, and
\* whenever the caches overflow, no loop of pushes notifies it again.
THEOREM NoticesBounded == Spec => []NotifiedOnce
<1>1. CachesInv => NotifiedOnce
  <2> SUFFICES ASSUME CachesInv, NEW p \in Peers, NEW m \in Messages
               PROVE  notices[p][m] <= forgotten[p][m] + (IF p = Origin[m] THEN 0 ELSE 1)
    BY DEF NotifiedOnce
  <2>1. NoticedAt(p, m) /\ notices[p][m] \in Nat /\ forgotten[p][m] \in Nat
    BY DEF CachesInv, Noticed, Histories
  <2> QED
    BY <2>1 DEF NoticedAt
<1> QED
  BY <1>1, CachesInvariance, PTL

\* A peer relays a message at most once more than it forgot it: after a round the
\* message is among the sent ones, where nothing makes it valid again.
THEOREM RelaysBounded == Spec => []RelayedOnce
<1>1. CachesInv => RelayedOnce
  <2> SUFFICES ASSUME CachesInv, NEW p \in Peers, NEW m \in Messages
               PROVE  relays[p][m] <= forgotten[p][m] + 1
    BY DEF RelayedOnce
  <2>1. RelayedAt(p, m) /\ relays[p][m] \in Nat /\ forgotten[p][m] \in Nat
    BY DEF CachesInv, Relayed, Histories
  <2> QED
    BY <2>1 DEF RelayedAt
<1> QED
  BY <1>1, CachesInvariance, PTL

-----------------------------------------------------------------------------
(* The messages that wait to be relayed. *)

\* What WaitsForRelay says of one message of one peer.
Waits(p, m) ==
  Find(valid[p], m) # {} /\ Find(valid[p], m)' = {} =>
    \/ relays'[p][m] = relays[p][m] + 1
    \/ {} \in Receivers(p) /\ Find(sent[p], m)' # {}
    \/ Cardinality(valid[p]) = Capacity

\* An insertion takes a message from those that wait only when they are too many.
LEMMA InsertedWaits ==
  ASSUME IInv, CachesInv, NEW q \in Peers, NEW c, InsertInto(valid, q, c),
         NEW p \in Peers, NEW m \in Messages
  PROVE  Waits(p, m)
<1>1. PICK new \in Inserted(valid[q], c) : valid' = [valid EXCEPT ![q] = new]
  BY DEF InsertInto
<1>2. valid'[p] = IF p = q THEN new ELSE valid[p]
  BY <1>1 DEF IInv, Types
<1>3. CASE p = q /\ Cardinality(valid[p]) < Capacity
  <2>1. valid[p] \subseteq valid'[p]
    BY <1>1, <1>2, <1>3 DEF Inserted
  <2> QED
    BY <2>1 DEF Waits, Find
<1>4. CASE ~(Cardinality(valid[p]) < Capacity)
  <2>1. Cardinality(valid[p]) \in Nat /\ Cardinality(valid[p]) <= Capacity
    BY FS_CardinalityType DEF CachesInv, Bounded, Small
  <2> QED
    BY <1>4, <2>1 DEF Waits
<1>5. CASE p # q
  BY <1>2, <1>5 DEF Waits, Find
<1> QED
  BY <1>3, <1>4, <1>5

\* The message that a round takes from those that wait was pushed, or is among the
\* sent ones because there was nobody to push it to.
LEMMA RelayWaits ==
  ASSUME IInv, CachesInv, NEW q \in Peers, NEW c \in batch[q], Relay(q, c),
         NEW p \in Peers, NEW m \in Messages
  PROVE  Waits(p, m)
<1>1. PICK S \in Receivers(q) :
        relays' = [relays EXCEPT ![q][c.msg] = IF S = {} THEN @ ELSE @ + 1]
  BY DEF Relay
<1>2. valid' = [valid EXCEPT ![q] = @ \ {c}] /\ InsertInto(sent, q, c)
  BY DEF Relay
<1>3. valid'[p] = IF p = q THEN valid[p] \ {c} ELSE valid[p]
  BY <1>2 DEF IInv, Types
<1>4. c \in sent'[q]
  <2>1. PICK new \in Inserted(sent[q], c) : sent' = [sent EXCEPT ![q] = new]
    BY <1>2 DEF InsertInto
  <2>2. c \in new
    BY <2>1, InsertedSmall DEF CachesInv, Bounded
  <2> QED
    BY <2>1, <2>2 DEF IInv, Types
<1>5. CASE p = q /\ m = c.msg
  <2>1. CASE S = {}
    BY <1>1, <1>4, <1>5, <2>1 DEF Waits, Find
  <2>2. CASE S # {}
    <3>1. relays' = [relays EXCEPT ![q][c.msg] = @ + 1]
      BY <1>1, <2>2
    <3>2. relays'[p][m] = relays[p][m] + 1
      BY <1>5, <3>1 DEF CachesInv, Histories
    <3> QED
      BY <3>2 DEF Waits
  <2> QED
    BY <2>1, <2>2
<1>6. CASE p # q \/ m # c.msg
  BY <1>3, <1>6 DEF Waits, Find
<1> QED
  BY <1>5, <1>6

\* A message that waits to be relayed goes on waiting until it is relayed to somebody,
\* in every order of verdicts, announcements and rounds; the exceptions are a round
\* without an open connection and a cache that is full.
THEOREM WaitingIsKept == Spec => WaitsForRelay
<1>1. ASSUME IInv, CachesInv, [Next]_vars, NEW p \in Peers, NEW m \in Messages
      PROVE  Waits(p, m)
  <2>1. CASE UNCHANGED valid
    BY <2>1 DEF Waits, Find
  <2>2. ASSUME NEW k \in Messages, Announce(k) PROVE Waits(p, m)
    <3>1. Origin[k] \in Peers /\ \E c : InsertInto(valid, Origin[k], c)
      BY <2>2 DEF Announce
    <3> QED
      BY <1>1, <3>1, InsertedWaits
  <2>3. ASSUME NEW q \in Peers, NEW k \in asked[q], NEW ok \in Verdicts, Validate(q, k, ok)
        PROVE  Waits(p, m)
    <3>1. UNCHANGED valid \/ \E c : InsertInto(valid, q, c)
      BY <2>3 DEF Validate, StoreVerdict
    <3> QED
      BY <1>1, <2>1, <3>1, InsertedWaits
  <2>4. ASSUME NEW q \in Peers, NEW c \in batch[q], Relay(q, c) PROVE Waits(p, m)
    BY <1>1, <2>4, RelayWaits
  <2>5. ASSUME NEW q \in Peers, NEW r \in Peers, Receive(q, r) \/ Open(q, r) \/ Close(q, r)
        PROVE  Waits(p, m)
    BY <2>1, <2>5 DEF Receive, Open, Close
  <2>6. ASSUME NEW q \in Peers, Tick(q) PROVE Waits(p, m)
    BY <2>1, <2>6 DEF Tick
  <2>7. CASE UNCHANGED vars
    BY <2>1, <2>7 DEF vars
  <2> QED
    BY <1>1, <2>2, <2>3, <2>4, <2>5, <2>6, <2>7 DEF Next
<1>2. IInv /\ CachesInv /\ [Next]_vars =>
        [\A p \in Peers, m \in Messages : Waits(p, m)]_vars
  BY <1>1
<1>3. [][\A p \in Peers, m \in Messages : Waits(p, m)]_vars => WaitsForRelay
  BY PTL DEF WaitsForRelay, Waits
<1> QED
  BY <1>2, <1>3, GossipInvariance, CachesInvariance, PTL DEF Spec

=============================================================================
