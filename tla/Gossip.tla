------------------------------- MODULE Gossip -------------------------------
(***************************************************************************)
(* The spreading of messages by the push strategy: the three caches of     *)
(* every peer, the pushes between peers, and the verdicts of the           *)
(* applications on what they are notified of.                              *)
(*                                                                         *)
(* A copy of a message carries its time to live, a uint8, and, which the   *)
(* code does not, the number of hops it made.  A message is found in the   *)
(* caches by its id; ids are drawn at random and are taken to differ.  A   *)
(* cache is a set that gives up any value when it is full, which is what   *)
(* module Ringbuffer is shown to be.  The application stands for the main  *)
(* module, the vertical API and the registered modules, of which each      *)
(* answers a notification at most once, as late as it likes, true or false *)
(* (false also stands for the answer of main when no module is there).     *)
(*                                                                         *)
(* A connection is open at a peer when it is valid in its manager; that    *)
(* the loop then never waits for a writer in vain is shown in Handshake.   *)
(***************************************************************************)
EXTENDS Integers, Sequences, FiniteSets

CONSTANTS
  Peers,
  Links,        \* <<p, q>>: p and q have a connection; each in both directions
  Established,  \* the links that are open from the start
  Messages,
  Origin,       \* the peer at which a message is announced
  TtlOf,        \* the time to live it is announced with
  TtlModulus,   \* 256 in the code
  Degree, Capacity,
  Verdicts,     \* what applications answer: TRUE, FALSE, or either
  MaxClosed     \* bound: connections that are dropped

ASSUME GossipAssumption ==
  /\ Links \subseteq Peers \X Peers
  /\ \A p, q \in Peers : <<p, q>> \in Links => <<q, p>> \in Links
  /\ Established \subseteq Links
  /\ Origin \in [Messages -> Peers]
  /\ TtlModulus \in Nat \ {0}
  /\ TtlOf \in [Messages -> 0..(TtlModulus - 1)]
  /\ Verdicts \subseteq BOOLEAN
  /\ Degree \in Nat /\ MaxClosed \in Nat
  /\ Capacity \in Nat \ {0, 1}

VARIABLES
  open,       \* links whose first peer has the second among its valid connections
  closed,     \* links whose first peer dropped the connection
  net,        \* net[<<p, q>>]: pushes of p that q's loop has not taken yet, in order
  invalid, valid, sent,   \* the caches
  batch,      \* copies the gossip ticker of a peer has still to relay
  asked,      \* messages some module of a peer has still to give a verdict on
  announced,  \* messages that were announced
  endorsed,   \* history: messages a peer announced or its application found valid
  notices,    \* history: how often the application of a peer was notified
  relays,     \* history: how often a peer relayed a message to somebody
  forgotten   \* history: how often a message left the caches of a peer

vars == <<open, closed, net, invalid, valid, sent, batch, asked, announced,
          endorsed, notices, relays, forgotten>>

Copies == [msg : Messages, ttl : 0..(TtlModulus - 1), hops : Nat]

TypeOK ==
  /\ open \subseteq Links /\ closed \subseteq Links
  /\ net \in [Links -> Seq(Copies)]
  /\ {invalid, valid, sent, batch} \subseteq [Peers -> SUBSET Copies]
  /\ {asked, endorsed} \subseteq [Peers -> SUBSET Messages]
  /\ announced \subseteq Messages
  /\ {notices, relays, forgotten} \subseteq [Peers -> [Messages -> Nat]]
  /\ \A p \in Peers : \A cache \in {invalid[p], valid[p], sent[p]} :
       Cardinality(cache) <= Capacity

Init ==
  /\ open = Established
  /\ closed = {}
  /\ net = [l \in Links |-> <<>>]
  /\ invalid = [p \in Peers |-> {}]
  /\ valid = [p \in Peers |-> {}]
  /\ sent = [p \in Peers |-> {}]
  /\ batch = [p \in Peers |-> {}]
  /\ asked = [p \in Peers |-> {}]
  /\ announced = {}
  /\ endorsed = [p \in Peers |-> {}]
  /\ notices = [p \in Peers |-> [m \in Messages |-> 0]]
  /\ relays = [p \in Peers |-> [m \in Messages |-> 0]]
  /\ forgotten = [p \in Peers |-> [m \in Messages |-> 0]]

-----------------------------------------------------------------------------

\* Fault: nothing is overwritten.
InsertedUnbounded(cache, c) == {cache \cup {c}}

\* Fault: the cache is taken to be full one message too early.
InsertedEarly(cache, c) ==
  IF Cardinality(cache) + 1 < Capacity
  THEN {cache \cup {c}}
  ELSE {(cache \ {old}) \cup {c} : old \in cache}

\* What a cache can be after the insertion of c.
Inserted(cache, c) ==
  IF Cardinality(cache) < Capacity
  THEN {cache \cup {c}}
  ELSE {(cache \ {old}) \cup {c} : old \in cache}

InsertInto(caches, p, c) == \E new \in Inserted(caches[p], c) : caches' = [caches EXCEPT ![p] = new]

Find(cache, m) == {c \in cache : c.msg = m}

\* The messages some cache of p has.
Held(p) == {c.msg : c \in invalid[p] \cup valid[p] \cup sent[p]}

\* A message leaves the caches of p by this step.
NoteForgotten(p) ==
  forgotten' = [forgotten EXCEPT ![p] =
    [m \in Messages |-> IF m \in Held(p) \ Held(p)' THEN @[m] + 1 ELSE @[m]]]

\* The loop of p is in its select, and not in the case of the gossip ticker.
Idle(p) == batch[p] = {}

linkVars == <<open, closed>>

-----------------------------------------------------------------------------
(* The handlers of the loop. *)

Announce(m) ==
  LET p == Origin[m]
  IN  /\ Idle(p)
      /\ m \notin announced
      /\ InsertInto(valid, p, [msg |-> m, ttl |-> TtlOf[m], hops |-> 0])
      /\ announced' = announced \cup {m}
      /\ endorsed' = [endorsed EXCEPT ![p] = @ \cup {m}]
      /\ UNCHANGED <<linkVars, net, invalid, sent, batch, asked, notices, relays>>
      /\ NoteForgotten(p)

\* Fault: the cache of sent messages is not looked at.
ReceiveSentAgain(q, p) ==
  /\ Idle(p)
  /\ net[<<q, p>>] # <<>>
  /\ net' = [net EXCEPT ![<<q, p>>] = Tail(@)]
  /\ LET c == Head(net[<<q, p>>])
     IN  IF <<p, q>> \in open /\ Find(invalid[p] \cup valid[p], c.msg) = {}
         THEN /\ InsertInto(invalid, p, c)
              /\ asked' = [asked EXCEPT ![p] = @ \cup {c.msg}]
              /\ notices' = [notices EXCEPT ![p][c.msg] = @ + 1]
         ELSE UNCHANGED <<invalid, asked, notices>>
  /\ UNCHANGED <<linkVars, valid, sent, batch, announced, endorsed, relays>>
  /\ NoteForgotten(p)

\* A push of q; unless p has not (or no longer) q among its valid connections or
\* has the message, the message is stored and the application notified.
Receive(q, p) ==
  /\ Idle(p)
  /\ net[<<q, p>>] # <<>>
  /\ net' = [net EXCEPT ![<<q, p>>] = Tail(@)]
  /\ LET c == Head(net[<<q, p>>])
     IN  IF <<p, q>> \in open /\ c.msg \notin Held(p)
         THEN /\ InsertInto(invalid, p, c)
              /\ asked' = [asked EXCEPT ![p] = @ \cup {c.msg}]
              /\ notices' = [notices EXCEPT ![p][c.msg] = @ + 1]
         ELSE UNCHANGED <<invalid, asked, notices>>
  /\ UNCHANGED <<linkVars, valid, sent, batch, announced, endorsed, relays>>
  /\ NoteForgotten(p)

\* max(TTL-1, 0) of a uint8 is TTL-1, also of 0.
Aged(c) == [c EXCEPT !.ttl = (@ - 1) % TtlModulus]

\* Fault: the validated message is not taken out of the invalid ones.
StoreVerdictCopied(p, c, ok) ==
  /\ UNCHANGED invalid
  /\ IF ~ok THEN UNCHANGED <<valid, sent>>
     ELSE IF c.ttl = 1 THEN InsertInto(sent, p, c) /\ UNCHANGED valid
     ELSE InsertInto(valid, p, Aged(c)) /\ UNCHANGED sent

\* Fault: the verdict is not looked at.
StoreVerdictAlwaysValid(p, c, ok) ==
  /\ invalid' = [invalid EXCEPT ![p] = @ \ {c}]
  /\ IF c.ttl = 1 THEN InsertInto(sent, p, c) /\ UNCHANGED valid
     ELSE InsertInto(valid, p, Aged(c)) /\ UNCHANGED sent

\* Fault: the time to live is not compared with 1.
StoreVerdictNoLimit(p, c, ok) ==
  /\ invalid' = [invalid EXCEPT ![p] = @ \ {c}]
  /\ IF ok THEN InsertInto(valid, p, Aged(c)) ELSE UNCHANGED valid
  /\ UNCHANGED sent

\* Fault: the last but one hop is taken for the last.
StoreVerdictEarly(p, c, ok) ==
  /\ invalid' = [invalid EXCEPT ![p] = @ \ {c}]
  /\ IF ~ok THEN UNCHANGED <<valid, sent>>
     ELSE IF c.ttl <= 2 THEN InsertInto(sent, p, c) /\ UNCHANGED valid
     ELSE InsertInto(valid, p, Aged(c)) /\ UNCHANGED sent

\* What becomes of a copy among the invalid ones when its verdict arrives: it is
\* deleted, or kept as sent if this was its last hop, or to be relayed.
StoreVerdict(p, c, ok) ==
  /\ invalid' = [invalid EXCEPT ![p] = @ \ {c}]
  /\ IF ~ok THEN UNCHANGED <<valid, sent>>
     ELSE IF c.ttl = 1 THEN InsertInto(sent, p, c) /\ UNCHANGED valid
     ELSE InsertInto(valid, p, Aged(c)) /\ UNCHANGED sent

\* A module of p, the last one to answer or not, says whether m is valid; m may be
\* gone by then.
Validate(p, m, ok) ==
  /\ Idle(p)
  /\ m \in asked[p]
  /\ asked' \in {asked, [asked EXCEPT ![p] = @ \ {m}]}
  /\ endorsed' = [endorsed EXCEPT ![p] = IF ok THEN @ \cup {m} ELSE @]
  /\ IF Find(invalid[p], m) # {}
     THEN \E c \in Find(invalid[p], m) : StoreVerdict(p, c, ok)
     ELSE UNCHANGED <<invalid, valid, sent>>
  /\ UNCHANGED <<linkVars, net, batch, announced, notices, relays>>
  /\ NoteForgotten(p)

\* The gossip ticker extracts the valid messages.
Tick(p) ==
  /\ Idle(p)
  /\ valid[p] # {}
  /\ batch' = [batch EXCEPT ![p] = valid[p]]
  /\ UNCHANGED <<linkVars, net, invalid, valid, sent, asked, announced,
                 endorsed, notices, relays, forgotten>>

\* The choices of min(Degree, number of open connections) peers to push to.
Receivers(p) ==
  LET neighbours == {q \in Peers : <<p, q>> \in open}
  IN  {S \in SUBSET neighbours :
         \/ Cardinality(S) = Degree
         \/ Cardinality(S) < Degree /\ S = neighbours}

\* Fault: a message that was relayed stays among the valid ones.
RelayKeepsValid(p, c) ==
  /\ c \in batch[p]
  /\ batch' = [batch EXCEPT ![p] = @ \ {c}]
  /\ \E S \in Receivers(p) :
       /\ net' = [l \in Links |-> IF l[1] = p /\ l[2] \in S
                                  THEN Append(net[l], [c EXCEPT !.hops = @ + 1])
                                  ELSE net[l]]
       /\ relays' = [relays EXCEPT ![p][c.msg] = IF S = {} THEN @ ELSE @ + 1]
  /\ InsertInto(sent, p, c)
  /\ UNCHANGED valid
  /\ UNCHANGED <<linkVars, invalid, asked, announced, endorsed, notices>>
  /\ NoteForgotten(p)

\* One iteration of the loop over the extracted messages.
Relay(p, c) ==
  /\ c \in batch[p]
  /\ batch' = [batch EXCEPT ![p] = @ \ {c}]
  /\ \E S \in Receivers(p) :
       /\ net' = [l \in Links |-> IF l[1] = p /\ l[2] \in S
                                  THEN Append(net[l], [c EXCEPT !.hops = @ + 1])
                                  ELSE net[l]]
       /\ relays' = [relays EXCEPT ![p][c.msg] = IF S = {} THEN @ ELSE @ + 1]
  /\ valid' = [valid EXCEPT ![p] = @ \ {c}]
  /\ InsertInto(sent, p, c)
  /\ UNCHANGED <<linkVars, invalid, asked, announced, endorsed, notices>>
  /\ NoteForgotten(p)

-----------------------------------------------------------------------------
(* What the handshake does to the connections. *)

\* A solver that calls MakeValid does so between any two messages of a batch.
Open(p, q) ==
  /\ <<p, q>> \in Links \ (open \cup closed)
  /\ open' = open \cup {<<p, q>>}
  /\ UNCHANGED <<closed, net, invalid, valid, sent, batch, asked, announced,
                 endorsed, notices, relays, forgotten>>

Close(p, q) ==
  /\ Idle(p)
  /\ <<p, q>> \in Links \ closed
  /\ Cardinality(closed) < MaxClosed
  /\ open' = open \ {<<p, q>>}
  /\ closed' = closed \cup {<<p, q>>}
  /\ UNCHANGED <<net, invalid, valid, sent, batch, asked, announced,
                 endorsed, notices, relays, forgotten>>

-----------------------------------------------------------------------------

Next ==
  \/ \E m \in Messages : Announce(m)
  \/ \E p, q \in Peers : <<p, q>> \in Links /\ (Receive(p, q) \/ Open(p, q) \/ Close(p, q))
  \/ \E p \in Peers :
       \/ \E m \in asked[p], ok \in Verdicts : Validate(p, m, ok)
       \/ Tick(p)
       \/ \E c \in batch[p] : Relay(p, c)

Spec == Init /\ [][Next]_vars

\* Every application that finds all messages valid answers in the end, the gossip
\* ticker fires again and again, and every loop goes on.
Fairness ==
  /\ \A l \in Links : WF_vars(Receive(l[1], l[2]))
  /\ \A p \in Peers :
       /\ \A m \in Messages : WF_vars(Validate(p, m, TRUE))
       /\ WF_vars(Tick(p))
       /\ WF_vars(\E c \in batch[p] : Relay(p, c))

FairSpec == Spec /\ Fairness

-----------------------------------------------------------------------------
(* Properties. *)

\* A message has one place among the caches of a peer: it is to be judged, to be
\* relayed, or done with.
OneCache ==
  \A p \in Peers : \A m \in Messages :
    Cardinality(Find(invalid[p], m)) + Cardinality(Find(valid[p], m))
      + Cardinality(Find(sent[p], m)) <= 1

\* A peer pushes a message only when its own application announced it or found
\* it valid, however late the verdict and whatever the caches lost meanwhile.
EndorsedOnly ==
  \A l \in Links : \A i \in 1..Len(net[l]) : net[l][i].msg \in endorsed[l[1]]

\* No message travels further than its time to live: what is on its way, and so
\* what any application is notified of, made at most that many hops.
HopsBounded ==
  \A l \in Links : \A i \in 1..Len(net[l]) :
    LET c == net[l][i] IN TtlOf[c.msg] > 0 => c.hops <= TtlOf[c.msg]

\* An application is notified of a message once, and never of its own, and again
\* only after its peer forgot the message: the caches break every loop.
NotifiedOnce ==
  \A p \in Peers, m \in Messages :
    notices[p][m] <= forgotten[p][m] + (IF p = Origin[m] THEN 0 ELSE 1)

\* A peer relays a message in one round, and again only after it forgot it.
RelayedOnce ==
  \A p \in Peers, m \in Messages : relays[p][m] <= forgotten[p][m] + 1

\* A message that waits to be relayed goes on waiting until it is relayed to
\* somebody: no verdict, announcement or tick takes it away, unless the tick finds
\* nobody to push to and takes it for sent, or so many messages wait that it may be
\* the one that is overwritten.
WaitsForRelay ==
  [][\A p \in Peers, m \in Messages :
       Find(valid[p], m) # {} /\ Find(valid[p], m)' = {} =>
         \/ relays'[p][m] = relays[p][m] + 1
         \/ {} \in Receivers(p) /\ Find(sent[p], m)' # {}
         \/ Cardinality(valid[p]) = Capacity]_vars

\* When all links are open and stay so, Degree is at least the number of
\* neighbours, the caches are large enough, every application finds every message
\* valid, and the time to live is as long as any path, then every application is
\* notified of every message announced.
Disseminated ==
  \A m \in Messages : \A p \in Peers \ {Origin[m]} : m \in announced ~> notices[p][m] > 0

=============================================================================
