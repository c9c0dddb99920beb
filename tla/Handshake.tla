------------------------------ MODULE Handshake ------------------------------
(***************************************************************************)
(* The push strategy's event loop (dummyStrat.Listen) in every peer of a   *)
(* small network: admission of connections by proof of work, its periodic  *)
(* renewal, pushes, and what is dropped when.                              *)
(*                                                                         *)
(* An end is one peer's gossipConnection for one TCP connection; Other is  *)
(* the end of the same connection at the other peer.  inbox[e] is what has *)
(* been written towards e and its peer's loop has not taken yet: the TCP   *)
(* stream, the reader and fromHz, one FIFO.  The loop of a peer takes from *)
(* its inboxes in any order (several readers share fromHz).                *)
(*                                                                         *)
(* Time is left out: a ticker fires at any moment, a connection the        *)
(* timeout ticker looks at may be stale, a proof may come late.  Contents  *)
(* are left out too: a peer of this model answers with the cookie it was   *)
(* given and a nonce that passes, so the checks on both succeed.           *)
(* class[e] abstracts the maps of the connection manager; that they behave *)
(* as one class per connection is what module ConnectionManager shows.     *)
(***************************************************************************)
EXTENDS Integers, Sequences, FiniteSets

CONSTANTS
  Peers,
  Dialled,      \* ends at the peer that dialled (AddNeighbors)
  Accepted,     \* ends at the peer that listens (Listen)
  PeerOf,       \* the peer an end belongs to
  Other,        \* the other end of the connection
  NoEnd,
  Degree,       \* connections a message is pushed to
  MaxRenewals,  \* bound: ticks of renewalTicker, per peer
  MaxPushes,    \* bound: messages pushed, per peer
  MaxFaults     \* bound: connections lost, late proofs and culls, together

Ends == Dialled \cup Accepted

ASSUME HandshakeAssumption ==
  /\ Dialled \cap Accepted = {}
  /\ NoEnd \notin Ends
  /\ PeerOf \in [Ends -> Peers]
  /\ Other \in [Ends -> Ends]
  /\ \A e \in Ends : Other[Other[e]] = e /\ (e \in Dialled <=> Other[e] \in Accepted)
  /\ {Degree, MaxRenewals, MaxPushes, MaxFaults} \subseteq Nat

Messages == {"NewConn", "ConnReq", "ConnChall", "ConnPoW",
             "PowReq", "PowChall", "PowPoW", "Push", "Unregister"}

\* Where a connection is in the manager of its peer: in none of its maps before
\* NewConn ("new") and after a removal ("gone").
Classes == {"new", "toBeProved", "inProgress", "valid", "gone"}

\* Where a goroutine that answers a challenge is: computing the nonce, about to
\* send the proof, about to call MakeValid.
Stages == {"connSolve", "connSend", "connAdmit", "powSolve", "powSend"}

VARIABLES
  class,       \* the maps of every peer's connection manager
  sentPowReq,  \* the field of gossipConnection
  ctxDone,     \* Cfunc was called
  writing,     \* writeToConnection still takes messages from Data
  solvers,     \* goroutines per end and stage
  inbox,
  cut,         \* ends whose TCP connection is lost
  todo,        \* the ends a peer's loop has still to visit, holding the read lock
  at,          \* the end it is sending to, in the body of the visit
  sending,     \* what the visits send
  renewals, pushes, faults   \* counters for the bounds

vars == <<class, sentPowReq, ctxDone, writing, solvers, inbox, cut,
          todo, at, sending, renewals, pushes, faults>>

TypeOK ==
  /\ class \in [Ends -> Classes]
  /\ sentPowReq \in [Ends -> BOOLEAN]
  /\ ctxDone \in [Ends -> BOOLEAN]
  /\ writing \in [Ends -> BOOLEAN]
  /\ solvers \in [Ends -> [Stages -> Nat]]
  /\ inbox \in [Ends -> Seq(Messages)]
  /\ cut \subseteq Ends
  /\ todo \in [Peers -> SUBSET Ends]
  /\ at \in [Peers -> Ends \cup {NoEnd}]
  /\ sending \in [Peers -> {"ConnReq", "PowReq", "Push"}]
  /\ renewals \in [Peers -> 0..MaxRenewals]
  /\ pushes \in [Peers -> 0..MaxPushes]
  /\ faults \in 0..MaxFaults

EndsOf(p) == {e \in Ends : PeerOf[e] = p}

\* Fault: the tickers take every connection of the manager for an open one.
ManagedEnds(p) == {e \in EndsOf(p) : class[e] \in {"toBeProved", "inProgress", "valid"}}

ValidEnds(p) == {e \in EndsOf(p) : class[e] = "valid"}
Managed(e) == class[e] \in {"toBeProved", "inProgress", "valid"}

\* The loop of p waits in its select; otherwise it holds the read lock.
Idle(p) == todo[p] = {} /\ at[p] = NoEnd

-----------------------------------------------------------------------------
(* AddNeighbors has dialled, the listener announces every accepted         *)
(* connection before its reader starts, and every loop begins with the     *)
(* visits that send the connection requests.                               *)

Init ==
  /\ class = [e \in Ends |-> IF e \in Dialled THEN "toBeProved" ELSE "new"]
  /\ sentPowReq = [e \in Ends |-> FALSE]
  /\ ctxDone = [e \in Ends |-> FALSE]
  /\ writing = [e \in Ends |-> TRUE]
  /\ solvers = [e \in Ends |-> [s \in Stages |-> 0]]
  /\ inbox = [e \in Ends |-> IF e \in Dialled THEN <<>> ELSE <<"NewConn">>]
  /\ cut = {}
  /\ todo = [p \in Peers |-> EndsOf(p) \cap Dialled]
  /\ at = [p \in Peers |-> NoEnd]
  /\ sending = [p \in Peers |-> "ConnReq"]
  /\ renewals = [p \in Peers |-> 0]
  /\ pushes = [p \in Peers |-> 0]
  /\ faults = 0

-----------------------------------------------------------------------------
(* Helpers of the handlers. *)

\* Fault: MakeValid ignores that the connection is in none of the maps.
AdmittedAnyway(c) == IF c = "new" THEN c ELSE "valid"

\* connManager.MakeValid and connManager.Remove on the class of one connection.
Admitted(c) == IF c \in {"new", "gone"} THEN c ELSE "valid"
Removed(c) == IF c = "new" THEN c ELSE "gone"

\* inboxes after e's writer has written m: nothing arrives on a lost connection.
Written(boxes, e, m) ==
  IF e \in cut THEN boxes ELSE [boxes EXCEPT ![Other[e]] = Append(@, m)]

\* The loop takes the next message of e, which is m.
Receive(e, m) ==
  /\ Idle(PeerOf[e])
  /\ inbox[e] # <<>>
  /\ Head(inbox[e]) = m

Taken(e) == [inbox EXCEPT ![e] = Tail(@)]

\* A handler that answers e with m: it blocks until the writer takes the answer.
Answer(e, m) == writing[e] /\ inbox' = Written(Taken(e), e, m)

Spawn(e, stage) == solvers' = [solvers EXCEPT ![e][stage] = @ + 1]

Drop(e) == class' = [class EXCEPT ![e] = Removed(@)]

loopVars == <<todo, at, sending, renewals, pushes>>
connVars == <<sentPowReq, ctxDone, writing, cut>>

-----------------------------------------------------------------------------
(* Messages from the horizontal API. *)

NewConn(e) ==
  /\ Receive(e, "NewConn")
  /\ inbox' = Taken(e)
  /\ class' = [class EXCEPT ![e] = "inProgress"]
  /\ UNCHANGED <<connVars, solvers, loopVars, faults>>

\* Fault: the request is looked up among the open connections.
ConnReqOfValid(e) ==
  /\ Receive(e, "ConnReq")
  /\ IF class[e] = "valid" THEN Answer(e, "ConnChall") ELSE inbox' = Taken(e)
  /\ UNCHANGED <<class, connVars, solvers, loopVars, faults>>

ConnReq(e) ==
  /\ Receive(e, "ConnReq")
  /\ IF class[e] = "inProgress" THEN Answer(e, "ConnChall") ELSE inbox' = Taken(e)
  /\ UNCHANGED <<class, connVars, solvers, loopVars, faults>>

ConnChall(e) ==
  /\ Receive(e, "ConnChall")
  /\ inbox' = Taken(e)
  /\ IF class[e] = "toBeProved"
     THEN Spawn(e, "connSolve") /\ UNCHANGED class
     ELSE Drop(e) /\ UNCHANGED solvers
  /\ UNCHANGED <<connVars, loopVars, faults>>

\* Fault: a late proof is not accepted, but the connection is not removed.
ConnPoWLateIgnored(e) ==
  /\ Receive(e, "ConnPoW")
  /\ inbox' = Taken(e)
  /\ \/ class[e] = "inProgress" /\ class' = [class EXCEPT ![e] = "valid"] /\ UNCHANGED faults
     \/ class[e] = "inProgress" /\ faults < MaxFaults /\ faults' = faults + 1 /\ UNCHANGED class
     \/ class[e] # "inProgress" /\ Drop(e) /\ UNCHANGED faults
  /\ UNCHANGED <<connVars, solvers, loopVars>>

\* The proof is good; it is late or it is not.
ConnPoW(e) ==
  /\ Receive(e, "ConnPoW")
  /\ inbox' = Taken(e)
  /\ \/ /\ class[e] = "inProgress"
        /\ class' = [class EXCEPT ![e] = "valid"]
        /\ UNCHANGED faults
     \/ /\ class[e] = "inProgress"
        /\ faults < MaxFaults
        /\ faults' = faults + 1
        /\ Drop(e)
     \/ /\ class[e] # "inProgress"
        /\ Drop(e)
        /\ UNCHANGED faults
  /\ UNCHANGED <<connVars, solvers, loopVars>>

PowReq(e) ==
  /\ Receive(e, "PowReq")
  /\ IF class[e] = "valid" THEN Answer(e, "PowChall") ELSE inbox' = Taken(e)
  /\ UNCHANGED <<class, connVars, solvers, loopVars, faults>>

PowChall(e) ==
  /\ Receive(e, "PowChall")
  /\ inbox' = Taken(e)
  /\ IF class[e] = "valid" /\ sentPowReq[e]
     THEN Spawn(e, "powSolve") /\ UNCHANGED class
     ELSE Drop(e) /\ UNCHANGED solvers
  /\ UNCHANGED <<connVars, loopVars, faults>>

\* MakeValid of a valid connection only writes its timestamp.
PowPoW(e) ==
  /\ Receive(e, "PowPoW")
  /\ inbox' = Taken(e)
  /\ IF class[e] = "valid" THEN UNCHANGED class ELSE Drop(e)
  /\ UNCHANGED <<connVars, solvers, loopVars, faults>>

\* What becomes of the message itself is not this module's subject.
Push(e) ==
  /\ Receive(e, "Push")
  /\ inbox' = Taken(e)
  /\ UNCHANGED <<class, connVars, solvers, loopVars, faults>>

\* Fault: only a connection that was admitted is removed.
UnregisterValidOnly(e) ==
  /\ Receive(e, "Unregister")
  /\ inbox' = Taken(e)
  /\ IF class[e] = "valid"
     THEN Drop(e) /\ ctxDone' = [ctxDone EXCEPT ![e] = TRUE]
     ELSE UNCHANGED <<class, ctxDone>>
  /\ UNCHANGED <<sentPowReq, writing, cut, solvers, loopVars, faults>>

\* The reader has ended.  The context is cancelled if there was something to remove.
Unregister(e) ==
  /\ Receive(e, "Unregister")
  /\ inbox' = Taken(e)
  /\ Drop(e)
  /\ ctxDone' = [ctxDone EXCEPT ![e] = @ \/ Managed(e)]
  /\ UNCHANGED <<sentPowReq, writing, cut, solvers, loopVars, faults>>

Handle(e) ==
  \/ NewConn(e) \/ ConnReq(e) \/ ConnChall(e) \/ ConnPoW(e)
  \/ PowReq(e) \/ PowChall(e) \/ PowPoW(e) \/ Push(e) \/ Unregister(e)

-----------------------------------------------------------------------------
(* Tickers.  Their visits walk the open connections under the read lock;   *)
(* nothing can be made valid or removed until the last send is done.       *)

Renew(p) ==
  /\ Idle(p)
  /\ renewals[p] < MaxRenewals
  /\ renewals' = [renewals EXCEPT ![p] = @ + 1]
  /\ todo' = [todo EXCEPT ![p] = ValidEnds(p)]
  /\ sending' = [sending EXCEPT ![p] = "PowReq"]
  /\ UNCHANGED <<class, connVars, solvers, inbox, at, pushes, faults>>

\* The gossip ticker, for one message of the valid ones.
Gossip(p) ==
  /\ Idle(p)
  /\ pushes[p] < MaxPushes
  /\ pushes' = [pushes EXCEPT ![p] = @ + 1]
  /\ \E S \in SUBSET ValidEnds(p) :
       /\ Cardinality(S) = Degree \/ (S = ValidEnds(p) /\ Cardinality(S) < Degree)
       /\ todo' = [todo EXCEPT ![p] = S]
  /\ sending' = [sending EXCEPT ![p] = "Push"]
  /\ UNCHANGED <<class, connVars, solvers, inbox, at, renewals, faults>>

\* The next visit begins; a renewal notes the request before it sends it.
Visit(p, e) ==
  /\ at[p] = NoEnd
  /\ e \in todo[p]
  /\ todo' = [todo EXCEPT ![p] = @ \ {e}]
  /\ at' = [at EXCEPT ![p] = e]
  /\ sentPowReq' = [sentPowReq EXCEPT ![e] = @ \/ sending[p] = "PowReq"]
  /\ UNCHANGED <<class, ctxDone, writing, cut, solvers, inbox, sending, renewals, pushes, faults>>

\* The writer of the connection takes the message of the visit.
VisitSend(p) ==
  /\ at[p] # NoEnd
  /\ writing[at[p]]
  /\ inbox' = Written(inbox, at[p], sending[p])
  /\ at' = [at EXCEPT ![p] = NoEnd]
  /\ UNCHANGED <<class, connVars, solvers, todo, sending, renewals, pushes, faults>>

\* The timeout ticker; stale are the connections without a recent proof.
Cull(p, stale) ==
  /\ Idle(p)
  /\ faults < MaxFaults
  /\ faults' = faults + 1
  /\ class' = [e \in Ends |-> IF e \in stale THEN "gone" ELSE class[e]]
  /\ UNCHANGED <<connVars, solvers, inbox, loopVars>>

-----------------------------------------------------------------------------
(* The goroutines that answer a challenge. *)

Step(e, from, to) == solvers' = [solvers EXCEPT ![e][from] = @ - 1, ![e][to] = @ + 1]
End(e, from) == solvers' = [solvers EXCEPT ![e][from] = @ - 1]

\* Fault: the goroutine makes the connection valid before it sends the proof.
ConnSolvedAdmitsFirst(e) ==
  /\ solvers[e]["connSolve"] > 0
  /\ Idle(PeerOf[e])
  /\ IF ctxDone[e]
     THEN End(e, "connSolve") /\ UNCHANGED class
     ELSE Step(e, "connSolve", "connSend") /\ class' = [class EXCEPT ![e] = Admitted(@)]
  /\ UNCHANGED <<connVars, inbox, loopVars, faults>>

\* The nonce is found; the goroutine looks whether the connection is closed.
ConnSolved(e) ==
  /\ solvers[e]["connSolve"] > 0
  /\ IF ctxDone[e] THEN End(e, "connSolve") ELSE Step(e, "connSolve", "connSend")
  /\ UNCHANGED <<class, connVars, inbox, loopVars, faults>>

ConnProve(e) ==
  /\ solvers[e]["connSend"] > 0
  /\ writing[e]
  /\ Step(e, "connSend", "connAdmit")
  /\ inbox' = Written(inbox, e, "ConnPoW")
  /\ UNCHANGED <<class, connVars, loopVars, faults>>

\* MakeValid waits for the loop to release the read lock.
ConnAdmit(e) ==
  /\ solvers[e]["connAdmit"] > 0
  /\ Idle(PeerOf[e])
  /\ End(e, "connAdmit")
  /\ class' = [class EXCEPT ![e] = Admitted(@)]
  /\ UNCHANGED <<connVars, inbox, loopVars, faults>>

PowSolved(e) ==
  /\ solvers[e]["powSolve"] > 0
  /\ IF ctxDone[e]
     THEN End(e, "powSolve") /\ UNCHANGED sentPowReq
     ELSE /\ Step(e, "powSolve", "powSend")
          /\ sentPowReq' = [sentPowReq EXCEPT ![e] = FALSE]
  /\ UNCHANGED <<class, ctxDone, writing, cut, inbox, loopVars, faults>>

\* Fault: a goroutine that gave up sends its proof all the same.
PowProveAlways(e) ==
  /\ writing[e]
  /\ sentPowReq[e]
  /\ End(e, "powSend")
  /\ inbox' = Written(inbox, e, "PowPoW")
  /\ UNCHANGED <<class, connVars, loopVars, faults>>

PowProve(e) ==
  /\ solvers[e]["powSend"] > 0
  /\ writing[e]
  /\ End(e, "powSend")
  /\ inbox' = Written(inbox, e, "PowPoW")
  /\ UNCHANGED <<class, connVars, loopVars, faults>>

Solve(e) == ConnSolved(e) \/ ConnProve(e) \/ ConnAdmit(e) \/ PowSolved(e) \/ PowProve(e)

-----------------------------------------------------------------------------
(* The horizontal API. *)

\* writeToConnection returns; until it does, its select may still take a message.
WriterEnds(e) ==
  /\ writing[e] /\ ctxDone[e]
  /\ writing' = [writing EXCEPT ![e] = FALSE]
  /\ UNCHANGED <<class, sentPowReq, ctxDone, cut, solvers, inbox, loopVars, faults>>

\* What can be left of an inbox when the connection is lost: what had arrived,
\* at least the announcement, which is local, and the end of the reader.
Leftovers(box) ==
  {Append(SubSeq(box, 1, n), "Unregister") :
     n \in {k \in 0..Len(box) : \A i \in (k + 1)..Len(box) : box[i] # "NewConn"}}

Lose(d) ==
  /\ d \notin cut
  /\ faults < MaxFaults
  /\ faults' = faults + 1
  /\ cut' = cut \cup {d, Other[d]}
  /\ \E left \in Leftovers(inbox[d]), right \in Leftovers(inbox[Other[d]]) :
       inbox' = [inbox EXCEPT ![d] = left, ![Other[d]] = right]
  /\ UNCHANGED <<class, sentPowReq, ctxDone, writing, solvers, loopVars>>

-----------------------------------------------------------------------------

Loop(p) ==
  \/ \E e \in EndsOf(p) : Handle(e) \/ Visit(p, e)
  \/ VisitSend(p)

Next ==
  \/ \E p \in Peers :
       \/ Loop(p)
       \/ Renew(p)
       \/ Gossip(p)
       \/ \E stale \in SUBSET ValidEnds(p) \ {{}} : Cull(p, stale)
  \/ \E e \in Ends : Solve(e) \/ WriterEnds(e)
  \/ \E d \in Dialled : Lose(d)

Spec == Init /\ [][Next]_vars

\* Every goroutine that can go on does.  Go's select chooses at random among the
\* ready cases, so no ready inbox waits forever; the tickers need not fire.
Fairness ==
  /\ \A e \in Ends : /\ WF_vars(Handle(e))
                     /\ WF_vars(ConnSolved(e)) /\ WF_vars(ConnProve(e)) /\ WF_vars(ConnAdmit(e))
                     /\ WF_vars(PowSolved(e)) /\ WF_vars(PowProve(e))
                     /\ WF_vars(WriterEnds(e))
  /\ \A p \in Peers : WF_vars(VisitSend(p)) /\ WF_vars(\E e \in EndsOf(p) : Visit(p, e))

FairSpec == Spec /\ Fairness

-----------------------------------------------------------------------------
(* Properties. *)

\* How many messages among ms are on their way to e.
Count(e, ms) == Cardinality({i \in 1..Len(inbox[e]) : inbox[e][i] \in ms})

Flag(b) == IF b THEN 1 ELSE 0

\* How often the admission of the connection dialled at d is under way or done.
Admissions(d) ==
  LET a == Other[d]
      p == PeerOf[d]
  IN    Flag(sending[p] = "ConnReq" /\ (d \in todo[p] \/ at[p] = d))
      + Count(a, {"ConnReq", "ConnPoW"})
      + Count(d, {"ConnChall"})
      + solvers[d]["connSolve"] + solvers[d]["connSend"]
      + Flag(class[a] = "valid")

\* While a connection is neither lost nor dropped by a side, its admission is at
\* exactly one place: the request still to be sent, a message on its way, a
\* goroutine that solves the challenge, or done.  No step of the two loops and
\* the goroutine loses it or does it twice.
OneHandshake ==
  \A d \in Dialled :
    d \notin cut /\ class[d] # "gone" /\ class[Other[d]] # "gone"
      => Admissions(d) = 1

\* A message the dialling peer pushes is never discarded because its proof has
\* not been checked yet: when the push is at the listening peer's loop, the
\* connection is open there, or was dropped: by a loss, by a cull, or because the
\* proof was too late.
PushAfterProof ==
  \A a \in Accepted :
    inbox[a] # <<>> /\ Head(inbox[a]) = "Push" => class[a] \in {"valid", "gone"}

\* The loop of a peer never waits on a connection whose writer was told to end:
\* no visit is at one, and no map of the manager has one.  (Cfunc is called only
\* after Remove, and nothing brings a removed connection back.)
LoopNeverStuck ==
  /\ \A e \in Ends : Managed(e) => ~ctxDone[e]
  /\ \A p \in Peers : at[p] # NoEnd => ~ctxDone[at[p]]

\* A peer drops a connection only when it is lost, stale or proved too late, or
\* in the renewal, on a challenge it does not remember to have asked for.  The
\* other checks of the handlers refuse nothing an honest neighbour sends.
DropsExplained ==
  [][\A e \in Ends : Managed(e) /\ class'[e] = "gone" =>
       \/ faults' > faults
       \/ Head(inbox[e]) = "Unregister"
       \/ Head(inbox[e]) = "PowChall" /\ class[e] = "valid" /\ ~sentPowReq[e]]_vars

\* Without faults every dialled connection becomes open at both its ends.
AllAdmitted ==
  \A d \in Dialled :
    <>(faults > 0 \/ (class[d] = "valid" /\ class[Other[d]] = "valid"))

\* A lost connection leaves the manager of both peers and the writers at both its
\* ends return, unless a second fault or a refused renewal has dropped it before:
\* then Unregister does not find it, and nobody calls Cfunc.
LostIsForgotten ==
  \A e \in Ends :
    (e \in cut) ~>
      /\ ~Managed(e)
      /\ writing[e] => faults > 1 \/ \E p \in Peers : renewals[p] > 0

-----------------------------------------------------------------------------
(* What the code or its documentation says and the program does not do. *)

\* A challenge that answers a request of this peer is accepted.
SolicitedChallengeAccepted ==
  \A e \in Ends :
    class[e] = "valid" /\ inbox[e] # <<>> /\ Head(inbox[e]) = "PowChall" => sentPowReq[e]
=============================================================================
