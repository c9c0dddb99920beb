----------------------------- MODULE NodeProofs -----------------------------
(***************************************************************************)
(* What Node keeps for any number of modules, addresses, types and         *)
(* neighbours.  The registrations are not inductive by themselves: Follows *)
(* ties what main has stored for a connection to how far the reader of     *)
(* that connection is, and to what its module asked for.                   *)
(***************************************************************************)
EXTENDS Node, FiniteSetTheorems, TLAPS

\* A connection that is not served has registered nothing; one that is read has
\* registered what it asked for; one whose end main has heard of is registered no
\* more, and its context is closed if it had asked for anything.
Follows ==
  \A c \in Conns :
    ~Shared(c) =>
      /\ reader[c] = "none" => asked[c] = {} /\ \A t \in Types : c \notin registered[t]
      /\ reader[c] \in {"reading", "unregistering"} =>
           /\ c \notin cancelled
           /\ \A t \in Types : t \in asked[c] => c \in registered[t]
      /\ reader[c] = "ended" =>
           /\ asked[c] # {} => CtxDone(c)
           /\ \A t \in Types : c \notin registered[t]
      /\ reader[c] = "none" => c \notin cancelled

\* A connection is served once.
ServedOnce ==
  \A c \in Conns :
    /\ sock[c] = "none" => c \notin accepting /\ reader[c] = "none"
    /\ c \in accepting => reader[c] = "none"

\* A writer ends only if it is told to.
ToldToEnd == \A c \in Conns : writer[c] = "ended" => CtxDone(c)

IInv == TypeOK /\ OncePerId /\ Follows /\ ServedOnce /\ ToldToEnd

-----------------------------------------------------------------------------
(* The operators of the registrations. *)

\* A registration adds at most its connection, and none whose id is there.
LEMMA AddChannelAdds ==
  ASSUME registered \in [Types -> SUBSET Conns], NEW t \in Types, NEW c \in Conns
  PROVE  /\ AddChannelToType(t, c) \in [Types -> SUBSET Conns]
         /\ \A u \in Types : AddChannelToType(t, c)[u] \in {registered[u], registered[u] \cup {c}}
         /\ \A u \in Types : u # t => AddChannelToType(t, c)[u] = registered[u]
         /\ \/ c \in AddChannelToType(t, c)[t]
            \/ \E d \in registered[t] : IdOf[d] = IdOf[c]
         /\ AddChannelToType(t, c)[t] # registered[t] =>
              \A d \in registered[t] : IdOf[d] # IdOf[c]
BY DEF AddChannelToType

\* A removal takes out what has the id, everywhere, and nothing else.
LEMMA RemoveChannelRemoves ==
  ASSUME registered \in [Types -> SUBSET Conns], NEW c \in Conns
  PROVE  /\ RemoveChannel(c) \in [Types -> SUBSET Conns]
         /\ \A t \in Types : \A d \in Conns :
              d \in RemoveChannel(c)[t] <=> d \in registered[t] /\ IdOf[d] # IdOf[c]
         /\ Matching(c) \subseteq Conns
         /\ \A d \in Matching(c) : IdOf[d] = IdOf[c]
BY DEF RemoveChannel, Matching

-----------------------------------------------------------------------------
(* Type correctness. *)

LEMMA TypeInit == Init => TypeOK
<1>1. Cardinality({}) <= 1 /\ 0 \in 0..MaxMessages /\ 0 \in 0..MaxPushes
  BY FS_EmptySet, NodeAssumption DEF NodeAssumption
<1> QED
  BY <1>1 DEF Init, TypeOK

LEMMA TypeStep ==
  ASSUME TypeOK, [Next]_vars
  PROVE  TypeOK'
<1> USE NodeAssumption DEF NodeAssumption, TypeOK, vertVars, mainVars, startVars, stratVars
<1>0. Cardinality({}) <= 1 /\ \A c \in Conns : Cardinality({c}) <= 1
  <2>1. Cardinality({}) = 0 /\ \A c \in Conns : Cardinality({c}) = 1
    BY FS_EmptySet, FS_Singleton, Zenon
  <2> QED
    BY <2>1
<1>1. ASSUME NEW c \in Conns, Connect(c) \/ Leave(c) \/ Vert(c)
      PROVE  TypeOK'
  <2>1. CASE Connect(c)
    BY <1>0, <2>1 DEF Connect
  <2>2. CASE Leave(c)
    BY <2>2 DEF Leave
  <2>3. CASE Serve(c)
    BY <1>0, <2>3 DEF Serve
  <2>4. CASE ReadEnds(c)
    BY <2>4 DEF ReadEnds
  <2>5. CASE Written(c) \/ WriteEnds(c)
    BY <2>5 DEF Written, WriteEnds
  <2> QED
    BY <1>1, <2>1, <2>2, <2>3, <2>4, <2>5 DEF Vert
<1>2. ASSUME NEW c \in Conns, FromVert(c)
      PROVE  TypeOK'
  <2>1. CASE HandleGossipValidation(c)
    BY <2>1 DEF HandleGossipValidation, TakeMessage
  <2>2. CASE HandleModuleUnregister(c)
    <3>1. RemoveChannel(c) \in [Types -> SUBSET Conns] /\ Matching(c) \subseteq Conns
      BY RemoveChannelRemoves
    <3> QED
      BY <2>2, <3>1 DEF HandleModuleUnregister
  <2>3. ASSUME NEW t \in Types, HandleGossipAnnounce(c, t)
        PROVE  TypeOK'
    BY <2>3 DEF HandleGossipAnnounce, TakeMessage
  <2>4. ASSUME NEW t \in Types, HandleTypeRegistration(c, t)
        PROVE  TypeOK'
    <3>1. AddChannelToType(t, c) \in [Types -> SUBSET Conns]
      BY AddChannelAdds
    <3> QED
      BY <2>4, <3>1 DEF HandleTypeRegistration, TakeMessage
  <2> QED
    BY <1>2, <2>1, <2>2, <2>3, <2>4 DEF FromVert
<1>3. ASSUME NEW c \in Conns, SendToVert(c)
      PROVE  TypeOK'
  BY <1>3 DEF SendToVert
<1>4. ASSUME NEW t \in Types, HandleNotification(t)
      PROVE  TypeOK'
  BY <1>4 DEF HandleNotification, Load
<1>5. CASE SendToStrat
  BY <1>5 DEF SendToStrat
<1>6. ASSUME NEW h \in Neighbours, HzAccept(h) \/ HzPush(h) \/ HzReadEnds(h) \/ HzUnregister(h)
      PROVE  TypeOK'
  BY <1>6 DEF HzAccept, HzPush, HzReadEnds, HzUnregister, HzSend
<1>7. CASE TakeFromHz \/ LoopEnds
  BY <1>7 DEF TakeFromHz, LoopEnds
<1>8. CASE Close \/ Shutdown
  <2>1. CASE Close
    BY <2>1 DEF Close
  <2>2. CASE LeaveLoop
    BY <2>2 DEF LeaveLoop
  <2>3. CASE StrategyClosed \/ VertClosed
    BY <2>3 DEF StrategyClosed, VertClosed
  <2>4. CASE VertClose
    BY <2>4 DEF VertClose
  <2> QED
    BY <1>8, <2>1, <2>2, <2>3, <2>4 DEF Shutdown
<1>9. CASE Start
  BY <1>9 DEF Start, Listen, HzListen, NewStrategy, NewStrategyFails, Report
<1>10. CASE UNCHANGED vars
  BY <1>10 DEF vars
<1> QED
  BY <1>1, <1>2, <1>3, <1>4, <1>5, <1>6, <1>7, <1>8, <1>9, <1>10 DEF Next

-----------------------------------------------------------------------------
(* The invariant. *)

LEMMA IInvInit == Init => IInv
<1> SUFFICES ASSUME Init PROVE IInv
  OBVIOUS
<1>1. TypeOK
  BY TypeInit
<1>2. OncePerId /\ Follows /\ ServedOnce /\ ToldToEnd
  BY DEF Init, OncePerId, Follows, ServedOnce, ToldToEnd
<1> QED
  BY <1>1, <1>2 DEF IInv

\* Nothing but the vertical API's own steps and the registrations touches what the
\* invariant speaks of.
LEMMA UntouchedStep ==
  ASSUME IInv, TypeOK',
         UNCHANGED <<sock, accepting, reader, writer, cancelled, vertDone, registered, asked>>
  PROVE  IInv'
BY DEF IInv, OncePerId, Follows, ServedOnce, ToldToEnd, CtxDone

LEMMA RegisterStep ==
  ASSUME IInv, TypeOK', NEW c \in Conns, NEW t \in Types, HandleTypeRegistration(c, t)
  PROVE  IInv'
<1> USE DEF IInv, HandleTypeRegistration, TakeMessage
<1>1. registered \in [Types -> SUBSET Conns] /\ asked \in [Conns -> SUBSET Types]
  BY DEF TypeOK
<1>2. /\ \A u \in Types : registered'[u] \in {registered[u], registered[u] \cup {c}}
      /\ \A u \in Types : u # t => registered'[u] = registered[u]
      /\ c \in registered'[t] \/ \E d \in registered[t] : IdOf[d] = IdOf[c]
      /\ registered'[t] # registered[t] => \A d \in registered[t] : IdOf[d] # IdOf[c]
  BY <1>1, AddChannelAdds
<1>3. OncePerId'
  BY <1>1, <1>2 DEF OncePerId
<1>4. ASSUME NEW d \in Conns, ~Shared(d), d # c
      PROVE  (\A u \in Types : d \in registered'[u] <=> d \in registered[u]) /\ asked'[d] = asked[d]
  BY <1>1, <1>2, <1>4
<1>5. ~Shared(c) => c \in registered'[t]
  BY <1>1, <1>2 DEF Shared
<1>6. asked'[c] = asked[c] \cup {t} /\ \A u \in Types : registered[u] \subseteq registered'[u]
  BY <1>1, <1>2
<1>7. Follows'
  BY <1>4, <1>5, <1>6 DEF Follows, CtxDone
<1>8. ServedOnce' /\ ToldToEnd'
  BY DEF ServedOnce, ToldToEnd, CtxDone
<1> QED
  BY <1>3, <1>7, <1>8

LEMMA UnregisterStep ==
  ASSUME IInv, TypeOK', NEW c \in Conns, HandleModuleUnregister(c)
  PROVE  IInv'
<1> USE DEF IInv, HandleModuleUnregister
<1>1. /\ registered \in [Types -> SUBSET Conns] /\ asked \in [Conns -> SUBSET Types]
      /\ reader \in [Conns -> {"none", "reading", "unregistering", "ended"}]
  BY DEF TypeOK
<1>2. /\ \A t \in Types : \A d \in Conns :
           d \in registered'[t] <=> d \in registered[t] /\ IdOf[d] # IdOf[c]
      /\ registered' \in [Types -> SUBSET Conns]
      /\ Matching(c) \subseteq Conns /\ \A d \in Matching(c) : IdOf[d] = IdOf[c]
  BY <1>1, RemoveChannelRemoves
<1>3. OncePerId'
  BY <1>1, <1>2 DEF OncePerId
<1>4. ASSUME NEW d \in Conns, ~Shared(d), d # c
      PROVE  /\ \A t \in Types : d \in registered'[t] <=> d \in registered[t]
             /\ d \in cancelled' <=> d \in cancelled
             /\ reader'[d] = reader[d]
  BY <1>1, <1>2, <1>4 DEF Shared
<1>5. ~Shared(c) /\ asked[c] # {} => c \in cancelled'
  <2> SUFFICES ASSUME ~Shared(c), asked[c] # {} PROVE c \in cancelled'
    OBVIOUS
  <2>1. PICK t \in Types : c \in registered[t]
    BY <1>1 DEF Follows
  <2>2. c \in Matching(c)
    BY <2>1 DEF Matching
  <2> QED
    BY <1>2, <2>2 DEF Shared
<1>6. reader'[c] = "ended" /\ \A t \in Types : c \notin registered'[t]
  BY <1>1, <1>2
<1>7. Follows'
  BY <1>4, <1>5, <1>6 DEF Follows, CtxDone
<1>8. cancelled \subseteq cancelled'
  OBVIOUS
<1>9. ServedOnce' /\ ToldToEnd'
  BY <1>1, <1>8 DEF ServedOnce, ToldToEnd, CtxDone
<1> QED
  BY <1>3, <1>7, <1>9

\* The steps of the vertical API.
LEMMA VertStep ==
  ASSUME IInv, TypeOK', NEW c \in Conns,
         Connect(c) \/ Leave(c) \/ Vert(c) \/ SendToVert(c)
  PROVE  IInv'
<1> USE DEF IInv, mainVars, startVars, stratVars
<1>1. /\ sock \in [Conns -> {"none", "open", "left", "closed"}]
      /\ reader \in [Conns -> {"none", "reading", "unregistering", "ended"}]
      /\ writer \in [Conns -> {"none", "waiting", "writing", "ended"}]
  BY DEF TypeOK
<1>2. UNCHANGED <<registered, asked, cancelled>>
  BY DEF Connect, Leave, Vert, Serve, ReadEnds, Written, WriteEnds, SendToVert
<1>3. OncePerId'
  BY <1>2 DEF OncePerId
<1>4. CASE Connect(c) \/ Leave(c)
  BY <1>1, <1>2, <1>3, <1>4 DEF Connect, Leave, Follows, ServedOnce, ToldToEnd, CtxDone
<1>5. CASE Serve(c)
  BY <1>1, <1>2, <1>3, <1>5 DEF Serve, Follows, ServedOnce, ToldToEnd, CtxDone
<1>6. CASE ReadEnds(c)
  BY <1>1, <1>2, <1>3, <1>6 DEF ReadEnds, Follows, ServedOnce, ToldToEnd, CtxDone
<1>7. CASE Written(c) \/ WriteEnds(c) \/ SendToVert(c)
  BY <1>1, <1>2, <1>3, <1>7
     DEF Written, WriteEnds, SendToVert, Follows, ServedOnce, ToldToEnd, CtxDone
<1> QED
  BY <1>4, <1>5, <1>6, <1>7 DEF Vert

LEMMA VertCloseStep ==
  ASSUME IInv, TypeOK', VertClose
  PROVE  IInv'
<1>1. sock \in [Conns -> {"none", "open", "left", "closed"}]
  BY DEF IInv, TypeOK
<1> QED
  BY <1>1 DEF IInv, VertClose, stratVars, OncePerId, Follows, ServedOnce, ToldToEnd, CtxDone

LEMMA IInvStep ==
  ASSUME IInv, [Next]_vars
  PROVE  IInv'
<1> USE DEF vertVars, mainVars, startVars, stratVars
<1>0. TypeOK'
  BY TypeStep DEF IInv
<1>1. ASSUME NEW c \in Conns, FromVert(c)
      PROVE  IInv'
  <2>1. CASE HandleModuleUnregister(c)
    BY <1>0, <2>1, UnregisterStep
  <2>2. ASSUME NEW t \in Types, HandleTypeRegistration(c, t)
        PROVE  IInv'
    BY <1>0, <2>2, RegisterStep
  <2>3. CASE HandleGossipValidation(c) \/ \E t \in Types : HandleGossipAnnounce(c, t)
    BY <1>0, <2>3, UntouchedStep DEF HandleGossipValidation, HandleGossipAnnounce, TakeMessage
  <2> QED
    BY <1>1, <2>1, <2>2, <2>3 DEF FromVert
<1>2. ASSUME NEW c \in Conns, Connect(c) \/ Leave(c) \/ Vert(c) \/ SendToVert(c)
      PROVE  IInv'
  BY <1>0, <1>2, VertStep
<1>3. CASE \E t \in Types : HandleNotification(t)
  BY <1>0, <1>3, UntouchedStep DEF HandleNotification
<1>4. CASE SendToStrat \/ TakeFromHz \/ LoopEnds \/ Close
  BY <1>0, <1>4, UntouchedStep DEF SendToStrat, TakeFromHz, LoopEnds, Close
<1>5. CASE \E h \in Neighbours : HzAccept(h) \/ HzPush(h) \/ HzReadEnds(h) \/ HzUnregister(h)
  BY <1>0, <1>5, UntouchedStep DEF HzAccept, HzPush, HzReadEnds, HzUnregister, HzSend
<1>6. CASE Shutdown
  <2>1. CASE VertClose
    BY <1>0, <2>1, VertCloseStep
  <2>2. CASE LeaveLoop \/ StrategyClosed \/ VertClosed
    BY <1>0, <2>2, UntouchedStep DEF LeaveLoop, StrategyClosed, VertClosed
  <2> QED
    BY <1>6, <2>1, <2>2 DEF Shutdown
<1>7. CASE Start
  BY <1>0, <1>7, UntouchedStep DEF Start, Listen, NewStrategy, NewStrategyFails, Report
<1>8. CASE UNCHANGED vars
  BY <1>0, <1>8, UntouchedStep DEF vars
<1> QED
  BY <1>1, <1>2, <1>3, <1>4, <1>5, <1>6, <1>7, <1>8 DEF Next

THEOREM NodeInvariant == Spec => []IInv
BY IInvInit, IInvStep, PTL DEF Spec

-----------------------------------------------------------------------------
(* The theorems. *)

\* Every variable of the node keeps its type, whatever connects, leaves or closes
\* (Node.TypeOK).
THEOREM NodeTypeCorrect == Spec => []TypeOK
BY NodeInvariant, PTL DEF IInv

\* No list of notifyMap ever has two entries with one id (data.go:61-67), on which
\* RemoveChannel relies when it stops at the first.
THEOREM RegisteredOncePerId == Spec => []OncePerId
BY NodeInvariant, PTL DEF IInv

\* Main notifies no connection whose writer was told to end, unless its address was
\* used again (Node.WriterAlive).
THEOREM NotifiesLiveWriters == Spec => []WriterAlive
<1>1. IInv => WriterAlive
  <2> SUFFICES ASSUME IInv, NEW t \in Types, NEW c \in registered[t], ~Shared(c)
               PROVE  c \notin cancelled /\ (writer[c] = "ended" => vertDone)
    BY DEF WriterAlive
  <2>1. c \in Conns /\ reader[c] \in {"none", "reading", "unregistering", "ended"}
    BY DEF IInv, TypeOK
  <2>2. reader[c] \in {"reading", "unregistering"}
    BY <2>1 DEF IInv, Follows
  <2> QED
    BY <2>1, <2>2 DEF IInv, Follows, ToldToEnd, CtxDone
<1> QED
  BY <1>1, NodeInvariant, PTL

\* The context of a connection that had registered is closed once main has heard
\* of its end (main.go:244-252).
THEOREM ContextFollowsEnd == Spec => []ContextFollows
<1>1. IInv => ContextFollows
  BY DEF IInv, Follows, ContextFollows
<1> QED
  BY <1>1, NodeInvariant, PTL

\* No announcement is refused for a type that its own connection registered before
\* (main.go:273-278).
THEOREM RefusalsExplained == Spec => RefusalExplained
<1>1. IInv /\ [Next]_vars =>
        [\A c \in Conns, t \in Types :
           HandleGossipAnnounce(c, t) /\ run' = "select" => t \notin asked[c] \/ Shared(c)]_vars
  <2> SUFFICES ASSUME IInv, NEW c \in Conns, NEW t \in Types,
                      HandleGossipAnnounce(c, t), run' = "select", ~Shared(c)
               PROVE  t \notin asked[c]
    OBVIOUS
  <2>1. registered[t] = {}
    BY DEF HandleGossipAnnounce, Load
  <2>2. reader[c] = "reading"
    BY DEF HandleGossipAnnounce, TakeMessage
  <2> QED
    BY <2>1, <2>2 DEF IInv, Follows
<1> QED
  BY <1>1, NodeInvariant, PTL DEF Spec, RefusalExplained
=============================================================================
