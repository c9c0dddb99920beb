-------------------------------- MODULE Node --------------------------------
(***************************************************************************)
(* One peer from the inside: the goroutines of the vertical API (listener, *)
(* a reader and a writer per connection of an application module), Main's  *)
(* loop, the strategy's loop, the readers of the horizontal API, the start *)
(* of them all, which may fail in each of its steps, and the shutdown.     *)
(*                                                                         *)
(* vertToMain, FromStrat, ToStrat and every MainToVert are unbuffered: a   *)
(* send and its receive are one step of both goroutines, and a goroutine   *)
(* that offers a message waits.  fromHz holds one message.  A connection   *)
(* of a module is named to main by its remote address (IdOf), which may be *)
(* that of an earlier connection whose end main has not heard of yet.      *)
(*                                                                         *)
(* Contents of messages are left out, but for the type by which modules    *)
(* register; which pushes are new to the strategy is left open (module     *)
(* Gossip), as are its tickers (module Handshake).                         *)
(***************************************************************************)
EXTENDS Integers, FiniteSets

CONSTANTS
  Conns,         \* connections of modules
  IdOf,          \* their remote addresses
  Types,         \* gossip types
  Neighbours,    \* connections to other peers
  Failing,       \* the steps of the start that may fail: "vert", "hz", "dial"
  MaxMessages,   \* bound: messages a module sends on one connection
  MaxPushes      \* bound: pushes that arrive

ASSUME NodeAssumption ==
  /\ Failing \subseteq {"vert", "hz", "dial"}
  /\ IdOf \in [Conns -> {IdOf[c] : c \in Conns}]
  /\ MaxMessages \in Nat /\ MaxPushes \in Nat

VARIABLES
  sock,        \* "left": the module has closed it, "closed": this peer has
  accepting,   \* the connection the listener has accepted and not yet noted
  conns,       \* VerticalApi.conns
  reader, writer,
  cancelled,   \* connections whose Cfunc was called
  vertDone,    \* the context of the vertical API is done
  registered,  \* Main.typeStorage
  run,         \* where Main.Run is
  todo,        \* registrations handleNotification has still to send to
  closing,     \* Main.Close was called
  up,          \* the APIs that listen
  initFinished,  \* what Run has reported to its caller
  loop,        \* where the strategy's loop is
  stratDone,   \* the contexts of the strategy and of the horizontal API are done
  hz,          \* the readers of the horizontal API
  fromHz,      \* what the channel holds
  sent, pushes,  \* counters for the bounds
  asked        \* history: the types a connection's module asked main to register

vertVars == <<sock, accepting, conns, reader, writer, vertDone, sent>>
startVars == <<up, initFinished>>
mainVars == <<cancelled, registered, run, todo, closing, asked, startVars>>
stratVars == <<loop, stratDone, hz, fromHz, pushes>>
vars == <<vertVars, mainVars, stratVars>>

TypeOK ==
  /\ sock \in [Conns -> {"none", "open", "left", "closed"}]
  /\ accepting \subseteq Conns /\ Cardinality(accepting) <= 1
  /\ conns \subseteq Conns
  /\ reader \in [Conns -> {"none", "reading", "unregistering", "ended"}]
  /\ writer \in [Conns -> {"none", "waiting", "writing", "ended"}]
  /\ cancelled \subseteq Conns
  /\ registered \in [Types -> SUBSET Conns]
  /\ run \in {"listen", "construct", "select", "toStrat", "notify", "stratClose", "vertClose", "vertWait", "returned"}
  /\ todo \subseteq Conns /\ (todo # {} <=> run = "notify")
  /\ up \subseteq {"vert", "hz"} /\ initFinished \in {"none", "nil", "error"}
  /\ loop \in {"none", "select", "notify", "ended"}
  /\ closing \in BOOLEAN /\ vertDone \in BOOLEAN /\ stratDone \in BOOLEAN
  /\ hz \in [Neighbours -> {"none", "reading", "unregistering", "ended"}]
  /\ fromHz \in {"empty", "NewConn", "Push", "Unregister"}
  /\ sent \in [Conns -> 0..MaxMessages] /\ pushes \in 0..MaxPushes
  /\ asked \in [Conns -> SUBSET Types]

Init ==
  /\ sock = [c \in Conns |-> "none"]
  /\ accepting = {} /\ conns = {}
  /\ reader = [c \in Conns |-> "none"]
  /\ writer = [c \in Conns |-> "none"]
  /\ cancelled = {} /\ vertDone = FALSE
  /\ registered = [t \in Types |-> {}]
  /\ run = "listen" /\ todo = {} /\ closing = FALSE
  /\ up = {} /\ initFinished = "none"
  /\ loop = "none" /\ stratDone = FALSE
  /\ hz = [h \in Neighbours |-> "none"] /\ fromHz = "empty"
  /\ sent = [c \in Conns |-> 0] /\ pushes = 0
  /\ asked = [c \in Conns |-> {}]

CtxDone(c) == c \in cancelled \/ vertDone

-----------------------------------------------------------------------------
(* The start. *)

\* va.Listen; modules can connect from here on.
Listen ==
  /\ run = "listen"
  /\ \/ /\ run' = "construct" /\ up' = up \cup {"vert"}
        /\ UNCHANGED initFinished
     \/ /\ "vert" \in Failing
        /\ run' = "returned" /\ initFinished' = "error"
        /\ UNCHANGED up
  /\ UNCHANGED <<vertVars, cancelled, registered, todo, closing, asked, stratVars>>

\* The error of hz.Listen is not looked at.
HzListen == up' = up \cup {"hz"} \/ ("hz" \in Failing /\ up' = up)

\* gs.New, and the loop that it is for.
NewStrategy ==
  /\ run = "construct"
  /\ HzListen
  /\ run' = "select" /\ loop' = "select"
  /\ UNCHANGED <<vertVars, cancelled, registered, todo, closing, asked, initFinished,
                 stratDone, hz, fromHz, pushes>>

\* Fault: nobody hears of the error.
NewStrategyFailsSilently ==
  /\ run = "construct" /\ "dial" \in Failing
  /\ HzListen
  /\ run' = "vertClose"
  /\ UNCHANGED <<vertVars, cancelled, registered, todo, closing, asked, initFinished, stratVars>>

\* gs.New with a neighbour that cannot be dialled: it listens all the same.
NewStrategyFails ==
  /\ run = "construct" /\ "dial" \in Failing
  /\ HzListen
  /\ run' = "vertClose" /\ initFinished' = "error"
  /\ UNCHANGED <<vertVars, cancelled, registered, todo, closing, asked, stratVars>>

\* The goroutine that waits for both APIs.
Report ==
  /\ loop # "none" /\ up = {"vert", "hz"} /\ initFinished = "none"
  /\ initFinished' = "nil"
  /\ UNCHANGED <<vertVars, cancelled, registered, run, todo, closing, asked, up, stratVars>>

-----------------------------------------------------------------------------
(* The vertical API. *)

\* Accept returns.  An address comes back only after its connection was left.
Connect(c) ==
  /\ sock[c] = "none" /\ accepting = {} /\ "vert" \in up /\ ~vertDone
  /\ \A d \in Conns : IdOf[d] = IdOf[c] => sock[d] # "open"
  /\ sock' = [sock EXCEPT ![c] = "open"]
  /\ accepting' = {c}
  /\ UNCHANGED <<conns, reader, writer, vertDone, sent, mainVars, stratVars>>

\* The listener notes the connection and starts its goroutines.
Serve(c) ==
  /\ c \in accepting
  /\ accepting' = {}
  /\ conns' = conns \cup {c}
  /\ reader' = [reader EXCEPT ![c] = "reading"]
  /\ writer' = [writer EXCEPT ![c] = "waiting"]
  /\ UNCHANGED <<sock, vertDone, sent, mainVars, stratVars>>

\* The module closes its end, or dies.
Leave(c) ==
  /\ sock[c] = "open"
  /\ sock' = [sock EXCEPT ![c] = "left"]
  /\ UNCHANGED <<accepting, conns, reader, writer, vertDone, sent, mainVars, stratVars>>

\* EOF, or the connection was closed here.
ReadEnds(c) ==
  /\ reader[c] = "reading" /\ sock[c] \in {"left", "closed"}
  /\ sock' = [sock EXCEPT ![c] = "closed"]
  /\ reader' = [reader EXCEPT ![c] = "unregistering"]
  /\ UNCHANGED <<accepting, conns, writer, vertDone, sent, mainVars, stratVars>>

\* Fault: a write that fails ends the writer.
WrittenOrEnds(c) ==
  /\ writer[c] = "writing"
  /\ writer' = [writer EXCEPT ![c] = IF sock[c] = "open" THEN "waiting" ELSE "ended"]
  /\ UNCHANGED <<sock, accepting, conns, reader, vertDone, sent, mainVars, stratVars>>

\* The write has succeeded, or failed.
Written(c) ==
  /\ writer[c] = "writing"
  /\ writer' = [writer EXCEPT ![c] = "waiting"]
  /\ UNCHANGED <<sock, accepting, conns, reader, vertDone, sent, mainVars, stratVars>>

WriteEnds(c) ==
  /\ writer[c] \in {"waiting", "writing"} /\ CtxDone(c)
  /\ writer' = [writer EXCEPT ![c] = "ended"]
  /\ UNCHANGED <<sock, accepting, conns, reader, vertDone, sent, mainVars, stratVars>>

-----------------------------------------------------------------------------
(* The registrations. *)

Load(t) == registered[t]

\* Fault: a connection that is registered already is not looked for.
AddChannelUnchecked(t, c) == [registered EXCEPT ![t] = @ \cup {c}]

AddChannelToType(t, c) ==
  [registered EXCEPT ![t] = IF \E d \in @ : IdOf[d] = IdOf[c] THEN @ ELSE @ \cup {c}]

\* The registrations whose connection has the id of c.
Matching(c) == {d \in UNION {registered[t] : t \in Types} : IdOf[d] = IdOf[c]}

\* Fault: the search ends at the first type that has the id.
RemoveChannelOnce(c) ==
  IF \E t \in Types : registered[t] \cap Matching(c) # {}
  THEN LET t == CHOOSE u \in Types : registered[u] \cap Matching(c) # {}
       IN  [registered EXCEPT ![t] = @ \ Matching(c)]
  ELSE registered

\* Fault: the entry is replaced by the last one, and the list cut there as well.
RemoveChannelOfType(c) ==
  [t \in Types |-> IF registered[t] \cap Matching(c) = {} THEN registered[t] ELSE {}]

RemoveChannel(c) == [t \in Types |-> registered[t] \ Matching(c)]

-----------------------------------------------------------------------------
(* Main's loop. *)

\* Main receives a message of the module of c.  A reader that waits to hand one
\* over is not told from one that has not read it yet: only the end of a reader
\* is seen before main takes it.
TakeMessage(c) ==
  /\ run = "select" /\ reader[c] = "reading" /\ sock[c] \in {"open", "left"}
  /\ sent[c] < MaxMessages
  /\ sent' = [sent EXCEPT ![c] = @ + 1]
  /\ UNCHANGED <<sock, accepting, conns, reader, writer, vertDone, stratVars>>

HandleGossipValidation(c) ==
  /\ TakeMessage(c)
  /\ run' = "toStrat"
  /\ UNCHANGED <<cancelled, registered, todo, closing, asked, startVars>>

HandleGossipAnnounce(c, t) ==
  /\ TakeMessage(c)
  /\ run' = IF Load(t) = {} THEN "select" ELSE "toStrat"
  /\ UNCHANGED <<cancelled, registered, todo, closing, asked, startVars>>

HandleTypeRegistration(c, t) ==
  /\ TakeMessage(c)
  /\ registered' = AddChannelToType(t, c)
  /\ asked' = [asked EXCEPT ![c] = @ \cup {t}]
  /\ UNCHANGED <<cancelled, run, todo, closing, startVars>>

\* Fault: the context is closed only if a registration is left.
HandleModuleUnregisterLate(c) ==
  /\ run = "select" /\ reader[c] = "unregistering"
  /\ reader' = [reader EXCEPT ![c] = "ended"]
  /\ conns' = conns \ {c}
  /\ registered' = RemoveChannel(c)
  /\ cancelled' = cancelled \cup {d \in Matching(c) : \E t \in Types : d \in registered'[t]}
  /\ UNCHANGED <<sock, accepting, writer, vertDone, sent, run, todo, closing, asked, startVars, stratVars>>

\* Of the registrations it removed it closes the context of one, the last it met.
HandleModuleUnregister(c) ==
  /\ run = "select" /\ reader[c] = "unregistering"
  /\ reader' = [reader EXCEPT ![c] = "ended"]
  /\ conns' = conns \ {c}
  /\ registered' = RemoveChannel(c)
  /\ IF Matching(c) = {} THEN UNCHANGED cancelled
     ELSE \E d \in Matching(c) : cancelled' = cancelled \cup {d}
  /\ UNCHANGED <<sock, accepting, writer, vertDone, sent, run, todo, closing, asked, startVars, stratVars>>

\* The strategy's notification; the type without a module is answered as invalid.
HandleNotification(t) ==
  /\ run = "select" /\ loop = "notify"
  /\ loop' = "select"
  /\ todo' = Load(t)
  /\ run' = IF Load(t) = {} THEN "toStrat" ELSE "notify"
  /\ UNCHANGED <<vertVars, cancelled, registered, closing, asked, startVars,
                 stratDone, hz, fromHz, pushes>>

\* Fault: main does not come back to its select.
SendToVertStays(c) ==
  /\ run = "notify" /\ c \in todo /\ writer[c] = "waiting"
  /\ writer' = [writer EXCEPT ![c] = "writing"]
  /\ todo' = todo \ {c}
  /\ UNCHANGED <<sock, accepting, conns, reader, vertDone, sent,
                 run, cancelled, registered, closing, asked, startVars, stratVars>>

\* The writer of c takes the notification.
SendToVert(c) ==
  /\ run = "notify" /\ c \in todo /\ writer[c] = "waiting"
  /\ writer' = [writer EXCEPT ![c] = "writing"]
  /\ todo' = todo \ {c}
  /\ run' = IF todo = {c} THEN "select" ELSE "notify"
  /\ UNCHANGED <<sock, accepting, conns, reader, vertDone, sent,
                 cancelled, registered, closing, asked, startVars, stratVars>>

\* The strategy's loop takes the message main offers it.
SendToStrat ==
  /\ run = "toStrat" /\ loop = "select"
  /\ run' = "select"
  /\ UNCHANGED <<vertVars, cancelled, registered, todo, closing, asked, startVars, stratVars>>

-----------------------------------------------------------------------------
(* The strategy's loop and the readers of the horizontal API. *)

\* The reader of h goes on once fromHz has taken m.
HzSend(h, from, m, to) ==
  /\ hz[h] = from /\ hz' = [hz EXCEPT ![h] = to]
  /\ fromHz = "empty" /\ fromHz' = m
  /\ UNCHANGED <<vertVars, mainVars, loop, stratDone>>

\* A connection is announced before anything else is done with it; it may have been
\* accepted before the shutdown began.
HzAccept(h) ==
  /\ "hz" \in up
  /\ HzSend(h, "none", "NewConn", "reading")
  /\ UNCHANGED pushes

HzPush(h) ==
  /\ HzSend(h, "reading", "Push", "reading")
  /\ pushes < MaxPushes /\ pushes' = pushes + 1

\* The connection to the neighbour is lost, or closed here.
HzReadEnds(h) ==
  /\ hz[h] = "reading" /\ hz' = [hz EXCEPT ![h] = "unregistering"]
  /\ UNCHANGED <<vertVars, mainVars, loop, stratDone, fromHz, pushes>>

HzUnregister(h) == HzSend(h, "unregistering", "Unregister", "ended") /\ UNCHANGED pushes

\* A push may be known already, or come from a peer that is not admitted.
TakeFromHz ==
  /\ loop = "select" /\ fromHz # "empty"
  /\ fromHz' = "empty"
  /\ \/ UNCHANGED <<loop>>
     \/ fromHz = "Push" /\ loop' = "notify"
  /\ UNCHANGED <<vertVars, mainVars, stratDone, hz, pushes>>

LoopEnds ==
  /\ loop = "select" /\ stratDone
  /\ loop' = "ended"
  /\ UNCHANGED <<vertVars, mainVars, stratDone, hz, fromHz, pushes>>

-----------------------------------------------------------------------------
(* Shutdown. *)

\* The caller waits for the report before it does anything else.
Close ==
  /\ initFinished = "nil" /\ ~closing
  /\ closing' = TRUE
  /\ UNCHANGED <<vertVars, cancelled, registered, run, todo, asked, startVars, stratVars>>

\* Main leaves its loop; the deferred calls begin with that of strategy.Close.
LeaveLoop ==
  /\ run = "select" /\ closing
  /\ run' = "stratClose"
  /\ stratDone' = TRUE
  /\ UNCHANGED <<vertVars, cancelled, registered, todo, closing, asked, startVars, loop, hz, fromHz, pushes>>

\* hz.Close returns, with its goroutines ended or after five seconds.
StrategyClosed ==
  /\ run = "stratClose"
  /\ run' = "vertClose"
  /\ UNCHANGED <<vertVars, cancelled, registered, todo, closing, asked, startVars, stratVars>>

\* Fault: the context of the vertical API is not cancelled.
VertCloseSocketsOnly ==
  /\ run = "vertClose"
  /\ run' = "vertWait"
  /\ sock' = [c \in Conns |-> IF c \in conns THEN "closed" ELSE sock[c]]
  /\ UNCHANGED <<accepting, conns, reader, writer, vertDone, sent,
                 cancelled, registered, todo, closing, asked, startVars, stratVars>>

\* va.Close up to its wait.
VertClose ==
  /\ run = "vertClose"
  /\ run' = "vertWait"
  /\ vertDone' = TRUE
  /\ sock' = [c \in Conns |-> IF c \in conns THEN "closed" ELSE sock[c]]
  /\ UNCHANGED <<accepting, conns, reader, writer, sent,
                 cancelled, registered, todo, closing, asked, startVars, stratVars>>

\* The wait group of the vertical API is at zero.
VertClosed ==
  /\ run = "vertWait" /\ accepting = {}
  /\ \A c \in Conns : {reader[c], writer[c]} \subseteq {"none", "ended"}
  /\ run' = "returned"
  /\ UNCHANGED <<vertVars, cancelled, registered, todo, closing, asked, startVars, stratVars>>

-----------------------------------------------------------------------------

Vert(c) ==
  \/ Serve(c) \/ ReadEnds(c) \/ Written(c) \/ WriteEnds(c)

FromVert(c) ==
  \/ HandleGossipValidation(c) \/ HandleModuleUnregister(c)
  \/ \E t \in Types : HandleGossipAnnounce(c, t) \/ HandleTypeRegistration(c, t)

Start == Listen \/ NewStrategy \/ NewStrategyFails \/ Report

Shutdown == LeaveLoop \/ StrategyClosed \/ VertClose \/ VertClosed

Next ==
  \/ \E c \in Conns :
       Connect(c) \/ Leave(c) \/ Vert(c) \/ FromVert(c) \/ SendToVert(c)
  \/ \E t \in Types : HandleNotification(t)
  \/ SendToStrat
  \/ \E h \in Neighbours : HzAccept(h) \/ HzPush(h) \/ HzReadEnds(h) \/ HzUnregister(h)
  \/ TakeFromHz \/ LoopEnds
  \/ Start \/ Close \/ Shutdown

Spec == Init /\ [][Next]_vars

\* Goroutines that can go on do, and a module reads what is written to it.  Main's
\* select is fair among its cases (Go draws one at random), so that what is offered
\* and taken again and again is taken in the end.  Nobody has to send or close.
Fairness ==
  /\ \A c \in Conns :
       /\ WF_vars(Serve(c)) /\ WF_vars(ReadEnds(c)) /\ WF_vars(Written(c)) /\ WF_vars(WriteEnds(c))
       /\ WF_vars(SendToVert(c)) /\ SF_vars(HandleModuleUnregister(c))
  /\ WF_vars(SendToStrat) /\ SF_vars(\E t \in Types : HandleNotification(t))
  /\ WF_vars(TakeFromHz) /\ SF_vars(LoopEnds)
  /\ WF_vars(Listen) /\ WF_vars(NewStrategy \/ NewStrategyFails) /\ WF_vars(Report)
  /\ SF_vars(LeaveLoop) /\ WF_vars(StrategyClosed) /\ WF_vars(VertClose) /\ WF_vars(VertClosed)

FairSpec == Spec /\ Fairness

-----------------------------------------------------------------------------
(* Properties. *)

Shared(c) == \E d \in Conns \ {c} : IdOf[d] = IdOf[c]

\* Main and the strategy's loop wait for each other on two unbuffered channels.
MutualWait == run = "toStrat" /\ loop = "notify"

\* A type is registered once per id, which is what lets RemoveChannel stop at the
\* first entry it finds in a list.
OncePerId ==
  \A t \in Types : \A c, d \in registered[t] : IdOf[c] = IdOf[d] => c = d

\* As long as main is in its loop, no connection is registered whose writer was
\* told to end, so that main never waits to notify a writer that is not there;
\* except when an address came back before main heard that it was left.
WriterAlive ==
  \A t \in Types : \A c \in registered[t] :
    (c \in cancelled => Shared(c)) /\ (writer[c] = "ended" => Shared(c) \/ vertDone)

\* Once main has heard that a connection ended, its context is closed and so its
\* writer ends, if its module had asked for a registration and the address is its own.
ContextFollows ==
  \A c \in Conns : reader[c] = "ended" /\ asked[c] # {} => CtxDone(c) \/ Shared(c)

\* An announcement is refused only if its module did not register the type before,
\* on the same connection: the two cannot overtake each other.
RefusalExplained ==
  [][\A c \in Conns, t \in Types :
       HandleGossipAnnounce(c, t) /\ run' = "select" => t \notin asked[c] \/ Shared(c)]_vars

\* Whatever main is doing for a message, it comes back to its select, unless it
\* and the strategy's loop wait for each other.
MainGoesOn ==
  run \in {"toStrat", "notify"} ~>
    \/ run \notin {"toStrat", "notify"}
    \/ MutualWait
    \/ \E c \in todo : Shared(c)

\* Run reports whether the start has succeeded, unless the horizontal API could not
\* listen: its error is dropped, and who waits for the report waits for ever.
StartReported ==
  <>(initFinished # "none" \/ (run = "select" /\ "hz" \notin up))

\* After Close, Run returns, unless main had stopped before, or a module was still
\* connected: its reader then has nobody to tell that it ended.
RunReturns ==
  closing ~>
    \/ run = "returned"
    \/ MutualWait
    \/ \E c \in todo : Shared(c)
    \/ run = "vertWait" /\ \E c \in Conns : reader[c] \notin {"none", "ended"}
=============================================================================
