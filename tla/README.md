# Whisper2Peer in TLA+

A gossip program in Go: peers keep TCP connections to each other (the
*horizontal API*), admit and renew them by proofs of work, and spread messages
that applications (*modules*, over the *vertical API*) announce and judge. These
modules model what is concurrent and stateful in it, TLC checks them on small
instances, and TLAPS proves the most important results for every instance.
Paths below are relative to `src/gossip/` of the repository.

## The system

| component | state | operations | talks to |
|---|---|---|---|
| connection manager, `strats/connection_manager.go` | three maps from id to connection (to be proved, in progress, open), a slice that duplicates the open ones, a mutex | `AddInProgress`, `MakeValid`, `Remove`, `CullConnections`, finders, `ActionOn...` | called by the strategy's loop and by the goroutines it spawns |
| push strategy, `strats/dummy.go` | three message caches, flag and timestamp of each connection, three tickers | one loop that handles horizontal messages, announcements, verdicts, tickers; one goroutine per challenge being solved | reads `fromHz` and `ToStrat`, writes `FromStrat` and the `Data` channel of each connection, all but `fromHz` unbuffered |
| ringbuffer, `internal/ringbuffer` | circular list, length, capacity | `Insert`, `Remove`, searches | the loop only |
| horizontal API, `horizontalAPI` | open sockets, one context per connection | listener, one reader and one writer goroutine per connection, `Close` | readers and listener write `fromHz`, writers read `Data` |
| cookies and proof of work, `strats/cookie.go`, `pow` | a cipher key; 32 workers race for a nonce | create and read a cookie, solve, check | called by handlers and by solver goroutines |
| main, `main` | map of registrations by type | start, one loop between the vertical API and the strategy, `Close` | `vertToMain`, `FromStrat`, `ToStrat`, `MainToVert`, all unbuffered |
| vertical API and its packets, `verticalAPI` | sockets, one context and one read buffer per module connection | listener, reader and writer goroutine per connection, `Close` | main |
| packet counter, arguments, simulation harness, registration client | small | sequential | - |

How a connection lives: the dialling side has it *to be proved*, the listening
side *in progress* after `NewConn`. `ConnReq`, `ConnChall` and `ConnPoW` pass
between the two loops; a goroutine at the dialling side solves the challenge,
sends the proof, and then calls `MakeValid`; the listening side calls it when it
has checked the proof. Both ends then renew each other periodically (`PowReq`,
`PowChall`, `PowPoW`), and each culls connections whose proof is too old. A
handler that refuses a message removes the connection from the manager; a reader
that ends sends `Unregister`.

How a message lives: an announcement goes to the valid cache; the gossip ticker
pushes every valid message to at most `Degree` open connections and moves it to
the sent cache; a peer that is pushed a message it has in no cache stores it
among the invalid ones and notifies its application, whose verdict deletes it or
moves it to the valid ones, or to the sent ones if its time to live is used up.
On the way in, an announcement is cut out of the byte stream of a module's
connection; its payload stays in the reader's buffer until it is relayed.

How a module lives: the listener accepts its connection and starts a reader and
a writer; the module registers for types, and main keeps the connection for every
type under its remote address. When the reader ends, main removes the
registrations and closes the connection's context, which ends the writer.
`Close` cancels main's loop; the deferred calls then close first the strategy
with the horizontal API and afterwards the vertical API, which waits for its
goroutines.

What is hard: the solver goroutines hold pointers and ids across the solving and
race with the loop, with culling and with removal; the loop holds the manager's
read lock while it sends on unbuffered channels; admission is done at the two
ends at different times; one flag stands for all renewals in flight; ids need
not be unique; caches forget messages whose verdict is still out; verdicts come
late and more than once; main and the strategy's loop each send to the other
without a buffer; goroutines have messages to hand over when their receiver is
shutting down; the address of a module comes back before main has heard that it
left; a payload is a piece of a buffer that is used again. The file `PROJECT.json` lists each of these hazards at
its line, with the properties that are there for it.

## Modules

| module | what it is |
|---|---|
| `ConnMaps` | the manager as a record and its methods as operators on it |
| `ConnectionManager` | the manager under its callers: the loop, solvers, culling step by step |
| `Connections` | abstract: one class per connection, with the moves between classes |
| `Handshake` | the loop of every peer, for connections: admission, renewal, tickers, solvers, readers and writers, loss |
| `Cache` | abstract: a set of bounded size that gives up some value when full |
| `Ringbuffer` | the circular list, with insertion order as history |
| `Gossip` | messages and the three caches of every peer in a network |
| `Node` | one peer from the inside: vertical API, main's loop, the strategy's loop, readers of the horizontal API, the start and the shutdown |
| `VerticalReader` | the byte stream of one module connection, its packets and the reader's buffer |
| `ProofOfWork` | one call of the parallel solver, and the peer's check of its result |
| `MC...` | instances for TLC |
| `ConnectionManagerProofs`, `ConnectionClassesProofs`, `RingbufferProofs`, `HandshakeProofs`, `GossipProofs`, `NodeProofs`, `ProofOfWorkProofs`, `VerticalReaderProofs` | theorems |

They build on each other in three chains. `ConnectionManager` implements
`Connections` for the connections that share their id with no other one, and
`Handshake` has the same classes, a variable `class` over ends, moved by
`Admitted` and `Removed` as `Connections` moves it; an end is valid in
`Handshake` where a link is open in `Gossip`. `Ringbuffer` implements `Cache`,
and `Gossip` inserts into its caches exactly as `Cache` does (`Inserted`), which
gives up *any* value. It must: the real order of eviction is not the order of age
(see below). `Node` is the peer around the strategy: what `Gossip` calls the
application is `Node`'s main and vertical API, and `Node` in turn leaves open
which pushes are new to the loop. What a reader does in one step in `Node`
(`TakeMessage`) is what `VerticalReader` does word by word (`ReadHeader`,
`ReadBody`), and what a solver does in one step in `Handshake` is a behaviour of
`ProofOfWork`.

An operator whose comment begins with "Fault:" is the operator or action after
it with a plausible bug. It is not part of any specification; `PROJECT.json`
("mutants") names the property that catches it.

### ConnMaps and ConnectionManager

A Go map is a function from ids to connections or `NoConn`; the slice is a
sequence. `IdOf` need not be injective: a neighbour can be listed twice, and a
remote address can come back. A method is one step since it holds the mutex,
except `CullConnections`: its first loop is `CullMark`, each iteration of its
second one `CullSwap`, and other callers wait (`Unlocked`) while positions are
left. The predicate given to `CullConnections` reads the clock; here it is any
predicate. `Solved` is the end of the goroutine of a `ConnChall`: it calls
`MakeValid` with an id whose connection may meanwhile be anywhere, or gives up.

### Handshake

An *end* is one peer's object for a connection. `inbox[e]` is the TCP stream, the
reader and `fromHz` together: a FIFO per connection, from which the loop takes in
any order among its connections. A handler is one step, except that the visits
of `ActionOn...` are one step to begin (`Visit`, which for a renewal sets the
flag) and one to send (`VisitSend`), so that solvers and writers move in
between; while visits are left, `Idle` is false, which is both the loop being
busy and the read lock being held. A solver goroutine goes through stages:
solving, sending the proof, calling `MakeValid`; sends need a writer that still
runs. `Lose` cuts the TCP connection at any moment: any suffix of what was under
way in either direction is lost, and both readers send `Unregister`. A reader is
taken to end with EOF; one that gets other errors for ever (see the hazards) is
not covered by `LostIsForgotten`. That property asks for more than the managers:
the writers at both ends return too, that is, somebody called `Cfunc`, except for
a connection that a late proof, a cull or a refused renewal dropped before the
loss, which `Unregister` does not find (see the deviations).

Left out: time (a ticker may fire, a proof be late and a connection be stale at
any moment), the contents of cookies and nonces (peers answer with the cookie
they were given and a good nonce), bounded TCP buffers, the shutdown.

### Ringbuffer

The list is the sequence met by following `Next` from `r.data`, so that
`r.data.Prev()` is its last element. `order` and `turned` are history variables,
for the property about age. A stored value is a pointer, never inserted twice.

### Gossip

A copy of a message carries its time to live, reduced modulo `TtlModulus` as a
`uint8` is modulo 256, and a hop count the code does not have. The gossip ticker
extracts (`Tick`) and then relays message by message (`Relay`); between two
messages a solver may open a connection, and nothing else of that peer happens.
Pushes arrive in order per connection. The application is main, the vertical
API and any number of modules: after a notification it answers any number of
times until it has given its last verdict, at any time. `endorsed`, `notices`,
`relays` and `forgotten` are history variables.

Left out: payload and type; equal ids for different messages; the queue of main.

### Node

A send on an unbuffered channel and its receive are one step of both goroutines;
a goroutine that offers a message is one that is at a place where only that step
leads on: `run = "toStrat"` is main at `ToStrat <-`, `loop = "notify"` the
strategy's loop at `FromStrat <-`, `hz[h] = "unregistering"` a deferred send to
`fromHz`. `fromHz` holds one message, as in `strats/main.go:65`. Main's handlers
(`HandleTypeRegistration`, `HandleGossipAnnounce`, `HandleGossipValidation`,
`HandleModuleUnregister`, `HandleNotification`) are one step each up to the point
at which they wait for another goroutine; `handleNotification` sends to one
writer after the other (`SendToVert`), in any order. It holds the slice it has
loaded while nothing else of main runs, so a set does for it.

A connection's `reader`, `writer` and `sock` follow the goroutines of
`verticalApi.go`; `accepting` is the connection that `Accept` has returned and
the listener has not put into `conns` yet, which a concurrent `Close` misses.
Main knows a connection by its remote address (`IdOf`); an address can come back
once the module has closed its end. Of two registrations with one address in
different types, `RemoveChannel` removes both and returns the last it meets, in
the random order of a Go map: `HandleModuleUnregister` closes the context of any
one of them.

The start is `Listen`, `NewStrategy` or `NewStrategyFails`, and `Report`; which of
its steps may fail is a constant. `Close` is guarded by the report of success,
for which the program waits. The deferred calls are `LeaveLoop`,
`StrategyClosed`, `VertClose` up to its wait, and `VertClosed`; `hz.Close`
returns after five seconds if it must, so `StrategyClosed` waits for nothing.

Left out: contents of messages but for the type; the strategy's tickers and
solvers (`Handshake`); goroutines of the horizontal API other than readers.

### VerticalReader

The unit is a word of two bytes, which every field fills, so that a header has
two words and a size of *n* stands for *2n* bytes. The module sends packets, packets
that are cut short and say so, and headers with a size below their own, and leaves
with any number of the last words lost. `ReadHeader` reads two words into the
buffer and grows it, `ReadBody` reads the rest and hands the message on,
`ReadTruncated` is an `io.ReadFull` that ends within either, after which the
reader goes on. `arrays` has every array that was ever behind the buffer; the
one in use is the last, and `slices.Grow` takes a new one, of any larger size,
only if it has to. A handed announcement refers to its payload by array and
size, and keeps what it was as a history. Main takes what it is given, and the
strategy keeps it for as long as it likes.

### ProofOfWork

The hash is a predicate on the sequence hashed. The caller spawns the workers one
by one and then is at its receive; a worker looks at the context, tests its
nonce, and goes on to the next of its lane. The `select` with a `default` is in
`Hit`: the nonce goes to a caller that is at its receive, or nowhere. `Hashed` is
what a worker hashes, from the prefix of the message it was cloned with;
`CheckProofOfWork` is what the peer computes from the message it receives.

## Runs

| run | instance | shows |
|---|---|---|
| `conn_manager` | 6 connections, 4 ids, two of them given twice, 2 solvers each | `SliceInv`, `OpenConsistent`, `DroppedStaysDropped`, `ImplementsConnections` |
| `handshake_renewal` | one connection, 2 renewal ticks and a push at each side, one fault | `LoopNeverStuck`, `DropsExplained` |
| `handshake_admission` | two peers that dialled each other, a push each, one fault, fairness | `OneHandshake`, `PushAfterProof`, `AllAdmitted`, `LostIsForgotten` |
| `handshake_solicited` | one connection | finding 1 |
| `ringbuffer` | 6 values, capacity 4 | `ListSound`, `AgeOrder`, `ImplementsCache` |
| `gossip_caches` | 2 peers, 3 messages, caches of 2, one connection closed, both verdicts | `OneCache`, `EndorsedOnly`, `NotifiedOnce`, `RelayedOnce`, `WaitsForRelay` |
| `gossip_spread` | 4 peers: a triangle with a tail, one message, time to live 3, fairness | `HopsBounded`, `Disseminated` |
| `node` | 3 module connections, the second from the address of the first, 2 types, 2 messages each | `OncePerId`, `WriterAlive`, `ContextFollows`, `RefusalExplained` |
| `node_close` | 1 module, 2 neighbours, 2 messages, 2 pushes, every step of the start may fail, fairness | `MainGoesOn`, `RunReturns`, `StartReported` |
| `pow` | 3 workers, 12 nonces, 3 cookies, fairness | `ResultProves`, `LanesSearched`, `Returns` |
| `packets` | 3 frames of 5 packets or cut short, fairness | `HandedAsSent`, `NotifiedAsAnnounced`, `EndNoticed` |
| `packets_payload` | the same | finding 2 |

Where a type invariant is not named the run checks it or another run of the
module does.

Why the bounds are enough. The slice of open connections reaches length 3,
enough for two positions to be culled with a third element to swap in; two
solvers for one connection are the case of a second challenge before the first
is solved. Two renewals per side are the smallest number with two requests in
flight; one fault per behaviour isolates what it leads to, at any of its
moments. A list of four elements has a head, a next, a last and another, so
that `Remove` meets each case. Caches of two forget a message as soon as three
are about, and `gossip_caches` does reach states in which a message is
notified of again. The triangle has a cycle and two paths of different
length, the tail a peer that only one of them reaches. In `node`, two connections
with one address and a third with another are the smallest set in which a removal
can hit the wrong registration and must spare a right one; two messages let a
connection register twice, or register and announce. In `node_close`, two
neighbours fill `fromHz` and still have one that waits for it; a second push
finds the loop at its notification, and with two messages the module can
register and then have main wait. The three frames of `packets` are a message,
one that grows or reuses the buffer, and one after a frame that was skipped; the
longest payload fills the size field of the smaller modulus. Of the cookies of
`pow` one has solutions late, one leaves a lane without any, and with one every
worker can find its nonce before the caller is at its receive.

The counters `MaxRenewals`, `MaxPushes`, `MaxFaults`, `MaxSolvers`, `MaxClosed`,
`MaxMessages` and `MaxFrames` bound behaviours, and `MaxSpare` the room an array
gets beyond what was asked; nothing else does. In `Handshake` and `Gossip`
behaviours end when these are used up and nothing is left to answer, so their
runs do not look for deadlock. What a deadlock search would look for is stated:
`LoopNeverStuck`, `AllAdmitted`, `LostIsForgotten`, `Disseminated`. The same
holds of `Node`, `VerticalReader` and `ProofOfWork`, which end when `Run` has
returned, the module has left, or the call has returned, and whose searches for a
deadlock are `MainGoesOn`, `RunReturns`, `EndNoticed` and `Returns`.

What these liveness properties except is as much a result as what they promise.
`MainGoesOn` and `RunReturns` show that a running peer stops only if main and the
loop are sending to each other (`MutualWait`: `dummy.go:147` against
`main.go:268,283,297`), or main is notifying a module whose address came back;
`RunReturns`, that a shutdown waits for ever only if a module's reader is left
with nobody to tell that it ended (`main.go:190`, `verticalApi.go:149`);
`StartReported`, that only a horizontal API that cannot listen goes unreported
(`strats/main.go:90`); `Returns`, that only nonces found before the caller is
at its receive are lost (`pow.go:151-155`). All of
these do occur in the runs, except that `node_close` has no address twice; that a
writer which was told to end can then stay registered occurs in `node`.

### Fairness

`Handshake`: weak fairness of every handler, solver step, send and writer. Go
schedules every goroutine that can go on, and `select` chooses at random among
its ready cases, so a message that can be taken is not passed over for ever.
Tickers have no fairness: no property needs them to fire. `Gossip`: the gossip
ticker fires again and again, loops go on, and applications that find
messages valid say so in the end (an assumption about them, in
`Disseminated` only). `Open`, `Close` and announcements have no fairness.

`Node`: weak fairness of what one goroutine can do by itself or with one that
waits for it; strong fairness of the cases of a `select`, since Go draws one of
the ready ones at random, so that one that is ready again and again is taken.
A module reads what is written to it. Nobody has to connect, send, leave or
call `Close`. `VerticalReader`: the reader runs on, and main takes what it hands
over. `ProofOfWork`: every goroutine runs on; nothing is assumed about the order.

## Findings

1. `SolicitedChallengeAccepted`: the challenge that answers the second of two
   renewal requests is refused, and its sender dropped, when the goroutine of
   the first clears the flag both share (`dummy.go:265,278,375`).
2. `AnnouncedPayloadKept`: the next message of a module is read over the payload
   of its announcement, which waits for the gossip tick
   (`gossip_announce.go:59`, `verticalApi.go:167,193-194`, `dummy.go:414`).

`DropsExplained` shows that the first is the only way in which honest peers drop
each other without a fault.

Deviations from docs or comments that were met while modelling and have no run:

- A connection that a handler or the timeout dropped before its reader ended
  keeps its context open and its writer waiting (`dummy.go:123-127`, against
  `horizontalAPI.go:362-363`).
- After the newest value is removed, the buffer does not overwrite the oldest
  (`ringbuffer.go:88-91`, against `ringbuffer.go:57`); `AgeOrder` is the
  part that holds.
- A time to live of 0, which stands for no limit, wraps to 255 (`dummy.go:350`).
- A gossip tick without open connections moves what was to be relayed to the sent
  messages (`dummy.go:361-369`). `WaitsForRelay` names it, next to a full cache, as
  the only way in which a message that waits is not relayed.
- `AddChannelToType` does not delete the first type when there are more than the
  cache size (`data.go:55`).
- `Close` of main returns when the loop has ended, not when the deferred calls
  of `Run` have; after a start that failed it waits for ever (`main.go:188,196`
  return without `wg.Done`).

## Proofs

All theorems hold for every value of the constants that satisfies the `ASSUME`
of the module, and further assumptions where named.

- `ConnectionManagerProofs`: `TypeCorrect`, `SliceInvariant`,
  `SliceAndMapAgree`, `StaysDropped`. The inductive invariant is `TypeOK`
  and `SliceInv`: positions still to be swapped out lie in the slice, ids in the
  slice are distinct, an element is in the map under its id unless its position
  is marked, and every entry of the map is at an unmarked position. What is
  not obvious is that this survives a swap: the last element moves to the position
  swapped out, and is never itself marked, since the highest marked
  position goes first.
- `ConnectionClassesProofs`: `ManagerIsClasses`. For the connections that share
  their id with no other one (`Distinct`), every step of the manager is a step or
  a stutter of `Connections`, whatever the others do. It needs a further
  invariant: no id of such a connection is in two maps, and a connection not
  yet announced is in none.
- `HandshakeProofs`: `InvariantHolds`, and from it `TypeCorrect`, `NeverStuck`,
  `HandshakeOnce`, `ProofBeforePush` and `DropsAreExplained`, for any number of
  peers and connections and any bounds. None of the last four is inductive: what
  one side may do depends on what the other did and on what is under way. The
  conjuncts of `IInv` say just that. `Roles`: which classes and messages a
  dialled and an accepted end can have. `Announced`: `NewConn` is in an inbox
  until it is handled, and first. `Once`: the request, the challenge, the
  goroutine and the proof of a connection count to at most one, along the path to
  `MakeValid` at either side, and to exactly one while nothing was lost or
  dropped. `PushBehindProof`: before every push at a connection not yet open is
  its proof. `Visiting`: what the loop has still to send to stays in the class in
  which it was chosen, since the loop holds the lock. `Closing`: `Cfunc` was
  called for removed connections only. `CutBoth`: a connection is cut at both
  ends. `Renewing`: messages and goroutines of the renewal concern ends that were
  admitted. `DropsExplained` is then a look at what each handler refuses.
- `RingbufferProofs`: `TypeCorrect`, for every capacity, and `ListIsSound`,
  `RingbufferIsCache` and `OldestIsOverwritten`, for a capacity of at
  least 2. The list is injective and, unless empty, as long as the length, at
  most the capacity; so `Contents` has `len` elements, and the three shapes of
  an insertion are the two of `Cache`. `OrderInv` adds that `order` is another
  arrangement of the same values, so that a value taken out is at one place of
  each.
- `GossipProofs`: `PushesAreEndorsed` and `TtlBoundsHops`. A push repeats
  what a cache had, so the invariant is about caches: what waits to be relayed
  is endorsed (`Backed`), and for a copy in a cache or on a link the time to
  live and the hops made add up to the announced time to live, or to one more
  before the arrival is counted (`HopsInv`). It is what makes the comparison
  with 1 sufficient to keep the `uint8` from wrapping. `GossipTypeCorrect`,
  `PlacedOnce`, `NoticesBounded`, `RelaysBounded` and `WaitingIsKept` rest on a second invariant,
  `CachesInv`, proved on top of the first: a message is at one place in at most one of
  the caches of a peer, and what the ticker has still to relay is valid
  (`Placed`); nobody has a message before it is announced (`Known`); one that is
  held was taken in once more than it was forgotten, with a notice each time but
  for the announcement (`Noticed`); one that was relayed and not forgotten is among
  the sent ones (`Relayed`). The bounds that the runs check say nothing of the
  caches and so are not inductive: whether one more notice is allowed depends on
  whether a cache still has the message. `WaitingIsKept` is the action property
  `WaitsForRelay`, one step at a time: an insertion takes a message from those that
  wait only when they are `Capacity`, and the one message a round takes is the
  one it relays, since no other with its id waits (`Placed`).
- `NodeProofs`: `NodeTypeCorrect`, `RegisteredOncePerId`, `NotifiesLiveWriters`,
  `ContextFollowsEnd`, `RefusalsExplained`, for any number of connections, types
  and neighbours and any reuse of addresses. What main has registered says
  nothing by itself; `Follows` ties it to how far the reader of the connection
  is: while it reads, all it asked for is registered and its context is open;
  once main has heard of its end, nothing is registered and the context is
  closed. `OncePerId` is what makes one removal per type enough. That a writer
  ends only when told (`ToldToEnd`) then gives `WriterAlive`.
- `ProofOfWorkProofs`: `ProofOfWorkTypeCorrect`, `ReceivedNonceProves` and
  `NoSolutionPassed`. The lemma behind the second is that the prefix a worker
  hashes and its nonce are together the message the peer hashes
  (`HashedIsChecked`). The third is arithmetic: a step of `W` stays in its lane
  also where the nonce wraps, since `W` divides the number of nonces
  (`LanesAssumption`; `pow.go:33` has 32 workers, and nonces are `uint64`).
- `VerticalReaderProofs`: `ReaderInvariant`, and from it `ReaderTypeCorrect`,
  `MessagesHandedAsSent` and `AnnouncementsNotified`, for every set of packets,
  way to cut them and growth of the buffer. The stream has lost what was read,
  so the invariant says where in it every frame lies that is still unread, one
  behind the other, the last ones possibly cut off, and that the first begins where
  the reader is (`Aligned`); and that the header of a frame whose body is awaited is
  in the buffer (`Buffered`). A frame that is skipped moves every place by its
  size, so the reader stays in step. `AnnouncementsNotified` adds only what the two
  conversions do to the fields.

With these every safety invariant and every action property of the runs is a
theorem. Only model-checked: the liveness properties (`AllAdmitted`, `LostIsForgotten`,
`Disseminated`, `MainGoesOn`, `RunReturns`, `StartReported`, `Returns`,
`EndNoticed`), since the prover handles neither fairness nor `ENABLED`; and the two
properties the code violates. That `Kept`, the helper of the history `order` in
`Ringbuffer`, takes one value out at a time, instead of being a filter, is for
the proofs: a filter of a sequence is recursive.

## Plan

Done: the connection manager, the strategy's loop for connections and for
messages, the ringbuffer, the peer around it with start and shutdown, the vertical
API with its packets, the solver. Left, in this order:

1. Proofs of refinements between the chains: each cache of a peer of `Gossip` as a
   `Cache`, the classes of `Handshake` as `Connections`, for which the
   invariants are there.
2. `Renewal`: a clock, timestamps in cookies, reordered proofs, the relation of
   the renewal interval to the timeout.
3. `Streams`: two loops with bounded TCP buffers, for the wait of loops on each
   other's reader.

## Not modelled

- Cookies: the cipher and the layout of the cleartext. Peers of the models answer
  with the cookie they were given, and what a forged cookie leads to is the
  cipher's matter.
- The encoding of the horizontal API (generated code of a serialisation library),
  and readers that meet errors other than the end of a connection.
- Time: tickers fire at any moment, and any connection may be stale at a timeout.
- Statistics, arguments and logging, which keep no state that anything depends on.
- The simulation harness, which starts many peers for evaluation, and the
  registration client, a program of its own that sends one proof of work to a
  course server and ends.
