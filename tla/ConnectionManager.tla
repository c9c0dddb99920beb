-------------------------- MODULE ConnectionManager --------------------------
(***************************************************************************)
(* strats.ConnectionManager under its callers: the event loop of the       *)
(* strategy, one goroutine that calls one method after the other, and the  *)
(* goroutines it spawns to solve a challenge, each of which keeps a        *)
(* pointer to a connection and calls MakeValid when it is done.            *)
(*                                                                         *)
(* A method holds connMutex from its first to its last statement, so it is *)
(* one step, except CullConnections: its second loop is one step per       *)
(* iteration, with the mutex held, so that what the loop relies on is      *)
(* visible.  The timestamp of a connection is read only by the predicate   *)
(* given to CullConnections; here that predicate is any predicate.         *)
(***************************************************************************)
EXTENDS ConnMaps

CONSTANTS
  Neighbours,   \* the connections dialled before the strategy starts
  MaxSolvers    \* bound: challenges of one connection being solved at once

ASSUME ConnectionManagerAssumption ==
  /\ Neighbours \subseteq Conns
  /\ MaxSolvers \in Nat

VARIABLES
  mgr,       \* the manager
  toRemove,  \* positions CullConnections still has to swap out; it holds the mutex while there are any
  solvers,   \* solvers[c]: goroutines that will call MakeValid for c
  fresh      \* connections the horizontal API has not announced yet

vars == <<mgr, toRemove, solvers, fresh>>

TypeOK ==
  /\ mgr \in Managers
  /\ toRemove \in SUBSET Nat
  /\ solvers \in [Conns -> 0..MaxSolvers]
  /\ fresh \in SUBSET Conns

Init ==
  /\ \E f \in ToBeProvedMaps(Neighbours) : mgr = NewManager(f)
  /\ toRemove = {}
  /\ solvers = [c \in Conns |-> 0]
  /\ fresh = Conns \ Neighbours

\* connMutex is free.
Unlocked == toRemove = {}

-----------------------------------------------------------------------------
(* NewConn: a connection was accepted. *)
Accept(c) ==
  /\ Unlocked
  /\ c \in fresh
  /\ mgr' = AddInProgress(mgr, c)
  /\ fresh' = fresh \ {c}
  /\ UNCHANGED <<toRemove, solvers>>

(* Unregister, or a message that makes the handler drop its sender. *)
Remove(id) ==
  /\ Unlocked
  /\ mgr' = UnsafeRemove(mgr, id)
  /\ UNCHANGED <<toRemove, solvers, fresh>>

(* ConnPoW of a connection in progress or PowPoW of a valid one, correct. *)
Prove(id) ==
  /\ Unlocked
  /\ HasInProgress(mgr, id) \/ HasValid(mgr, id)
  /\ mgr' = MakeValid(mgr, id)
  /\ UNCHANGED <<toRemove, solvers, fresh>>

(* ConnChall of a connection to be proved: its pointer goes to a new goroutine. *)
Challenge(id) ==
  /\ Unlocked
  /\ HasToBeProved(mgr, id)
  /\ solvers[mgr.toBeProved[id]] < MaxSolvers
  /\ solvers' = [solvers EXCEPT ![mgr.toBeProved[id]] = @ + 1]
  /\ UNCHANGED <<mgr, toRemove, fresh>>

\* Fault: the goroutine makes its own pointer valid, not what the maps have.
SolvedByPointer(c) ==
  /\ solvers[c] > 0
  /\ solvers' = [solvers EXCEPT ![c] = @ - 1]
  /\ Unlocked
  /\ mgr' = IF HasValid(mgr, IdOf[c]) THEN mgr
            ELSE [UnsafeRemove(mgr, IdOf[c]) EXCEPT !.open = Append(@, c),
                                                    !.openMap[IdOf[c]] = c]
  /\ UNCHANGED <<toRemove, fresh>>

(* The goroutine has sent its proof, or found the context done and gives up. *)
Solved(c) ==
  /\ solvers[c] > 0
  /\ solvers' = [solvers EXCEPT ![c] = @ - 1]
  /\ \/ /\ Unlocked
        /\ mgr' = MakeValid(mgr, IdOf[c])
     \/ UNCHANGED mgr
  /\ UNCHANGED <<toRemove, fresh>>

(* The timeout ticker: dead are the open connections the predicate rejects. *)
CullMark(dead) ==
  /\ Unlocked
  /\ mgr' = CullMap(mgr, dead)
  /\ toRemove' = CullPositions(mgr, dead)
  /\ UNCHANGED <<solvers, fresh>>

\* Fault: the positions are swapped out in the order they were collected.
CullSwapAscending ==
  \E i \in toRemove :
    /\ \A j \in toRemove : i <= j
    /\ mgr' = CullSlice(mgr, i)
    /\ toRemove' = toRemove \ {i}
    /\ UNCHANGED <<solvers, fresh>>

CullSwap ==
  \E i \in toRemove :
    /\ \A j \in toRemove : j <= i
    /\ mgr' = CullSlice(mgr, i)
    /\ toRemove' = toRemove \ {i}
    /\ UNCHANGED <<solvers, fresh>>

Next ==
  \/ \E c \in Conns : Accept(c) \/ Solved(c)
  \/ \E id \in Ids : Remove(id) \/ Prove(id) \/ Challenge(id)
  \/ \E dead \in SUBSET Conns : CullMark(dead)
  \/ CullSwap

Spec == Init /\ [][Next]_vars

-----------------------------------------------------------------------------
\* The positions collected by CullConnections are positions of the slice, at
\* any point of the loop that swaps them out, and the slice and the map agree
\* up to them.  This is what the loop relies on when it swaps the highest
\* position first, and what unsafeRemove and MakeValid have to leave behind.
SliceInv == Consistent(mgr, toRemove)

\* Whenever the mutex is free, the slice that pushes and renewals walk and the
\* map that handlers look connections up in hold the same connections, each
\* once: no removed connection is still sent to, none is sent to twice, and
\* none is accepted as valid that pushes and culling never reach.
OpenConsistent == Unlocked => SameOpen(mgr)

\* A connection that was announced and then dropped from the manager is never
\* managed again, whatever a goroutine that still solves its challenge does
\* when it ends: MakeValid finds it in no map and leaves it out.
DroppedStaysDropped ==
  [][\A c \in Conns : c \notin fresh /\ c \notin Managed(mgr) => c \notin Managed(mgr')]_vars

-----------------------------------------------------------------------------
(* Refinement. *)

\* The connections that share their id with no other.
Distinct == {c \in Conns : \A d \in Conns : IdOf[d] = IdOf[c] => d = c}

ClassOf(c) ==
  IF c \in fresh THEN "new"
  ELSE IF mgr.openMap[IdOf[c]] = c THEN "valid"
  ELSE IF mgr.toBeProved[IdOf[c]] = c THEN "toBeProved"
  ELSE IF mgr.powInProgress[IdOf[c]] = c THEN "inProgress"
  ELSE "gone"

Classified ==
  INSTANCE Connections WITH Conns <- Distinct,
                            Neighbours <- Neighbours \cap Distinct,
                            class <- [c \in Distinct |-> ClassOf(c)]

\* For the connections with an id of their own, the three maps, the slice and
\* the mutex behave as one class per connection, whatever happens to the others:
\* no lookup by id ever finds, moves or removes another connection than the one
\* the caller means, a culled connection leaves at once, and none is in two maps.
ImplementsConnections == Classified!Spec
=============================================================================
