------------------------------ MODULE ConnMaps ------------------------------
(***************************************************************************)
(* The data structure of strats.ConnectionManager, and what its methods do *)
(* to it while they hold the mutex.  A manager is a record of three maps   *)
(* from connection ids to *gossipConnection pointers and of the slice that *)
(* duplicates the map of open connections.  The operators below are pure:  *)
(* each maps a manager to a manager, so that a module with one manager and *)
(* a module with one manager per peer both use them.                       *)
(*                                                                         *)
(* A pointer is a member of Conns.  IdOf[c] is c.connection.Id, set when   *)
(* the connection is created and never written again.  IdOf need not be    *)
(* injective: an id is the remote address, so a neighbour listed twice, or *)
(* a remote port used again, gives two objects one id.                     *)
(***************************************************************************)
EXTENDS Integers, Sequences

CONSTANTS
  Ids,     \* horizontalapi.ConnectionId
  Conns,   \* pointers to gossipConnection
  IdOf,    \* the id each connection was created with
  NoConn   \* the map has no entry

ASSUME ConnMapsAssumption ==
  /\ IdOf \in [Conns -> Ids]
  /\ NoConn \notin Conns

ConnMap == [Ids -> Conns \cup {NoConn}]

Managers == [toBeProved    : ConnMap,
             powInProgress : ConnMap,
             openMap       : ConnMap,
             open          : Seq(Conns)]

EmptyMap == [id \in Ids |-> NoConn]

-----------------------------------------------------------------------------
(* Construction.  Of several neighbours with one id the last one in the    *)
(* argument list is kept; the list is the user's, so any of them can be.   *)

ToBeProvedMaps(neighbours) ==
  {f \in ConnMap : \A id \in Ids :
      LET same == {c \in neighbours : IdOf[c] = id}
      IN  IF same = {} THEN f[id] = NoConn ELSE f[id] \in same}

NewManager(toBeProved) ==
  [toBeProved    |-> toBeProved,
   powInProgress |-> EmptyMap,
   openMap       |-> EmptyMap,
   open          |-> <<>>]

-----------------------------------------------------------------------------
(* Lookups. *)

HasToBeProved(m, id) == m.toBeProved[id] # NoConn
HasInProgress(m, id) == m.powInProgress[id] # NoConn
HasValid(m, id)      == m.openMap[id] # NoConn

\* Every connection some map of the manager holds.
Managed(m) ==
  {c \in Conns : \E id \in Ids : c \in {m.toBeProved[id], m.powInProgress[id], m.openMap[id]}}

-----------------------------------------------------------------------------
(* Removal: s[i] = s[len-1]; s = s[:len-1]. *)

SwapOut(s, i) ==
  [j \in 1..(Len(s) - 1) |-> IF j = i THEN s[Len(s)] ELSE s[j]]

\* The positions of the slice that hold a connection with this id.
PositionsOf(s, id) == {i \in 1..Len(s) : IdOf[s[i]] = id}

Least(S) == CHOOSE i \in S : \A j \in S : i <= j

\* The loop over the slice stops at the first connection with the id.
DropFromSlice(s, id) ==
  IF PositionsOf(s, id) = {} THEN s ELSE SwapOut(s, Least(PositionsOf(s, id)))

\* The entry unsafeRemove finds first: to be proved, then in progress, then open.
Found(m, id) ==
  IF HasToBeProved(m, id) THEN m.toBeProved[id]
  ELSE IF HasInProgress(m, id) THEN m.powInProgress[id]
  ELSE m.openMap[id]

\* Fault: the open connection is deleted from the map but not from the slice.
UnsafeRemoveMapOnly(m, id) ==
  IF HasToBeProved(m, id) THEN [m EXCEPT !.toBeProved[id] = NoConn]
  ELSE IF HasInProgress(m, id) THEN [m EXCEPT !.powInProgress[id] = NoConn]
  ELSE [m EXCEPT !.openMap[id] = NoConn]

UnsafeRemove(m, id) ==
  IF HasToBeProved(m, id) THEN [m EXCEPT !.toBeProved[id] = NoConn]
  ELSE IF HasInProgress(m, id) THEN [m EXCEPT !.powInProgress[id] = NoConn]
  ELSE IF HasValid(m, id)
       THEN [m EXCEPT !.openMap[id] = NoConn, !.open = DropFromSlice(@, id)]
       ELSE m

-----------------------------------------------------------------------------
(* MakeValid moves a connection that is not yet open to the open ones and  *)
(* leaves the collections alone when the id is open already (the code then *)
(* only writes its timestamp) or is in none of the maps.                   *)

\* Fault: the error of unsafeRemove is not looked at.
MakeValidUnchecked(m, id) ==
  IF HasValid(m, id)
  THEN m
  ELSE [UnsafeRemove(m, id) EXCEPT !.open = Append(@, Found(m, id)),
                                   !.openMap[id] = Found(m, id)]

\* Fault: the connection is not taken out of the map it was in.
MakeValidInPlace(m, id) ==
  IF HasValid(m, id) \/ Found(m, id) = NoConn
  THEN m
  ELSE [m EXCEPT !.open = Append(@, Found(m, id)),
                 !.openMap[id] = Found(m, id)]

MakeValid(m, id) ==
  IF HasValid(m, id) \/ Found(m, id) = NoConn
  THEN m
  ELSE [UnsafeRemove(m, id) EXCEPT !.open = Append(@, Found(m, id)),
                                   !.openMap[id] = Found(m, id)]

AddInProgress(m, c) == [m EXCEPT !.powInProgress[IdOf[c]] = c]

-----------------------------------------------------------------------------
(* CullConnections(f).  Its first loop deletes from the map every open     *)
(* connection on which f is true (the set dead) and collects its position; *)
(* the second loop swaps the collected positions out, the highest first.   *)

CullPositions(m, dead) == {i \in 1..Len(m.open) : m.open[i] \in dead}

CullMap(m, dead) ==
  [m EXCEPT !.openMap = [id \in Ids |->
      IF \E i \in CullPositions(m, dead) : IdOf[m.open[i]] = id THEN NoConn ELSE @[id]]]

CullSlice(m, i) == [m EXCEPT !.open = SwapOut(@, i)]

-----------------------------------------------------------------------------
(* What the slice and the maps of a manager have to do with each other.    *)
(* marked are the positions CullConnections has still to swap out.         *)

\* A map has a connection only under its own id.
KeysMatch(m) ==
  \A id \in Ids :
    /\ HasToBeProved(m, id) => IdOf[m.toBeProved[id]] = id
    /\ HasInProgress(m, id) => IdOf[m.powInProgress[id]] = id
    /\ HasValid(m, id) => IdOf[m.openMap[id]] = id

DistinctIds(m) ==
  \A i, j \in 1..Len(m.open) : IdOf[m.open[i]] = IdOf[m.open[j]] => i = j

SliceInMap(m, marked) ==
  \A i \in 1..Len(m.open) :
    m.openMap[IdOf[m.open[i]]] = IF i \in marked THEN NoConn ELSE m.open[i]

MapInSlice(m, marked) ==
  \A id \in Ids : HasValid(m, id) =>
    \E i \in 1..Len(m.open) : i \notin marked /\ m.open[i] = m.openMap[id]

Consistent(m, marked) ==
  /\ marked \subseteq 1..Len(m.open)
  /\ KeysMatch(m)
  /\ DistinctIds(m)
  /\ SliceInMap(m, marked)
  /\ MapInSlice(m, marked)

\* The slice and the map hold the same connections, each once.
SameOpen(m) ==
  /\ \A i, j \in 1..Len(m.open) : m.open[i] = m.open[j] => i = j
  /\ {m.open[i] : i \in 1..Len(m.open)} = {m.openMap[id] : id \in Ids} \ {NoConn}
=============================================================================
