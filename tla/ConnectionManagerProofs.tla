----------------------- MODULE ConnectionManagerProofs -----------------------
(***************************************************************************)
(* What ConnectionManager keeps, for every set of connections and ids and  *)
(* every assignment of ids to connections, injective or not.               *)
(*                                                                         *)
(* OpenConsistent is not inductive: CullConnections deletes from the map   *)
(* first and from the slice later.  SliceInv describes the states between. *)
(* TypeOK and SliceInv are inductive together, and MakeValid is safe only  *)
(* because KeysMatch makes the connection found under an id have that id.  *)
(***************************************************************************)
EXTENDS ConnectionManager, TLAPS

USE ConnMapsAssumption, ConnectionManagerAssumption

-----------------------------------------------------------------------------
(* The operators on a manager return managers. *)

\* Swapping a position out of a sequence moves its last element there.
LEMMA SwapOutType ==
  ASSUME NEW s \in Seq(Conns), NEW i \in 1..Len(s)
  PROVE  /\ SwapOut(s, i) \in Seq(Conns)
         /\ Len(SwapOut(s, i)) = Len(s) - 1
         /\ \A j \in 1..(Len(s) - 1) : SwapOut(s, i)[j] = IF j = i THEN s[Len(s)] ELSE s[j]
<1>1. Len(s) \in Nat /\ Len(s) - 1 \in Nat
  OBVIOUS
<1>2. \A j \in 1..Len(s) : s[j] \in Conns
  OBVIOUS
<1>3. SwapOut(s, i) \in [1..(Len(s) - 1) -> Conns]
  BY <1>1, <1>2 DEF SwapOut
<1> QED
  BY <1>1, <1>3 DEF SwapOut

\* A connection is in the slice at most once, so the loop of unsafeRemove has
\* one position to stop at.
LEMMA OnePosition ==
  ASSUME NEW m \in Managers, DistinctIds(m),
         NEW i \in 1..Len(m.open)
  PROVE  /\ PositionsOf(m.open, IdOf[m.open[i]]) = {i}
         /\ DropFromSlice(m.open, IdOf[m.open[i]]) = SwapOut(m.open, i)
<1>1. PositionsOf(m.open, IdOf[m.open[i]]) = {i}
  BY DEF PositionsOf, DistinctIds
<1>2. Least({i}) = i
  BY DEF Least
<1> QED
  BY <1>1, <1>2 DEF DropFromSlice

\* The entries of a manager are connections or NoConn.
LEMMA Entries ==
  ASSUME NEW m \in Managers, NEW id \in Ids
  PROVE  /\ m.toBeProved \in ConnMap /\ m.toBeProved[id] \in Conns \cup {NoConn}
         /\ m.powInProgress \in ConnMap /\ m.powInProgress[id] \in Conns \cup {NoConn}
         /\ m.openMap \in ConnMap /\ m.openMap[id] \in Conns \cup {NoConn}
         /\ m.open \in Seq(Conns)
         /\ Found(m, id) \in Conns \cup {NoConn}
BY DEF Managers, ConnMap, Found

-----------------------------------------------------------------------------
(* Removal. *)

\* Swapping out one position of the slice together with the map entry of its
\* connection, or with a position already marked, keeps the two consistent.
LEMMA SwapOutConsistent ==
  ASSUME NEW m \in Managers, NEW marked, Consistent(m, marked),
         NEW i \in 1..Len(m.open),
         \A j \in marked : j <= i,
         NEW n \in Managers,
         n.toBeProved = m.toBeProved,
         n.powInProgress = m.powInProgress,
         n.openMap = [m.openMap EXCEPT ![IdOf[m.open[i]]] = NoConn],
         n.open = SwapOut(m.open, i)
  PROVE  Consistent(n, marked \ {i})
<1> DEFINE last == Len(m.open)
<1>1. /\ last \in Nat
      /\ Len(n.open) = last - 1
      /\ \A j \in 1..(last - 1) : n.open[j] = IF j = i THEN m.open[last] ELSE m.open[j]
      /\ \A j \in 1..last : m.open[j] \in Conns /\ IdOf[m.open[j]] \in Ids
  <2>1. m.open \in Seq(Conns)
    BY DEF Managers
  <2>2. \A j \in 1..last : m.open[j] \in Conns /\ IdOf[m.open[j]] \in Ids
    BY <2>1
  <2>3. /\ Len(SwapOut(m.open, i)) = Len(m.open) - 1
        /\ \A j \in 1..(Len(m.open) - 1) :
             SwapOut(m.open, i)[j] = IF j = i THEN m.open[Len(m.open)] ELSE m.open[j]
    BY <2>1, SwapOutType
  <2> QED
    BY <2>1, <2>2, <2>3
<1>2. /\ m.openMap \in [Ids -> Conns \cup {NoConn}]
      /\ \A id \in Ids : n.openMap[id] = IF id = IdOf[m.open[i]] THEN NoConn ELSE m.openMap[id]
  BY <1>1 DEF Managers, ConnMap
\* Where each position of the new slice comes from.
<1> DEFINE from(j) == IF j = i THEN last ELSE j
<1>3. \A j \in 1..(last - 1) : /\ from(j) \in 1..last
                                /\ from(j) # i
                                /\ n.open[j] = m.open[from(j)]
  BY <1>1
<1>4. \A j \in 1..(last - 1) : j \in marked \ {i} <=> from(j) \in marked
  BY <1>1 DEF Consistent
<1>5. marked \ {i} \subseteq 1..Len(n.open)
  BY <1>1 DEF Consistent
<1>6. KeysMatch(n)
  BY ZenonT(30), <1>2 DEF Consistent, KeysMatch, HasToBeProved, HasInProgress, HasValid
<1>7. DistinctIds(n)
  BY SMTT(30), <1>1, <1>3 DEF Consistent, DistinctIds
<1>8. SliceInMap(n, marked \ {i})
  <2> SUFFICES ASSUME NEW j \in 1..(last - 1)
               PROVE  n.openMap[IdOf[n.open[j]]] =
                        IF j \in marked \ {i} THEN NoConn ELSE n.open[j]
    BY <1>1 DEF SliceInMap
  <2>1. IdOf[m.open[from(j)]] # IdOf[m.open[i]]
    BY <1>3 DEF Consistent, DistinctIds
  <2>2. n.openMap[IdOf[n.open[j]]] = m.openMap[IdOf[m.open[from(j)]]]
    BY <1>1, <1>2, <1>3, <2>1
  <2> QED
    BY <1>3, <1>4, <2>2 DEF Consistent, SliceInMap
<1>9. MapInSlice(n, marked \ {i})
  <2> SUFFICES ASSUME NEW id \in Ids, HasValid(n, id)
               PROVE  \E j \in 1..(last - 1) : j \notin marked \ {i} /\ n.open[j] = n.openMap[id]
    BY <1>1 DEF MapInSlice
  <2>1. id # IdOf[m.open[i]] /\ n.openMap[id] = m.openMap[id] /\ HasValid(m, id)
    BY <1>2 DEF HasValid
  <2>2. PICK k \in 1..last : k \notin marked /\ m.open[k] = m.openMap[id]
    BY <2>1 DEF Consistent, MapInSlice
  <2>3. IdOf[m.open[k]] = id /\ k # i
    BY <2>1, <2>2 DEF Consistent, KeysMatch
  <2>4. CASE k # last
    BY <1>1, <2>1, <2>2, <2>3, <2>4
  <2>5. CASE k = last
    <3>1. i \in 1..(last - 1) /\ n.open[i] = m.open[last]
      BY <1>1, <2>3, <2>5
    <3> QED
      BY <3>1, <2>1, <2>2, <2>5
  <2> QED
    BY <2>4, <2>5
<1> QED
  BY <1>5, <1>6, <1>7, <1>8, <1>9 DEF Consistent

\* Removing by id, whichever map the id is found in.
LEMMA UnsafeRemoveConsistent ==
  ASSUME NEW m \in Managers, Consistent(m, {}), NEW id \in Ids
  PROVE  UnsafeRemove(m, id) \in Managers /\ Consistent(UnsafeRemove(m, id), {})
<1>1. CASE HasToBeProved(m, id)
  <2> DEFINE n == [m EXCEPT !.toBeProved[id] = NoConn]
  <2>1. n \in Managers
    BY DEF Managers, ConnMap
  <2>2. Consistent(n, {})
    BY DEF Managers, ConnMap, Consistent, KeysMatch, DistinctIds, SliceInMap, MapInSlice,
           HasToBeProved, HasInProgress, HasValid
  <2> QED
    BY <1>1, <2>1, <2>2 DEF UnsafeRemove
<1>2. CASE ~HasToBeProved(m, id) /\ HasInProgress(m, id)
  <2> DEFINE n == [m EXCEPT !.powInProgress[id] = NoConn]
  <2>1. n \in Managers
    BY DEF Managers, ConnMap
  <2>2. Consistent(n, {})
    BY DEF Managers, ConnMap, Consistent, KeysMatch, DistinctIds, SliceInMap, MapInSlice,
           HasToBeProved, HasInProgress, HasValid
  <2> QED
    BY <1>2, <2>1, <2>2 DEF UnsafeRemove
<1>3. CASE ~HasToBeProved(m, id) /\ ~HasInProgress(m, id) /\ HasValid(m, id)
  <2>1. PICK i \in 1..Len(m.open) : m.open[i] = m.openMap[id]
    BY <1>3 DEF Consistent, MapInSlice
  <2>2. IdOf[m.open[i]] = id
    BY <1>3, <2>1 DEF Consistent, KeysMatch
  <2>3. DropFromSlice(m.open, id) = SwapOut(m.open, i) /\ SwapOut(m.open, i) \in Seq(Conns)
    BY <2>2, OnePosition, SwapOutType DEF Consistent, Managers
  <2> DEFINE n == [m EXCEPT !.openMap[id] = NoConn, !.open = SwapOut(m.open, i)]
  <2>4. n \in Managers
    BY <2>3 DEF Managers, ConnMap
  <2>5. /\ n.toBeProved = m.toBeProved
        /\ n.powInProgress = m.powInProgress
        /\ n.openMap = [m.openMap EXCEPT ![IdOf[m.open[i]]] = NoConn]
        /\ n.open = SwapOut(m.open, i)
    BY <2>2 DEF Managers
  <2>6. Consistent(n, {} \ {i})
    BY <2>4, <2>5, SwapOutConsistent
  <2>7. UnsafeRemove(m, id) = n
    BY <1>3, <2>3 DEF UnsafeRemove
  <2> QED
    BY <2>4, <2>6, <2>7
<1>4. CASE ~HasToBeProved(m, id) /\ ~HasInProgress(m, id) /\ ~HasValid(m, id)
  BY <1>4 DEF UnsafeRemove
<1> QED
  BY <1>1, <1>2, <1>3, <1>4

\* When no map has the id open, what UnsafeRemove leaves has it open nowhere,
\* and the connection it found has the id.
LEMMA FoundConnection ==
  ASSUME NEW m \in Managers, Consistent(m, {}), NEW id \in Ids,
         ~HasValid(m, id), Found(m, id) # NoConn
  PROVE  /\ Found(m, id) \in Conns
         /\ IdOf[Found(m, id)] = id
         /\ UnsafeRemove(m, id).openMap = m.openMap
         /\ UnsafeRemove(m, id).open = m.open
         /\ \A i \in 1..Len(m.open) : IdOf[m.open[i]] # id
<1>1. Found(m, id) \in Conns /\ IdOf[Found(m, id)] = id
  BY Entries DEF Found, Consistent, KeysMatch, HasToBeProved, HasInProgress, HasValid
<1>2. UnsafeRemove(m, id).openMap = m.openMap /\ UnsafeRemove(m, id).open = m.open
  BY DEF UnsafeRemove, Managers
<1>3. \A i \in 1..Len(m.open) : m.open[i] \in Conns
  BY DEF Managers
<1>4. \A i \in 1..Len(m.open) : IdOf[m.open[i]] # id
  BY <1>3 DEF Consistent, SliceInMap, HasValid
<1> QED
  BY <1>1, <1>2, <1>4

\* MakeValid moves a connection to the open ones, in the slice and in the map.
LEMMA MakeValidConsistent ==
  ASSUME NEW m \in Managers, Consistent(m, {}), NEW id \in Ids
  PROVE  MakeValid(m, id) \in Managers /\ Consistent(MakeValid(m, id), {})
<1>1. CASE HasValid(m, id) \/ Found(m, id) = NoConn
  BY <1>1 DEF MakeValid
<1>2. CASE ~HasValid(m, id) /\ Found(m, id) # NoConn
  <2> DEFINE c == Found(m, id)
             r == UnsafeRemove(m, id)
             n == [r EXCEPT !.open = Append(@, c), !.openMap[id] = c]
  <2>1. /\ c \in Conns /\ IdOf[c] = id
        /\ r.openMap = m.openMap
        /\ r.open = m.open
        /\ \A i \in 1..Len(m.open) : IdOf[m.open[i]] # id
    BY <1>2, FoundConnection
  <2>2. r \in Managers /\ Consistent(r, {})
    BY UnsafeRemoveConsistent
  <2> HIDE DEF c, r
  <2>3. /\ n.toBeProved = r.toBeProved
        /\ n.powInProgress = r.powInProgress
        /\ n.openMap = [r.openMap EXCEPT ![id] = c]
        /\ n.open = Append(r.open, c)
        /\ n \in Managers
    <3>1. r.open \in Seq(Conns) /\ r.openMap \in [Ids -> Conns \cup {NoConn}]
      BY <2>2 DEF Managers, ConnMap
    <3>2. Append(r.open, c) \in Seq(Conns)
      BY <3>1, <2>1
    <3>3. [r.openMap EXCEPT ![id] = c] \in [Ids -> Conns \cup {NoConn}]
      BY <3>1, <2>1
    <3> QED
      BY <3>2, <3>3, <2>2 DEF Managers, ConnMap
  <2> HIDE DEF n
  <2>4. /\ r.open \in Seq(Conns)
        /\ Len(n.open) = Len(r.open) + 1
        /\ \A i \in 1..Len(r.open) : n.open[i] = r.open[i] /\ r.open[i] \in Conns
        /\ n.open[Len(r.open) + 1] = c
    <3>1. r.open \in Seq(Conns)
      BY <2>2 DEF Managers
    <3> QED
      BY <3>1, <2>1, <2>3
  <2>5. /\ r.openMap \in [Ids -> Conns \cup {NoConn}]
        /\ \A k \in Ids : n.openMap[k] = IF k = id THEN c ELSE r.openMap[k]
    BY <2>2, <2>3 DEF Managers, ConnMap
  <2>6. KeysMatch(n)
    <3>1. KeysMatch(r)
      BY <2>2 DEF Consistent
    <3> SUFFICES ASSUME NEW k \in Ids
                 PROVE  /\ n.toBeProved[k] # NoConn => IdOf[n.toBeProved[k]] = k
                        /\ n.powInProgress[k] # NoConn => IdOf[n.powInProgress[k]] = k
                        /\ n.openMap[k] # NoConn => IdOf[n.openMap[k]] = k
      BY DEF KeysMatch, HasToBeProved, HasInProgress, HasValid
    <3>2. /\ r.toBeProved[k] # NoConn => IdOf[r.toBeProved[k]] = k
          /\ r.powInProgress[k] # NoConn => IdOf[r.powInProgress[k]] = k
          /\ r.openMap[k] # NoConn => IdOf[r.openMap[k]] = k
      BY <3>1 DEF KeysMatch, HasToBeProved, HasInProgress, HasValid
    <3>3. n.toBeProved[k] = r.toBeProved[k] /\ n.powInProgress[k] = r.powInProgress[k]
      BY <2>3
    <3>4. n.openMap[k] # NoConn => IdOf[n.openMap[k]] = k
      BY <3>2, <2>1, <2>5
    <3> QED
      BY <3>2, <3>3, <3>4
  <2>7. DistinctIds(n)
    <3>1. DistinctIds(r)
      BY <2>2 DEF Consistent
    <3> SUFFICES ASSUME NEW i \in 1..(Len(r.open) + 1), NEW j \in 1..(Len(r.open) + 1),
                        IdOf[n.open[i]] = IdOf[n.open[j]]
                 PROVE  i = j
      BY <2>4 DEF DistinctIds
    <3>2. CASE i \in 1..Len(r.open) /\ j \in 1..Len(r.open)
      BY <3>1, <3>2, <2>4 DEF DistinctIds
    <3>3. CASE i = Len(r.open) + 1 /\ j \in 1..Len(r.open)
      BY <3>3, <2>1, <2>4
    <3>4. CASE j = Len(r.open) + 1 /\ i \in 1..Len(r.open)
      BY <3>4, <2>1, <2>4
    <3> QED
      BY <3>2, <3>3, <3>4
  <2>8. SliceInMap(n, {})
    BY SMTT(30), <2>1, <2>2, <2>4, <2>5 DEF Consistent, SliceInMap
  <2>9. MapInSlice(n, {})
    <3> SUFFICES ASSUME NEW k \in Ids, HasValid(n, k)
                 PROVE  \E i \in 1..Len(n.open) : n.open[i] = n.openMap[k]
      BY DEF MapInSlice
    <3>1. CASE k = id
      BY <3>1, <2>4, <2>5
    <3>2. CASE k # id
      <4>1. PICK i \in 1..Len(r.open) : r.open[i] = r.openMap[k]
        BY <3>2, <2>2, <2>5 DEF Consistent, MapInSlice, HasValid
      <4> QED
        BY <4>1, <3>2, <2>4, <2>5
    <3> QED
      BY <3>1, <3>2
  <2>10. Consistent(n, {})
    BY <2>6, <2>7, <2>8, <2>9 DEF Consistent
  <2>11. MakeValid(m, id) = n
    BY <1>2 DEF MakeValid, n, r, c
  <2> QED
    BY <2>3, <2>10, <2>11
<1> QED
  BY <1>1, <1>2

LEMMA AddInProgressConsistent ==
  ASSUME NEW m \in Managers, Consistent(m, {}), NEW c \in Conns
  PROVE  AddInProgress(m, c) \in Managers /\ Consistent(AddInProgress(m, c), {})
<1> DEFINE n == AddInProgress(m, c)
<1>1. /\ n \in Managers
      /\ n.toBeProved = m.toBeProved
      /\ n.openMap = m.openMap
      /\ n.open = m.open
      /\ \A k \in Ids : n.powInProgress[k] = IF k = IdOf[c] THEN c ELSE m.powInProgress[k]
  BY DEF AddInProgress, Managers, ConnMap
<1> HIDE DEF n
<1>2. Consistent(n, {})
  BY <1>1 DEF Consistent, KeysMatch, DistinctIds, SliceInMap, MapInSlice,
              HasToBeProved, HasInProgress, HasValid
<1> QED
  BY <1>1, <1>2 DEF n

\* The first loop of CullConnections leaves the map without the connections at
\* the positions it collected.
LEMMA CullMapConsistent ==
  ASSUME NEW m \in Managers, Consistent(m, {}), NEW dead \in SUBSET Conns
  PROVE  /\ CullMap(m, dead) \in Managers
         /\ Consistent(CullMap(m, dead), CullPositions(m, dead))
<1> DEFINE n == CullMap(m, dead)
           marked == CullPositions(m, dead)
<1>1. /\ n \in Managers
      /\ n.toBeProved = m.toBeProved
      /\ n.powInProgress = m.powInProgress
      /\ n.open = m.open
      /\ \A k \in Ids : n.openMap[k] = IF \E i \in marked : IdOf[m.open[i]] = k
                                       THEN NoConn ELSE m.openMap[k]
  BY DEF CullMap, Managers, ConnMap
<1>2. marked \subseteq 1..Len(m.open)
  BY DEF CullPositions
<1>3. \A i \in 1..Len(m.open) : m.open[i] \in Conns /\ IdOf[m.open[i]] \in Ids
  <2>1. m.open \in Seq(Conns)
    BY DEF Managers
  <2> QED
    BY <2>1
<1> HIDE DEF n, marked
<1>4. KeysMatch(n)
  BY ZenonT(30), <1>1 DEF Consistent, KeysMatch, HasToBeProved, HasInProgress, HasValid
<1>5. DistinctIds(n)
  BY <1>1 DEF Consistent, DistinctIds
<1>6. SliceInMap(n, marked)
  BY <1>1, <1>2, <1>3 DEF Consistent, SliceInMap, DistinctIds
<1>7. MapInSlice(n, marked)
  <2> SUFFICES ASSUME NEW k \in Ids, HasValid(n, k)
               PROVE  \E i \in 1..Len(m.open) : i \notin marked /\ m.open[i] = n.openMap[k]
    BY <1>1 DEF MapInSlice
  <2>1. n.openMap[k] = m.openMap[k] /\ HasValid(m, k) /\ ~\E i \in marked : IdOf[m.open[i]] = k
    BY <1>1 DEF HasValid
  <2>2. PICK i \in 1..Len(m.open) : m.open[i] = m.openMap[k]
    BY <2>1 DEF Consistent, MapInSlice
  <2>3. IdOf[m.open[i]] = k
    BY <2>1, <2>2 DEF Consistent, KeysMatch
  <2> QED
    BY <2>1, <2>2, <2>3
<1>8. Consistent(n, marked)
  BY <1>1, <1>2, <1>4, <1>5, <1>6, <1>7 DEF Consistent
<1> QED
  BY <1>1, <1>8 DEF n, marked

\* One iteration of the second loop of CullConnections.
LEMMA CullSliceConsistent ==
  ASSUME NEW m \in Managers, NEW marked, Consistent(m, marked),
         NEW i \in marked, \A j \in marked : j <= i
  PROVE  CullSlice(m, i) \in Managers /\ Consistent(CullSlice(m, i), marked \ {i})
<1> DEFINE n == CullSlice(m, i)
<1>1. i \in 1..Len(m.open) /\ m.open \in Seq(Conns)
  BY DEF Consistent, Managers
<1>2. /\ n.toBeProved = m.toBeProved
      /\ n.powInProgress = m.powInProgress
      /\ n.openMap = m.openMap
      /\ n.open = SwapOut(m.open, i)
      /\ n \in Managers
  BY <1>1, SwapOutType DEF CullSlice, Managers
<1> HIDE DEF n
<1>3. m.open[i] \in Conns /\ m.openMap \in [Ids -> Conns \cup {NoConn}]
  BY <1>1 DEF Managers, ConnMap
<1>4. m.openMap[IdOf[m.open[i]]] = NoConn
  BY <1>1 DEF Consistent, SliceInMap
<1>5. n.openMap = [m.openMap EXCEPT ![IdOf[m.open[i]]] = NoConn]
  BY <1>2, <1>3, <1>4
<1>6. Consistent(n, marked \ {i})
  BY <1>1, <1>2, <1>5, SwapOutConsistent
<1> QED
  BY <1>2, <1>6 DEF n

-----------------------------------------------------------------------------
(* The inductive invariant. *)

IInv == TypeOK /\ SliceInv

\* Init gives the manager one map, of neighbours under their ids.
LEMMA InitIInv == Init => IInv
<1> SUFFICES ASSUME Init PROVE IInv
  OBVIOUS
<1>1. PICK f \in ToBeProvedMaps(Neighbours) : mgr = NewManager(f)
  BY DEF Init
<1>2. f \in ConnMap /\ \A id \in Ids : f[id] # NoConn => f[id] \in Neighbours /\ IdOf[f[id]] = id
  BY <1>1 DEF ToBeProvedMaps
<1>3. EmptyMap \in ConnMap
  BY DEF EmptyMap, ConnMap
<1>4. /\ mgr \in Managers
      /\ mgr.toBeProved = f
      /\ mgr.powInProgress = EmptyMap
      /\ mgr.openMap = EmptyMap
      /\ mgr.open = <<>>
  BY <1>1, <1>2, <1>3 DEF NewManager, Managers
<1>5. TypeOK
  BY <1>4 DEF TypeOK, Init
<1>6. \A id \in Ids : EmptyMap[id] = NoConn
  BY DEF EmptyMap
<1>7. KeysMatch(mgr)
  BY <1>2, <1>4, <1>6 DEF KeysMatch, HasToBeProved, HasInProgress, HasValid
<1>8. DistinctIds(mgr) /\ SliceInMap(mgr, {}) /\ MapInSlice(mgr, {})
  BY <1>4, <1>6 DEF DistinctIds, SliceInMap, MapInSlice, HasValid
<1>9. SliceInv
  BY <1>7, <1>8 DEF SliceInv, Consistent, Init
<1> QED
  BY <1>5, <1>9 DEF IInv

LEMMA NextIInv == IInv /\ [Next]_vars => IInv'
<1> SUFFICES ASSUME IInv, [Next]_vars PROVE IInv'
  OBVIOUS
<1> USE DEF IInv, TypeOK, SliceInv
<1>1. ASSUME NEW c \in Conns, Accept(c) PROVE IInv'
  BY <1>1, AddInProgressConsistent DEF Accept, Unlocked
<1>2. ASSUME NEW c \in Conns, Solved(c) PROVE IInv'
  <2>1. solvers' \in [Conns -> 0..MaxSolvers]
    BY <1>2 DEF Solved
  <2>2. CASE Unlocked /\ mgr' = MakeValid(mgr, IdOf[c])
    <3>1. IdOf[c] \in Ids
      OBVIOUS
    <3> QED
      BY <1>2, <2>1, <2>2, <3>1, MakeValidConsistent DEF Solved, Unlocked
  <2>3. CASE UNCHANGED mgr
    BY <1>2, <2>1, <2>3 DEF Solved
  <2> QED
    BY <1>2, <2>2, <2>3 DEF Solved
<1>3. ASSUME NEW id \in Ids, Remove(id) PROVE IInv'
  BY <1>3, UnsafeRemoveConsistent DEF Remove, Unlocked
<1>4. ASSUME NEW id \in Ids, Prove(id) PROVE IInv'
  BY <1>4, MakeValidConsistent DEF Prove, Unlocked
<1>5. ASSUME NEW id \in Ids, Challenge(id) PROVE IInv'
  <2>1. mgr.toBeProved[id] \in Conns
    BY <1>5, Entries DEF Challenge, HasToBeProved
  <2>2. solvers' \in [Conns -> 0..MaxSolvers]
    BY <1>5, <2>1 DEF Challenge
  <2> QED
    BY <1>5, <2>2 DEF Challenge
<1>6. ASSUME NEW dead \in SUBSET Conns, CullMark(dead) PROVE IInv'
  <2>1. toRemove' \in SUBSET Nat
    BY <1>6 DEF CullMark, CullPositions
  <2> QED
    BY <1>6, <2>1, CullMapConsistent DEF CullMark, Unlocked
<1>7. ASSUME CullSwap PROVE IInv'
  <2>1. PICK i \in toRemove : /\ \A j \in toRemove : j <= i
                            /\ mgr' = CullSlice(mgr, i)
                            /\ toRemove' = toRemove \ {i}
                            /\ UNCHANGED <<solvers, fresh>>
    BY <1>7 DEF CullSwap
  <2>2. mgr' \in Managers /\ Consistent(mgr', toRemove')
    BY <2>1, CullSliceConsistent
  <2> QED
    BY <2>1, <2>2
<1>8. CASE UNCHANGED vars
  BY <1>8 DEF vars
<1> QED
  BY <1>1, <1>2, <1>3, <1>4, <1>5, <1>6, <1>7, <1>8 DEF Next

\* The invariant holds in every reachable state.
THEOREM Invariance == Spec => []IInv
BY InitIInv, NextIInv, PTL DEF Spec

\* The maps and the slice always hold connections, the goroutines of one
\* connection stay within their bound and the positions CullConnections has
\* still to swap out are numbers (the fields of ConnectionManager).
THEOREM TypeCorrect == Spec => []TypeOK
<1>1. IInv => TypeOK
  BY DEF IInv
<1> QED
  BY <1>1, Invariance, PTL

\* At every point of CullConnections' second loop the collected positions are
\* positions of the slice, and slice and map agree but for them.
THEOREM SliceInvariant == Spec => []SliceInv
<1>1. IInv => SliceInv
  BY DEF IInv
<1> QED
  BY <1>1, Invariance, PTL

\* Whenever the mutex is free, the slice pushes walk and the map handlers look
\* in hold the same connections, each once.
THEOREM SliceAndMapAgree == Spec => []OpenConsistent
<1>1. ASSUME IInv, Unlocked PROVE SameOpen(mgr)
  <2>1. mgr \in Managers /\ Consistent(mgr, {})
    BY <1>1 DEF IInv, TypeOK, SliceInv, Unlocked
  <2>2. \A i \in 1..Len(mgr.open) : mgr.open[i] \in Conns /\ IdOf[mgr.open[i]] \in Ids
    <3>1. mgr.open \in Seq(Conns)
      BY <2>1 DEF Managers
    <3> QED
      BY <3>1
  <2>3. \A i, j \in 1..Len(mgr.open) : mgr.open[i] = mgr.open[j] => i = j
    BY <2>1 DEF Consistent, DistinctIds
  <2>4. {mgr.open[i] : i \in 1..Len(mgr.open)} \subseteq {mgr.openMap[id] : id \in Ids} \ {NoConn}
    BY <2>1, <2>2 DEF Consistent, SliceInMap
  <2>5. {mgr.openMap[id] : id \in Ids} \ {NoConn} \subseteq {mgr.open[i] : i \in 1..Len(mgr.open)}
    BY <2>1 DEF Consistent, MapInSlice, HasValid
  <2> QED
    BY <2>3, <2>4, <2>5 DEF SameOpen
<1>2. IInv => OpenConsistent
  BY <1>1 DEF OpenConsistent
<1> QED
  BY <1>2, Invariance, PTL

-----------------------------------------------------------------------------
(* A dropped connection stays dropped. *)

\* Removing adds no connection.
LEMMA UnsafeRemoveAddsNone ==
  ASSUME NEW m \in Managers, NEW id \in Ids
  PROVE  Managed(UnsafeRemove(m, id)) \subseteq Managed(m)
<1> DEFINE n == UnsafeRemove(m, id)
<1>1. \A k \in Ids : /\ n.toBeProved[k] \in {m.toBeProved[k], NoConn}
                     /\ n.powInProgress[k] \in {m.powInProgress[k], NoConn}
                     /\ n.openMap[k] \in {m.openMap[k], NoConn}
  BY DEF UnsafeRemove, Managers, ConnMap
<1> HIDE DEF n
<1> QED
  BY <1>1 DEF Managed, n

\* MakeValid puts among the open ones what one of the maps had.
LEMMA MakeValidAddsNone ==
  ASSUME NEW m \in Managers, Consistent(m, {}), NEW id \in Ids
  PROVE  Managed(MakeValid(m, id)) \subseteq Managed(m)
<1>1. CASE HasValid(m, id) \/ Found(m, id) = NoConn
  BY <1>1 DEF MakeValid
<1>2. CASE ~HasValid(m, id) /\ Found(m, id) # NoConn
  <2> DEFINE c == Found(m, id)
             r == UnsafeRemove(m, id)
             n == [r EXCEPT !.open = Append(@, c), !.openMap[id] = c]
  <2>1. c \in Managed(m)
    BY <1>2, FoundConnection DEF Found, Managed
  <2>2. r \in Managers /\ Managed(r) \subseteq Managed(m)
    BY UnsafeRemoveConsistent, UnsafeRemoveAddsNone
  <2> HIDE DEF c, r
  <2>3. \A k \in Ids : /\ n.toBeProved[k] = r.toBeProved[k]
                       /\ n.powInProgress[k] = r.powInProgress[k]
                       /\ n.openMap[k] \in {r.openMap[k], c}
    BY <2>2 DEF Managers, ConnMap
  <2> HIDE DEF n
  <2>4. Managed(n) \subseteq Managed(r) \cup {c}
    BY <2>3 DEF Managed
  <2>5. MakeValid(m, id) = n
    BY <1>2 DEF MakeValid, n, r, c
  <2> QED
    BY <2>1, <2>2, <2>4, <2>5
<1> QED
  BY <1>1, <1>2

\* Only Accept, of a connection not announced before, adds to the manager:
\* no goroutine that ends late brings back a connection that was dropped.
THEOREM StaysDropped == Spec => DroppedStaysDropped
<1> DEFINE A == \A c \in Conns : c \notin fresh /\ c \notin Managed(mgr) => c \notin Managed(mgr')
<1>1. ASSUME IInv, [Next]_vars PROVE [A]_vars
  <2> SUFFICES ASSUME Next, NEW d \in Conns, d \notin fresh, d \in Managed(mgr')
               PROVE  d \in Managed(mgr)
    BY <1>1
  <2> USE <1>1 DEF IInv, TypeOK, SliceInv, Unlocked
  <2>1. ASSUME NEW c \in Conns, Accept(c) PROVE d \in Managed(mgr)
    <3>1. d # c /\ mgr' = AddInProgress(mgr, c)
      BY <2>1 DEF Accept
    <3>2. \A k \in Ids : /\ mgr'.toBeProved[k] = mgr.toBeProved[k]
                         /\ mgr'.powInProgress[k] \in {mgr.powInProgress[k], c}
                         /\ mgr'.openMap[k] = mgr.openMap[k]
      BY <3>1 DEF AddInProgress, Managers, ConnMap
    <3> QED
      BY <3>1, <3>2 DEF Managed
  <2>2. ASSUME NEW c \in Conns, Solved(c) PROVE d \in Managed(mgr)
    <3>1. IdOf[c] \in Ids
      OBVIOUS
    <3> QED
      BY <2>2, <3>1, MakeValidAddsNone DEF Solved
  <2>3. ASSUME NEW id \in Ids, Remove(id) PROVE d \in Managed(mgr)
    BY <2>3, UnsafeRemoveAddsNone DEF Remove
  <2>4. ASSUME NEW id \in Ids, Prove(id) PROVE d \in Managed(mgr)
    BY <2>4, MakeValidAddsNone DEF Prove
  <2>5. ASSUME NEW id \in Ids, Challenge(id) PROVE d \in Managed(mgr)
    BY <2>5 DEF Challenge
  <2>6. ASSUME NEW dead \in SUBSET Conns, CullMark(dead) PROVE d \in Managed(mgr)
    <3>1. \A k \in Ids : /\ mgr'.toBeProved[k] = mgr.toBeProved[k]
                         /\ mgr'.powInProgress[k] = mgr.powInProgress[k]
                         /\ mgr'.openMap[k] \in {mgr.openMap[k], NoConn}
      BY <2>6 DEF CullMark, CullMap, Managers, ConnMap
    <3> QED
      BY <3>1 DEF Managed
  <2>7. ASSUME CullSwap PROVE d \in Managed(mgr)
    <3>1. \A k \in Ids : /\ mgr'.toBeProved[k] = mgr.toBeProved[k]
                         /\ mgr'.powInProgress[k] = mgr.powInProgress[k]
                         /\ mgr'.openMap[k] = mgr.openMap[k]
      BY <2>7 DEF CullSwap, CullSlice, Managers
    <3> QED
      BY <3>1 DEF Managed
  <2> QED
    BY <2>1, <2>2, <2>3, <2>4, <2>5, <2>6, <2>7 DEF Next
<1> QED
  BY <1>1, Invariance, PTL DEF Spec, DroppedStaysDropped

=============================================================================
