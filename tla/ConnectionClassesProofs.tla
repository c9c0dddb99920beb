----------------------- MODULE ConnectionClassesProofs -----------------------
(***************************************************************************)
(* For the connections that share their id with no other, the connection   *)
(* manager implements Connections.  SliceInv is not enough for that: it    *)
(* says nothing of a connection in two maps, or in one before it was       *)
(* announced.  Exclusive rules both out, so that an entry under the id of  *)
(* such a connection is that connection, and the removal of one entry      *)
(* removes it altogether.                                                  *)
(***************************************************************************)
EXTENDS ConnectionManagerProofs

USE ConnMapsAssumption, ConnectionManagerAssumption

\* The ids that exactly one connection has.
OwnIds == {IdOf[c] : c \in Distinct}

\* No such id has an entry in two of the maps.
OneEntry(m) ==
  \A id \in OwnIds :
    /\ ~(HasToBeProved(m, id) /\ HasInProgress(m, id))
    /\ ~(HasToBeProved(m, id) /\ HasValid(m, id))
    /\ ~(HasInProgress(m, id) /\ HasValid(m, id))

\* No map has an entry with such an id whose connection was not announced yet.
FreshAbsent(m, new) ==
  \A c \in new \cap Distinct : ~HasToBeProved(m, IdOf[c]) /\ ~HasInProgress(m, IdOf[c]) /\ ~HasValid(m, IdOf[c])

Exclusive == OneEntry(mgr) /\ FreshAbsent(mgr, fresh)

\* n has the entries of m, but for those under id.
SameBut(n, m, id) ==
  \A k \in Ids \ {id} : /\ n.toBeProved[k] = m.toBeProved[k]
                        /\ n.powInProgress[k] = m.powInProgress[k]
                        /\ n.openMap[k] = m.openMap[k]

-----------------------------------------------------------------------------
(* What the operators do to the entries. *)

LEMMA OwnIdsAre == OwnIds \subseteq Ids /\ Distinct \subseteq Conns
BY DEF OwnIds, Distinct

LEMMA OneConn ==
  ASSUME NEW c \in Distinct, NEW d \in Conns, IdOf[d] = IdOf[c]
  PROVE  d = c
BY DEF Distinct

LEMMA UnsafeRemoveEntries ==
  ASSUME NEW m \in Managers, NEW id \in Ids
  PROVE  LET n == UnsafeRemove(m, id)
         IN  /\ SameBut(n, m, id)
             /\ id \in OwnIds /\ OneEntry(m)
                  => ~HasToBeProved(n, id) /\ ~HasInProgress(n, id) /\ ~HasValid(n, id)
BY DEF UnsafeRemove, OneEntry, SameBut, HasToBeProved, HasInProgress, HasValid, Managers, ConnMap

LEMMA MakeValidEntries ==
  ASSUME NEW m \in Managers, NEW id \in Ids,
         ~HasValid(m, id), Found(m, id) # NoConn
  PROVE  LET n == MakeValid(m, id)
         IN  /\ SameBut(n, m, id)
             /\ id \in OwnIds /\ OneEntry(m)
                  => ~HasToBeProved(n, id) /\ ~HasInProgress(n, id) /\ HasValid(n, id)
<1> DEFINE r == UnsafeRemove(m, id)
           n == [r EXCEPT !.open = Append(@, Found(m, id)), !.openMap[id] = Found(m, id)]
<1>1. MakeValid(m, id) = n
  BY DEF MakeValid
<1>2. /\ SameBut(r, m, id)
      /\ id \in OwnIds /\ OneEntry(m) => ~HasToBeProved(r, id) /\ ~HasInProgress(r, id)
  BY UnsafeRemoveEntries
<1>3. /\ r.toBeProved \in [Ids -> Conns \cup {NoConn}]
      /\ r.powInProgress \in [Ids -> Conns \cup {NoConn}]
      /\ r.openMap \in [Ids -> Conns \cup {NoConn}]
      /\ DOMAIN r = {"toBeProved", "powInProgress", "openMap", "open"}
  BY DEF UnsafeRemove, Managers, ConnMap
<1> HIDE DEF r
<1>4. /\ n.toBeProved = r.toBeProved
      /\ n.powInProgress = r.powInProgress
      /\ n.openMap = [r.openMap EXCEPT ![id] = Found(m, id)]
  BY <1>3
<1> HIDE DEF n
<1>5. SameBut(n, m, id)
  BY <1>2, <1>3, <1>4 DEF SameBut
<1>6. id \in OwnIds /\ OneEntry(m)
        => ~HasToBeProved(n, id) /\ ~HasInProgress(n, id) /\ HasValid(n, id)
  BY <1>2, <1>3, <1>4 DEF HasToBeProved, HasInProgress, HasValid
<1> QED
  BY <1>1, <1>5, <1>6

\* The class of a connection, from what the maps have under its id.
LEMMA ClassByEntry ==
  ASSUME NEW m \in Managers, KeysMatch(m), NEW c \in Distinct
  PROVE  /\ m.toBeProved[IdOf[c]] = c <=> HasToBeProved(m, IdOf[c])
         /\ m.powInProgress[IdOf[c]] = c <=> HasInProgress(m, IdOf[c])
         /\ m.openMap[IdOf[c]] = c <=> HasValid(m, IdOf[c])
<1>1. c \in Conns /\ IdOf[c] \in Ids /\ c # NoConn
  BY OwnIdsAre
<1> QED
  BY <1>1, Entries, OneConn DEF KeysMatch, HasToBeProved, HasInProgress, HasValid

-----------------------------------------------------------------------------
(* Exclusive is an invariant. *)

LEMMA ExclusiveInit == Init => Exclusive
<1> SUFFICES ASSUME Init PROVE Exclusive
  OBVIOUS
<1>1. PICK f \in ToBeProvedMaps(Neighbours) : mgr = NewManager(f)
  BY DEF Init
<1>2. /\ mgr.toBeProved = f
      /\ \A id \in Ids : mgr.powInProgress[id] = NoConn /\ mgr.openMap[id] = NoConn
  BY <1>1 DEF NewManager, EmptyMap
<1>3. \A id \in Ids : f[id] # NoConn => f[id] \in Neighbours /\ IdOf[f[id]] = id
  BY DEF ToBeProvedMaps
<1>4. OneEntry(mgr)
  BY <1>2, OwnIdsAre DEF OneEntry, HasInProgress, HasValid
<1>5. \A c \in fresh \cap Distinct : ~HasToBeProved(mgr, IdOf[c])
  BY <1>2, <1>3, OneConn DEF Init, HasToBeProved
<1>6. \A c \in fresh \cap Distinct : ~HasInProgress(mgr, IdOf[c]) /\ ~HasValid(mgr, IdOf[c])
  BY <1>2 DEF Init, HasInProgress, HasValid
<1> QED
  BY <1>4, <1>5, <1>6 DEF Exclusive, FreshAbsent

\* What MakeValid does: nothing, or it moves the connection found.
LEMMA MakeValidCases ==
  ASSUME NEW m \in Managers, NEW id \in Ids
  PROVE  LET n == MakeValid(m, id)
         IN  \/ n = m
             \/ /\ HasToBeProved(m, id) \/ HasInProgress(m, id)
                /\ SameBut(n, m, id)
                /\ id \in OwnIds /\ OneEntry(m)
                     => ~HasToBeProved(n, id) /\ ~HasInProgress(n, id) /\ HasValid(n, id)
<1>1. CASE HasValid(m, id) \/ Found(m, id) = NoConn
  BY <1>1 DEF MakeValid
<1>2. CASE ~HasValid(m, id) /\ Found(m, id) # NoConn
  <2>1. HasToBeProved(m, id) \/ HasInProgress(m, id)
    BY <1>2 DEF Found, HasToBeProved, HasInProgress, HasValid
  <2> QED
    BY <1>2, <2>1, MakeValidEntries
<1> QED
  BY <1>1, <1>2

LEMMA ExclusiveMakeValid ==
  ASSUME TypeOK, Exclusive, NEW id \in Ids,
         mgr' = MakeValid(mgr, id), UNCHANGED fresh
  PROVE  Exclusive'
<1>1. mgr \in Managers /\ OneEntry(mgr) /\ fresh \subseteq Conns
  BY DEF TypeOK, Exclusive
<1>2. CASE mgr' = mgr
  BY <1>2 DEF Exclusive
<1>3. CASE mgr' # mgr
  <2>1. /\ HasToBeProved(mgr, id) \/ HasInProgress(mgr, id)
        /\ SameBut(mgr', mgr, id)
        /\ id \in OwnIds => ~HasToBeProved(mgr', id) /\ ~HasInProgress(mgr', id) /\ HasValid(mgr', id)
    BY <1>1, <1>3, MakeValidCases
  <2>2. OneEntry(mgr')
    BY <1>1, <2>1, OwnIdsAre DEF OneEntry, SameBut, HasToBeProved, HasInProgress, HasValid
  <2>3. \A c \in fresh \cap Distinct : IdOf[c] \in Ids \ {id}
    BY <1>1, <2>1 DEF Exclusive, FreshAbsent
  <2>4. FreshAbsent(mgr', fresh')
    BY <2>1, <2>3 DEF Exclusive, FreshAbsent, SameBut, HasToBeProved, HasInProgress, HasValid
  <2> QED
    BY <2>2, <2>4 DEF Exclusive
<1> QED
  BY <1>2, <1>3

LEMMA ExclusiveNext ==
  ASSUME IInv, Exclusive, [Next]_vars
  PROVE  Exclusive'
<1>1. /\ mgr \in Managers /\ fresh \subseteq Conns /\ KeysMatch(mgr)
      /\ OneEntry(mgr) /\ FreshAbsent(mgr, fresh)
  BY DEF IInv, TypeOK, SliceInv, Consistent, Exclusive
<1>2. ASSUME NEW c \in Conns, Accept(c) PROVE Exclusive'
  <2>1. /\ mgr'.toBeProved = mgr.toBeProved
        /\ mgr'.openMap = mgr.openMap
        /\ \A k \in Ids : mgr'.powInProgress[k] = IF k = IdOf[c] THEN c ELSE mgr.powInProgress[k]
    BY <1>1, <1>2 DEF Accept, AddInProgress, Managers, ConnMap
  <2>2. c \in Distinct => ~HasToBeProved(mgr, IdOf[c]) /\ ~HasValid(mgr, IdOf[c])
    BY <1>1, <1>2 DEF Accept, FreshAbsent
  <2>3. OneEntry(mgr')
    <3>1. ASSUME NEW d \in Distinct, IdOf[d] = IdOf[c] PROVE c = d
      BY <3>1, OneConn
    <3>2. \A id \in OwnIds : id # IdOf[c] \/ c \in Distinct
      BY <3>1 DEF OwnIds
    <3> QED
      BY <1>1, <2>1, <2>2, <3>2, OwnIdsAre DEF OneEntry, HasToBeProved, HasInProgress, HasValid
  <2>4. \A d \in fresh' \cap Distinct : d \in fresh /\ IdOf[d] \in Ids /\ IdOf[d] # IdOf[c]
    BY <1>1, <1>2, OneConn DEF Accept
  <2>5. FreshAbsent(mgr', fresh')
    BY <1>1, <2>1, <2>4 DEF FreshAbsent, HasToBeProved, HasInProgress, HasValid
  <2> QED
    BY <2>3, <2>5 DEF Exclusive
<1>3. ASSUME NEW c \in Conns, Solved(c) PROVE Exclusive'
  <2>1. CASE UNCHANGED mgr
    BY <1>3, <2>1 DEF Solved, Exclusive
  <2>2. CASE mgr' = MakeValid(mgr, IdOf[c])
    <3>1. IdOf[c] \in Ids /\ UNCHANGED fresh
      BY <1>3 DEF Solved
    <3> QED
      BY <2>2, <3>1, ExclusiveMakeValid DEF IInv
  <2> QED
    BY <1>3, <2>1, <2>2 DEF Solved
<1>4. ASSUME NEW id \in Ids, Remove(id) PROVE Exclusive'
  <2>1. mgr' = UnsafeRemove(mgr, id) /\ fresh' = fresh
    BY <1>4 DEF Remove
  <2>2. /\ SameBut(mgr', mgr, id)
        /\ id \in OwnIds => ~HasToBeProved(mgr', id) /\ ~HasInProgress(mgr', id) /\ ~HasValid(mgr', id)
    BY <1>1, <2>1, UnsafeRemoveEntries
  <2>3. OneEntry(mgr')
    BY <1>1, <2>2, OwnIdsAre DEF OneEntry, SameBut, HasToBeProved, HasInProgress, HasValid
  <2>4. FreshAbsent(mgr', fresh')
    <3> SUFFICES ASSUME NEW c \in fresh \cap Distinct
                 PROVE  ~HasToBeProved(mgr', IdOf[c]) /\ ~HasInProgress(mgr', IdOf[c]) /\ ~HasValid(mgr', IdOf[c])
      BY <2>1 DEF FreshAbsent
    <3>1. IdOf[c] \in Ids /\ IdOf[c] \in OwnIds
      BY <1>1 DEF OwnIds
    <3> QED
      BY <1>1, <2>2, <3>1 DEF FreshAbsent, SameBut, HasToBeProved, HasInProgress, HasValid
  <2> QED
    BY <2>3, <2>4 DEF Exclusive
<1>5. ASSUME NEW id \in Ids, Prove(id) PROVE Exclusive'
  BY <1>5, ExclusiveMakeValid DEF Prove, IInv
<1>6. ASSUME NEW id \in Ids, Challenge(id) PROVE Exclusive'
  BY <1>6 DEF Challenge, Exclusive
<1>7. ASSUME NEW dead \in SUBSET Conns, CullMark(dead) PROVE Exclusive'
  <2>1. /\ mgr'.toBeProved = mgr.toBeProved
        /\ mgr'.powInProgress = mgr.powInProgress
        /\ \A k \in Ids : mgr'.openMap[k] \in {mgr.openMap[k], NoConn}
    BY <1>1, <1>7 DEF CullMark, CullMap, Managers, ConnMap
  <2>2. \A c \in fresh : IdOf[c] \in Ids
    BY <1>1
  <2> QED
    BY <1>1, <1>7, <2>1, <2>2, OwnIdsAre
      DEF CullMark, Exclusive, OneEntry, FreshAbsent, HasToBeProved, HasInProgress, HasValid
<1>8. ASSUME CullSwap PROVE Exclusive'
  <2>1. /\ mgr'.toBeProved = mgr.toBeProved
        /\ mgr'.powInProgress = mgr.powInProgress
        /\ mgr'.openMap = mgr.openMap
        /\ fresh' = fresh
    BY <1>1, <1>8 DEF CullSwap, CullSlice, Managers
  <2> QED
    BY <1>1, <2>1 DEF Exclusive, OneEntry, FreshAbsent, HasToBeProved, HasInProgress, HasValid
<1>9. CASE UNCHANGED vars
  BY <1>9 DEF vars, Exclusive
<1> QED
  BY <1>2, <1>3, <1>4, <1>5, <1>6, <1>7, <1>8, <1>9 DEF Next

-----------------------------------------------------------------------------
(* Every step is one of Connections, or leaves every class as it was. *)

\* The class of a connection by the entries under its id.
ClassIn(m, new, c) ==
  IF c \in new THEN "new"
  ELSE IF HasValid(m, IdOf[c]) THEN "valid"
  ELSE IF HasToBeProved(m, IdOf[c]) THEN "toBeProved"
  ELSE IF HasInProgress(m, IdOf[c]) THEN "inProgress"
  ELSE "gone"

LEMMA ClassOfIsClassIn ==
  ASSUME IInv, NEW c \in Distinct
  PROVE  ClassOf(c) = ClassIn(mgr, fresh, c)
BY ClassByEntry DEF ClassOf, ClassIn, IInv, TypeOK, SliceInv, Consistent

LEMMA SameButClass ==
  ASSUME NEW m, NEW n, NEW new, NEW c \in Conns, SameBut(n, m, IdOf[c]),
         NEW d \in Distinct, d # c
  PROVE  ClassIn(n, new, d) = ClassIn(m, new, d)
<1>1. IdOf[d] \in Ids \ {IdOf[c]}
  BY OneConn, OwnIdsAre
<1> QED
  BY <1>1 DEF ClassIn, SameBut, HasToBeProved, HasInProgress, HasValid

\* An id that no connection has is in no map.
LEMMA UnusedId ==
  ASSUME NEW m \in Managers, KeysMatch(m), NEW id \in Ids, \A c \in Conns : IdOf[c] # id
  PROVE  /\ ~HasToBeProved(m, id) /\ ~HasInProgress(m, id) /\ ~HasValid(m, id)
         /\ UnsafeRemove(m, id) = m
         /\ MakeValid(m, id) = m
<1>1. ~HasToBeProved(m, id) /\ ~HasInProgress(m, id) /\ ~HasValid(m, id)
  BY Entries DEF KeysMatch, HasToBeProved, HasInProgress, HasValid
<1> QED
  BY <1>1 DEF UnsafeRemove, MakeValid, Found, HasValid

\* MakeValid of a connection admits it or changes no class.
LEMMA MakeValidClasses ==
  ASSUME NEW m \in Managers, OneEntry(m), NEW new \in SUBSET Conns,
         FreshAbsent(m, new), NEW c \in Conns
  PROVE  LET n == MakeValid(m, IdOf[c])
         IN  \/ \A d \in Distinct : ClassIn(n, new, d) = ClassIn(m, new, d)
             \/ /\ c \in Distinct
                /\ ClassIn(m, new, c) \in {"toBeProved", "inProgress"}
                /\ ClassIn(n, new, c) = "valid"
                /\ \A d \in Distinct \ {c} : ClassIn(n, new, d) = ClassIn(m, new, d)
<1> DEFINE n == MakeValid(m, IdOf[c])
<1>1. IdOf[c] \in Ids /\ (c \in Distinct => IdOf[c] \in OwnIds)
  BY DEF OwnIds
<1>2. \/ n = m
      \/ /\ HasToBeProved(m, IdOf[c]) \/ HasInProgress(m, IdOf[c])
         /\ SameBut(n, m, IdOf[c])
         /\ c \in Distinct => ~HasToBeProved(n, IdOf[c]) /\ ~HasInProgress(n, IdOf[c]) /\ HasValid(n, IdOf[c])
  BY <1>1, MakeValidCases
<1> HIDE DEF n
<1>3. ASSUME n # m, c \in Distinct
      PROVE  /\ ClassIn(m, new, c) \in {"toBeProved", "inProgress"}
             /\ ClassIn(n, new, c) = "valid"
             /\ \A d \in Distinct \ {c} : ClassIn(n, new, d) = ClassIn(m, new, d)
  <2>1. c \notin new /\ ~HasValid(m, IdOf[c])
    BY <1>1, <1>2, <1>3 DEF FreshAbsent, OneEntry
  <2>2. \A d \in Distinct \ {c} : ClassIn(n, new, d) = ClassIn(m, new, d)
    BY <1>2, <1>3, SameButClass
  <2> QED
    BY <1>2, <1>3, <2>1, <2>2 DEF ClassIn
<1>4. ASSUME n # m, c \notin Distinct
      PROVE  \A d \in Distinct : ClassIn(n, new, d) = ClassIn(m, new, d)
  BY <1>2, <1>4, SameButClass
<1> QED
  BY <1>3, <1>4 DEF n

ClassMap == [c \in Distinct |-> ClassOf(c)]

LEMMA RefinementStep ==
  ASSUME IInv, IInv', Exclusive, Exclusive', [Next]_vars
  PROVE  [Classified!Next]_ClassMap
<1>1. /\ mgr \in Managers /\ fresh \in SUBSET Conns /\ KeysMatch(mgr)
      /\ OneEntry(mgr) /\ FreshAbsent(mgr, fresh)
  BY DEF IInv, TypeOK, SliceInv, Consistent, Exclusive
<1>2. \A c \in Distinct : ClassOf(c) = ClassIn(mgr, fresh, c)
  BY ClassOfIsClassIn
<1>3. \A c \in Distinct : ClassOf(c)' = ClassIn(mgr', fresh', c)
  BY ClassByEntry DEF ClassOf, ClassIn, IInv, TypeOK, SliceInv, Consistent
<1>4. ASSUME \A c \in Distinct : ClassIn(mgr', fresh', c) = ClassIn(mgr, fresh, c)
      PROVE  UNCHANGED ClassMap
  BY <1>2, <1>3, <1>4 DEF ClassMap
<1>5. ASSUME NEW c \in Distinct, NEW x,
             ClassIn(mgr', fresh', c) = x,
             \A d \in Distinct \ {c} : ClassIn(mgr', fresh', d) = ClassIn(mgr, fresh, d)
      PROVE  /\ ClassMap[c] = ClassIn(mgr, fresh, c)
             /\ ClassMap' = [ClassMap EXCEPT ![c] = x]
  BY <1>2, <1>3, <1>5 DEF ClassMap
<1>6. ASSUME NEW c \in Conns, Accept(c)
      PROVE  (c \in Distinct /\ Classified!Accept(c)) \/ UNCHANGED ClassMap
  <2>1. /\ SameBut(mgr', mgr, IdOf[c])
        /\ HasInProgress(mgr', IdOf[c])
        /\ mgr'.toBeProved = mgr.toBeProved /\ mgr'.openMap = mgr.openMap
    BY <1>1, <1>6 DEF Accept, AddInProgress, SameBut, HasInProgress, Managers, ConnMap
  <2>2. c \in Distinct => ~HasToBeProved(mgr', IdOf[c]) /\ ~HasValid(mgr', IdOf[c])
    BY <1>1, <1>6, <2>1 DEF Accept, FreshAbsent, HasToBeProved, HasValid
  <2>3. c \in Distinct => ClassIn(mgr, fresh, c) = "new" /\ ClassIn(mgr', fresh', c) = "inProgress"
    BY <1>6, <2>1, <2>2 DEF Accept, ClassIn
  <2>4. \A d \in Distinct \ {c} : ClassIn(mgr', fresh', d) = ClassIn(mgr, fresh, d)
    <3> SUFFICES ASSUME NEW d \in Distinct \ {c}
                 PROVE  ClassIn(mgr', fresh', d) = ClassIn(mgr, fresh, d)
      OBVIOUS
    <3>1. ClassIn(mgr', fresh, d) = ClassIn(mgr, fresh, d)
      BY <2>1, SameButClass
    <3>2. d \in fresh' <=> d \in fresh
      BY <1>6 DEF Accept
    <3> QED
      BY <3>1, <3>2 DEF ClassIn
  <2>5. CASE c \notin Distinct
    BY <1>4, <2>4, <2>5
  <2>6. c \in Distinct => ClassMap[c] = "new" /\ ClassMap' = [ClassMap EXCEPT ![c] = "inProgress"]
    BY <1>5, <2>3, <2>4
  <2> QED
    BY <2>5, <2>6 DEF Classified!Accept, ClassMap
<1>7. ASSUME NEW c \in Conns, mgr' = MakeValid(mgr, IdOf[c]), fresh' = fresh
      PROVE  (c \in Distinct /\ Classified!Admit(c)) \/ UNCHANGED ClassMap
  <2>1. \/ \A d \in Distinct : ClassIn(mgr', fresh', d) = ClassIn(mgr, fresh, d)
        \/ /\ c \in Distinct
           /\ ClassIn(mgr, fresh, c) \in {"toBeProved", "inProgress"}
           /\ ClassIn(mgr', fresh', c) = "valid"
           /\ \A d \in Distinct \ {c} : ClassIn(mgr', fresh', d) = ClassIn(mgr, fresh, d)
    BY <1>1, <1>7, MakeValidClasses
  <2>2. CASE \A d \in Distinct : ClassIn(mgr', fresh', d) = ClassIn(mgr, fresh, d)
    BY <1>4, <2>2
  <2>3. CASE /\ c \in Distinct
             /\ ClassIn(mgr, fresh, c) \in {"toBeProved", "inProgress"}
             /\ ClassIn(mgr', fresh', c) = "valid"
             /\ \A d \in Distinct \ {c} : ClassIn(mgr', fresh', d) = ClassIn(mgr, fresh, d)
    <3>1. ClassMap[c] \in {"toBeProved", "inProgress"} /\ ClassMap' = [ClassMap EXCEPT ![c] = "valid"]
      BY <1>5, <2>3
    <3> QED
      BY <3>1 DEF Classified!Admit, ClassMap
  <2> QED
    BY <2>1, <2>2, <2>3
<1>8. ASSUME NEW id \in Ids, \A c \in Conns : IdOf[c] # id,
             mgr' \in {MakeValid(mgr, id), UnsafeRemove(mgr, id)}, fresh' = fresh
      PROVE  UNCHANGED ClassMap
  <2>1. mgr' = mgr
    BY <1>1, <1>8, UnusedId
  <2> QED
    BY <1>4, <1>8, <2>1
<1>9. ASSUME NEW c \in Conns, mgr' = UnsafeRemove(mgr, IdOf[c]), fresh' = fresh
      PROVE  (c \in Distinct /\ Classified!Remove(c)) \/ UNCHANGED ClassMap
  <2>1. IdOf[c] \in Ids /\ (c \in Distinct => IdOf[c] \in OwnIds)
    BY DEF OwnIds
  <2>2. /\ SameBut(mgr', mgr, IdOf[c])
        /\ c \in Distinct
             => ~HasToBeProved(mgr', IdOf[c]) /\ ~HasInProgress(mgr', IdOf[c]) /\ ~HasValid(mgr', IdOf[c])
    BY <1>1, <1>9, <2>1, UnsafeRemoveEntries
  <2>3. \A d \in Distinct \ {c} : ClassIn(mgr', fresh', d) = ClassIn(mgr, fresh, d)
    BY <1>9, <2>2, SameButClass
  <2>4. CASE c \in Distinct /\ ClassIn(mgr, fresh, c) \in {"new", "gone"}
    <3>1. ClassIn(mgr', fresh', c) = ClassIn(mgr, fresh, c)
      BY <1>9, <2>2, <2>4 DEF ClassIn
    <3> QED
      BY <1>4, <2>3, <3>1
  <2>5. CASE c \in Distinct /\ ClassIn(mgr, fresh, c) \in {"toBeProved", "inProgress", "valid"}
    <3>1. ClassIn(mgr', fresh', c) = "gone"
      BY <1>9, <2>2, <2>5 DEF ClassIn
    <3>2. /\ ClassMap[c] \in {"toBeProved", "inProgress", "valid"}
          /\ ClassMap' = [ClassMap EXCEPT ![c] = "gone"]
      BY <1>5, <2>3, <2>5, <3>1
    <3> QED
      BY <3>2 DEF Classified!Remove, ClassMap
  <2>6. CASE c \notin Distinct
    BY <1>4, <2>3, <2>6
  <2> QED
    BY <2>4, <2>5, <2>6 DEF ClassIn
<1>10. ASSUME NEW dead \in SUBSET Conns, CullMark(dead)
       PROVE  \E D \in SUBSET Distinct : Classified!Cull(D)
  <2> DEFINE marked == CullPositions(mgr, dead)
             D == {c \in Distinct : \E i \in marked : mgr.open[i] = c}
  <2>1. /\ mgr'.toBeProved = mgr.toBeProved
        /\ mgr'.powInProgress = mgr.powInProgress
        /\ \A k \in Ids : mgr'.openMap[k] = IF \E i \in marked : IdOf[mgr.open[i]] = k
                                             THEN NoConn ELSE mgr.openMap[k]
        /\ fresh' = fresh
    BY <1>1, <1>10 DEF CullMark, CullMap, Managers, ConnMap
  <2>2. marked \subseteq 1..Len(mgr.open) /\ \A i \in 1..Len(mgr.open) : mgr.open[i] \in Conns
    BY <1>1 DEF CullPositions, Managers
  <2> HIDE DEF marked
  <2>3. \A c \in D : ClassIn(mgr, fresh, c) = "valid"
    <3> SUFFICES ASSUME NEW i \in marked, mgr.open[i] \in Distinct
                 PROVE  ClassIn(mgr, fresh, mgr.open[i]) = "valid"
      OBVIOUS
    <3>1. mgr.openMap[IdOf[mgr.open[i]]] = mgr.open[i]
      BY <1>10, <2>2 DEF CullMark, Unlocked, IInv, SliceInv, Consistent, SliceInMap
    <3>2. HasValid(mgr, IdOf[mgr.open[i]])
      BY <2>2, <3>1 DEF HasValid
    <3> QED
      BY <1>1, <2>2, <3>2 DEF ClassIn, FreshAbsent
  <2>4. \A c \in Distinct : c \in D <=> \E i \in marked : IdOf[mgr.open[i]] = IdOf[c]
    BY <2>2, OneConn
  <2>5. \A c \in Distinct : IdOf[c] \in Ids /\ IdOf[c] \in OwnIds
    BY OwnIdsAre DEF OwnIds
  <2> HIDE DEF D
  <2>6. \A c \in Distinct \ D : ClassIn(mgr', fresh', c) = ClassIn(mgr, fresh, c)
    BY <2>1, <2>4, <2>5 DEF ClassIn, HasToBeProved, HasInProgress, HasValid
  <2>7. \A c \in Distinct : c \in D => ClassIn(mgr', fresh', c) = "gone"
    <3> SUFFICES ASSUME NEW c \in Distinct, c \in D PROVE ClassIn(mgr', fresh', c) = "gone"
      OBVIOUS
    <3>1. c \notin fresh /\ HasValid(mgr, IdOf[c])
      BY <2>3 DEF ClassIn
    <3>2. ~HasToBeProved(mgr, IdOf[c]) /\ ~HasInProgress(mgr, IdOf[c])
      BY <1>1, <2>5, <3>1 DEF OneEntry
    <3>3. ~HasValid(mgr', IdOf[c])
      BY <2>1, <2>4, <2>5 DEF HasValid
    <3> QED
      BY <2>1, <3>1, <3>2, <3>3 DEF ClassIn, HasToBeProved, HasInProgress
  <2>8. \A c \in D : ClassMap[c] = "valid"
    <3>1. D \subseteq Distinct
      BY DEF D
    <3> QED
      BY <1>2, <2>3, <3>1 DEF ClassMap
  <2>9. ClassMap' = [c \in Distinct |-> IF c \in D THEN "gone" ELSE ClassMap[c]]
    BY <1>2, <1>3, <2>6, <2>7 DEF ClassMap
  <2>10. Classified!Cull(D)
    BY <2>8, <2>9 DEF Classified!Cull, ClassMap
  <2>11. D \in SUBSET Distinct
    BY DEF D
  <2> QED
    BY <2>10, <2>11
<1>11. ASSUME CullSwap PROVE UNCHANGED ClassMap
  <2>1. /\ mgr'.toBeProved = mgr.toBeProved
        /\ mgr'.powInProgress = mgr.powInProgress
        /\ mgr'.openMap = mgr.openMap
        /\ fresh' = fresh
    BY <1>1, <1>11 DEF CullSwap, CullSlice, Managers
  <2> QED
    BY <1>4, <2>1 DEF ClassIn, HasToBeProved, HasInProgress, HasValid
<1>12. ASSUME NEW c \in Conns, Solved(c) PROVE (c \in Distinct /\ Classified!Admit(c)) \/ UNCHANGED ClassMap
  BY <1>4, <1>7, <1>12 DEF Solved
<1>13. ASSUME NEW id \in Ids, Remove(id)
       PROVE  (\E c \in Distinct : Classified!Remove(c)) \/ UNCHANGED ClassMap
  <2>1. CASE \A c \in Conns : IdOf[c] # id
    BY <1>8, <1>13, <2>1 DEF Remove
  <2>2. CASE \E c \in Conns : IdOf[c] = id
    BY <1>9, <1>13, <2>2 DEF Remove
  <2> QED
    BY <2>1, <2>2
<1>14. ASSUME NEW id \in Ids, Prove(id)
       PROVE  (\E c \in Distinct : Classified!Admit(c)) \/ UNCHANGED ClassMap
  <2>1. CASE \A c \in Conns : IdOf[c] # id
    BY <1>8, <1>14, <2>1 DEF Prove
  <2>2. CASE \E c \in Conns : IdOf[c] = id
    BY <1>7, <1>14, <2>2 DEF Prove
  <2> QED
    BY <2>1, <2>2
<1>15. ASSUME NEW id \in Ids, Challenge(id) PROVE UNCHANGED ClassMap
  BY <1>4, <1>15 DEF Challenge
<1>16. CASE UNCHANGED vars
  BY <1>4, <1>16 DEF vars
<1> QED
  BY <1>6, <1>10, <1>11, <1>12, <1>13, <1>14, <1>15, <1>16 DEF Next, Classified!Next

-----------------------------------------------------------------------------

\* The three maps, the slice and the mutex of the manager behave as one class
\* per connection, for all connections that share their id with no other,
\* whatever the rest does.
THEOREM ManagerIsClasses == Spec => ImplementsConnections
<1>1. Init => Exclusive
  BY ExclusiveInit
<1>2. Exclusive /\ IInv /\ [Next]_vars => Exclusive'
  BY ExclusiveNext
<1>3. Init => Classified!Init
  <2> SUFFICES ASSUME Init PROVE Classified!Init
    OBVIOUS
  <2>1. IInv
    BY InitIInv
  <2>2. PICK f \in ToBeProvedMaps(Neighbours) : mgr = NewManager(f)
    BY DEF Init
  <2>3. /\ mgr.toBeProved = f
        /\ \A id \in Ids : mgr.powInProgress[id] = NoConn /\ mgr.openMap[id] = NoConn
    BY <2>2 DEF NewManager, EmptyMap
  <2>4. \A c \in Conns : IdOf[c] \in Ids
    OBVIOUS
  <2>5. \A c \in Neighbours \cap Distinct : f[IdOf[c]] # NoConn
    <3> SUFFICES ASSUME NEW c \in Neighbours \cap Distinct PROVE f[IdOf[c]] # NoConn
      OBVIOUS
    <3>1. c \in {d \in Neighbours : IdOf[d] = IdOf[c]}
      OBVIOUS
    <3>2. f[IdOf[c]] \in {d \in Neighbours : IdOf[d] = IdOf[c]}
      BY <2>4, <3>1 DEF ToBeProvedMaps
    <3> QED
      BY <3>2
  <2>6. \A c \in Distinct : ClassOf(c) = IF c \in Neighbours THEN "toBeProved" ELSE "new"
    <3>1. \A c \in Distinct : ClassOf(c) = ClassIn(mgr, fresh, c)
      BY <2>1, ClassOfIsClassIn
    <3> QED
      BY <2>3, <2>4, <2>5, <3>1, OwnIdsAre DEF Init, ClassIn, HasValid, HasToBeProved
  <2>7. [c \in Distinct |-> ClassOf(c)]
          = [c \in Distinct |-> IF c \in Neighbours \cap Distinct THEN "toBeProved" ELSE "new"]
    BY <2>6
  <2> QED
    BY <2>7 DEF Classified!Init
<1>4. IInv /\ IInv' /\ Exclusive /\ Exclusive' /\ [Next]_vars => [Classified!Next]_ClassMap
  BY RefinementStep
<1>5. ClassMap = [c \in Distinct |-> ClassOf(c)]
  BY DEF ClassMap
<1> QED
  BY <1>1, <1>2, <1>3, <1>4, <1>5, Invariance, PTL
    DEF Spec, ImplementsConnections, Classified!Spec, ClassMap

=============================================================================
