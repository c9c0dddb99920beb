------------------------------ MODULE MCGossip ------------------------------
(* Two peers, and a triangle with a fourth peer that has a connection to one *)
(* of its corners.                                                           *)
EXTENDS Gossip, TLC

CONSTANTS A, B, C, D, m1, m2, m3

Both(ends) == ends \cup {<<l[2], l[1]>> : l \in ends}

Pair == Both({<<A, B>>})
Kite == Both({<<A, B>>, <<B, C>>, <<A, C>>, <<B, D>>})
NoLinks == {}

ThreeOrigins == m1 :> A @@ m2 :> A @@ m3 :> B
ThreeTtls == m1 :> 3 @@ m2 :> 3 @@ m3 :> 2
OneOrigin == m1 :> A
Ttl3 == m1 :> 3
=============================================================================
