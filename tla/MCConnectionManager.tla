------------------------ MODULE MCConnectionManager ------------------------
(* Two dialled connections to one address given twice, two accepted ones,   *)
(* the second from the address and port of the first, and one of each with  *)
(* an address of its own.                                                   *)
EXTENDS ConnectionManager, TLC

CONSTANTS n1, n2, n3, c1, c2, c3, a, b, c, d

MCIdOf == n1 :> a @@ n2 :> a @@ n3 :> b @@ c1 :> c @@ c2 :> c @@ c3 :> d
MCConns == {n1, n2, n3, c1, c2, c3}
MCNeighbours == {n1, n2, n3}

=============================================================================
