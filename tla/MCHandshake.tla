----------------------------- MODULE MCHandshake -----------------------------
(* Two peers that dialled each other, as two neighbours do that both list    *)
(* the other: two connections, and at each peer one end of each kind.        *)
EXTENDS Handshake, TLC

CONSTANTS A, B, d1, a1, d2, a2

OnePeerOf == d1 :> A @@ a1 :> B
OneOther == d1 :> a1 @@ a1 :> d1

MCPeerOf == d1 :> A @@ a1 :> B @@ d2 :> B @@ a2 :> A
MCOther == d1 :> a1 @@ a1 :> d1 @@ d2 :> a2 @@ a2 :> d2
=============================================================================
