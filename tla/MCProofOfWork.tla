--------------------------- MODULE MCProofOfWork ---------------------------
(* Three workers and twelve nonces; of the first cookie the solutions are far *)
(* apart, of the second the last lane has none, and of the third the first    *)
(* nonce of every lane is one.                                                *)
EXTENDS ProofOfWork

MCCookies == {<<0, 1>>, <<1>>, <<>>}
Solutions == {<<0, 1, 6>>, <<0, 1, 4>>, <<0, 1, 11>>, <<1, 3>>, <<1, 7>>, <<0>>, <<1>>, <<2>>}
MCPred(x) == x \in Solutions
=============================================================================
