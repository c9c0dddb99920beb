------------------------- MODULE ProofOfWorkProofs -------------------------
(***************************************************************************)
(* What a call of parallelProofOfWork3 keeps for any number of workers and *)
(* nonces, any cookie and any predicate.                                   *)
(***************************************************************************)
EXTENDS ProofOfWork, SequenceTheorems, TLAPS

\* Taking no prefix off leaves the message.
LEMMA StrippedAll ==
  ASSUME NEW m \in Seq(Int)
  PROVE  Stripped(m) = m
<1>1. Stripped(m) = SubSeq(m, 1, Len(m))
  BY DEF Stripped, StripPrefixLen
<1>2. /\ SubSeq(m, 1, Len(m)) \in Seq(Int)
      /\ Len(SubSeq(m, 1, Len(m))) = Len(m)
      /\ \A i \in 1..Len(m) : SubSeq(m, 1, Len(m))[i] = m[i]
  OBVIOUS
<1> QED
  BY <1>1, <1>2, SeqEqual

\* The worker hashes, from a prefix and its nonce, what the peer hashes from the
\* message it is sent (pow.go:133-150 and 181-185).
LEMMA HashedIsChecked ==
  ASSUME NEW c \in Seq(Nat), NEW n \in Nonces
  PROVE  Hashed(c, n) = Stripped(Marshal(c, n))
<1>1. n \in Int /\ c \in Seq(Int)
  BY DEF Nonces
<1>2. Marshal(c, n) \in Seq(Int) /\ Marshal(c, 0) \in Seq(Int)
  BY <1>1 DEF Marshal
<1>3. Stripped(Marshal(c, n)) = c \o <<n>> /\ Stripped(Marshal(c, 0)) = c \o <<0>>
  BY <1>2, StrippedAll DEF Marshal
<1>4. SubSeq(c \o <<0>>, 1, Len(c)) = c
  <2> DEFINE s == SubSeq(c \o <<0>>, 1, Len(c))
  <2>1. s \in Seq(Int) /\ Len(s) = Len(c) /\ \A i \in 1..Len(c) : s[i] = c[i]
    BY <1>1
  <2> QED
    BY <1>1, <2>1, SeqEqual
<1> QED
  BY <1>3, <1>4 DEF Hashed, PrefixLen

\* A worker has hashed the nonce that the caller received.
IInv == TypeOK /\ (result # None => CheckProofOfWork(cookie, result))
               /\ (caller \in {"received", "waiting", "returned"} => result # None)

-----------------------------------------------------------------------------

LEMMA TypeInit == Init => IInv
<1>1. 0 \in Nonces /\ 0 \in 0..W
  BY ProofOfWorkAssumption DEF ProofOfWorkAssumption, Nonces
<1> QED
  BY <1>1 DEF Init, IInv, TypeOK

LEMMA IInvStep ==
  ASSUME IInv, [Next]_vars
  PROVE  IInv'
<1> USE DEF IInv, TypeOK
<1>0. W \in Nat \ {0} /\ Modulus \in Nat /\ W <= Modulus /\ Cookies \subseteq Seq(Nat)
  BY ProofOfWorkAssumption DEF ProofOfWorkAssumption
<1>1. CASE Spawn
  <2>1. spawned \in Workers /\ spawned \in Nonces
    BY <1>0, <1>1 DEF Spawn, Workers, Nonces
  <2> QED
    BY <1>0, <1>1, <2>1 DEF Spawn, CheckProofOfWork
<1>2. ASSUME NEW w \in Workers, Check(w)
      PROVE  IInv'
  BY <1>2 DEF Check, CheckProofOfWork
<1>3. ASSUME NEW w \in Workers, Miss(w)
      PROVE  IInv'
  <2>1. AddToNonce(nonce[w]) \in Nonces
    <3>1. nonce[w] \in Int /\ W \in Int /\ Modulus \in Nat \ {0}
      BY <1>0 DEF Nonces
    <3> QED
      BY <3>1 DEF AddToNonce, Nonces
  <2> QED
    BY <1>3, <2>1 DEF Miss, CheckProofOfWork
<1>4. ASSUME NEW w \in Workers, Hit(w)
      PROVE  IInv'
  <2>1. nonce[w] \in Nonces /\ cookie \in Seq(Nat)
    BY <1>0
  <2>2. CheckProofOfWork(cookie, nonce[w])
    BY <1>4, <2>1, HashedIsChecked DEF Hit, CheckProofOfWork
  <2>3. nonce[w] # None
    BY <2>1 DEF Nonces, None
  <2> QED
    BY <1>4, <2>1, <2>2, <2>3 DEF Hit, CheckProofOfWork
<1>5. CASE Receive \/ Cancel \/ Return
  BY <1>5 DEF Receive, Cancel, Return, CheckProofOfWork
<1>6. CASE UNCHANGED vars
  BY <1>6 DEF vars, CheckProofOfWork
<1> QED
  BY <1>1, <1>2, <1>3, <1>4, <1>5, <1>6 DEF Next, Work

LEMMA ProofOfWorkInvariant == Spec => []IInv
BY TypeInit, IInvStep, PTL DEF Spec

\* Nonces stay within their width, and goroutines where their code is
\* (ProofOfWork.TypeOK).
THEOREM ProofOfWorkTypeCorrect == Spec => []TypeOK
BY ProofOfWorkInvariant, PTL DEF IInv

\* The nonce a caller gets is one the peer accepts, whichever worker found it and
\* whatever the others did meanwhile (pow.go:164-167).
THEOREM ReceivedNonceProves == Spec => []ResultProves
<1>1. IInv => ResultProves
  BY DEF IInv, ResultProves
<1> QED
  BY <1>1, ProofOfWorkInvariant, PTL
-----------------------------------------------------------------------------
(* Lanes. *)

\* What a remainder is.
LEMMA Remainder ==
  ASSUME NEW n \in Int, NEW d \in Nat \ {0}
  PROVE  n % d \in 0..(d - 1) /\ n \div d \in Int /\ n = d * (n \div d) + (n % d)
OBVIOUS

\* There is one way to write a number as a multiple of d and a rest below d.
LEMMA RemainderUnique ==
  ASSUME NEW d \in Nat \ {0}, NEW q \in Int, NEW r \in 0..(d - 1)
  PROVE  (d * q + r) % d = r
<1> DEFINE n == d * q + r
           p == n \div d
           s == n % d
<1>1. p \in Int /\ s \in 0..(d - 1) /\ n = d * p + s
  BY Remainder
<1>2. d * (q - p) = s - r
  BY <1>1
<1> HIDE DEF p, s
<1>3. q = p
  <2>1. CASE q - p >= 1
    BY <1>1, <1>2, <2>1
  <2>2. CASE p - q >= 1
    BY <1>1, <1>2, <2>2
  <2> QED
    BY <1>1, <2>1, <2>2
<1> QED
  BY <1>1, <1>2, <1>3 DEF s

\* Adding or taking off a multiple of d leaves the remainder.
LEMMA RemainderShift ==
  ASSUME NEW n \in Int, NEW d \in Nat \ {0}, NEW m \in Int, m % d = 0
  PROVE  (n + m) % d = n % d /\ (n - m) % d = n % d
<1> DEFINE q == n \div d
           r == n % d
           k == m \div d
<1>1. q \in Int /\ r \in 0..(d - 1) /\ n = d * q + r /\ k \in Int /\ m = d * k
  <2>1. k \in Int /\ m = d * k + (m % d)
    BY Remainder
  <2> QED
    BY <2>1, Remainder
<1> HIDE DEF q, r, k
<1>2. n + m = d * (q + k) + r /\ n - m = d * (q - k) + r
  BY <1>1
<1>3. (d * (q + k) + r) % d = r
  BY <1>1, RemainderUnique
<1>4. (d * (q - k) + r) % d = r
  BY <1>1, RemainderUnique
<1> QED
  BY <1>2, <1>3, <1>4 DEF r

\* d is a multiple of itself.
LEMMA RemainderSelf ==
  ASSUME NEW d \in Nat \ {0}
  PROVE  d % d = 0
<1>1. (d * 1 + 0) % d = 0
  BY RemainderUnique
<1> QED
  BY <1>1

\* Numbers with the same remainder are at least d apart.
LEMMA SameLaneApart ==
  ASSUME NEW d \in Nat \ {0}, NEW m \in Nat, NEW n \in Nat, m < n, m % d = n % d
  PROVE  m + d <= n
<1> DEFINE p == m \div d
           q == n \div d
           r == n % d
<1>1. p \in Int /\ q \in Int /\ r \in 0..(d - 1) /\ m = d * p + r /\ n = d * q + r
  BY Remainder
<1> HIDE DEF p, q, r
<1>2. q - p >= 1
  <2>1. CASE p - q >= 0
    BY <1>1, <2>1
  <2> QED
    BY <1>1, <2>1
<1> QED
  BY <1>1, <1>2

\* A number below d is its own remainder.
LEMMA SmallRemainder ==
  ASSUME NEW d \in Nat \ {0}, NEW r \in 0..(d - 1)
  PROVE  r % d = r
<1>1. (d * 0 + r) % d = r
  BY RemainderUnique
<1> QED
  BY <1>1

\* The first nonce of a lane is the lane's number: there is none of the lane below it.
LEMMA FirstOfLane ==
  ASSUME NEW w \in Workers, NEW n \in 0..(w - 1)
  PROVE  n % W # w
<1>1. W \in Nat \ {0} /\ w \in 0..(W - 1) /\ n \in 0..(W - 1)
  BY ProofOfWorkAssumption DEF ProofOfWorkAssumption, Workers
<1> QED
  BY <1>1, SmallRemainder

\* The next nonce is of the same lane; either the nonce has wrapped to the first one
\* of the lane, or it has skipped none.
LEMMA NextOfLane ==
  ASSUME NEW w \in Workers, NEW n \in Nonces, n % W = w
  PROVE  /\ AddToNonce(n) % W = w
         /\ \/ AddToNonce(n) = w
            \/ \A m \in 0..(AddToNonce(n) - 1) : m % W = w => m \in 0..n
<1>1. /\ W \in Nat \ {0} /\ Modulus \in Nat \ {0} /\ W <= Modulus /\ w \in 0..(W - 1)
      /\ n \in 0..(Modulus - 1) /\ n + W \in Int
  BY ProofOfWorkAssumption DEF ProofOfWorkAssumption, Workers, Nonces
<1>2. n \in Int /\ W \in Int /\ Modulus \in Int /\ W % W = 0 /\ Modulus % Modulus = 0
  BY <1>1, RemainderSelf
<1>3. (n + W) % W = w
  BY <1>1, <1>2, RemainderShift, Zenon
<1>4. CASE n + W < Modulus
  <2>1. AddToNonce(n) = n + W
    <3>1. n + W \in 0..(Modulus - 1)
      BY <1>1, <1>4
    <3> QED
      BY <1>1, <3>1, SmallRemainder DEF AddToNonce
  <2>2. ASSUME NEW m \in 0..((n + W) - 1), m % W = w
        PROVE  m \in 0..n
    <3>1. m \in Nat /\ n \in Nat /\ n % W = m % W
      BY <1>1, <2>2
    <3>2. n < m => n + W <= m
      BY <1>1, <3>1, SameLaneApart
    <3> QED
      BY <1>1, <3>1, <3>2
  <2>3. AddToNonce(n) % W = w
    BY <1>3, <2>1
  <2>4. \A m \in 0..(AddToNonce(n) - 1) : m % W = w => m \in 0..n
    BY <2>1, <2>2, Zenon
  <2> QED
    BY <2>3, <2>4, Zenon
<1>5. CASE n + W >= Modulus
  <2> DEFINE f == (n + W) - Modulus
  <2>1. f \in 0..(W - 1) /\ f \in 0..(Modulus - 1)
    BY <1>1, <1>5
  <2>2. AddToNonce(n) = f
    <3>1. n + W \in Int /\ Modulus \in Int /\ Modulus \in Nat \ {0} /\ Modulus % Modulus = 0
      BY <1>1, <1>2, Zenon
    <3>2. f % Modulus = (n + W) % Modulus
      BY <3>1, RemainderShift, Zenon
    <3>3. f % Modulus = f
      BY <1>1, <2>1, SmallRemainder
    <3> QED
      BY <3>2, <3>3, Zenon DEF AddToNonce
  <2>3. f = w
    <3>1. n + W \in Int /\ Modulus \in Int /\ W \in Nat \ {0} /\ Modulus % W = 0
      BY <1>1, <1>2, LanesAssumption, Zenon DEF LanesAssumption
    <3>2. f % W = (n + W) % W
      BY <3>1, RemainderShift, Zenon
    <3>3. f % W = f
      BY <1>1, <2>1, SmallRemainder
    <3> QED
      BY <1>3, <3>2, <3>3, Zenon
  <2>4. w % W = w
    BY <1>1, SmallRemainder
  <2> QED
    BY <2>2, <2>3, <2>4
<1> QED
  BY <1>1, <1>4, <1>5

LEMMA LanesInit == Init => LanesSearched
BY DEF Init, LanesSearched

LEMMA LanesStep ==
  ASSUME TypeOK, LanesSearched, [Next]_vars
  PROVE  LanesSearched'
<1> USE DEF TypeOK
<1>0. W \in Nat \ {0} /\ Modulus \in Nat /\ W <= Modulus /\ Cookies \subseteq Seq(Nat)
  BY ProofOfWorkAssumption DEF ProofOfWorkAssumption
<1>1. CASE Spawn
  <2>1. spawned \in Workers /\ spawned \in Nonces
    BY <1>0, <1>1 DEF Spawn, Workers, Nonces
  <2>2. spawned % W = spawned
    BY <1>0, <2>1, SmallRemainder DEF Workers
  <2>3. \A n \in 0..(spawned - 1) : n % W # spawned
    BY <2>1, FirstOfLane
  <2> QED
    BY <1>1, <2>1, <2>2, <2>3 DEF Spawn, LanesSearched, CheckProofOfWork
<1>2. ASSUME NEW w \in Workers, Check(w)
      PROVE  LanesSearched'
  BY <1>2 DEF Check, LanesSearched, CheckProofOfWork
<1>3. ASSUME NEW w \in Workers, Miss(w)
      PROVE  LanesSearched'
  <2> DEFINE n == nonce[w]
             next == AddToNonce(n)
  <2>1. /\ worker[w] # "unborn" /\ cookie' = cookie
        /\ worker' = [worker EXCEPT ![w] = "checking"] /\ nonce' = [nonce EXCEPT ![w] = next]
    BY <1>3 DEF Miss
  <2>2. n \in Nonces /\ n % W = w /\ cookie \in Seq(Nat)
    BY <1>0, <2>1 DEF LanesSearched
  <2>3. ~CheckProofOfWork(cookie, n)
    BY <1>3, <2>2, HashedIsChecked DEF Miss, CheckProofOfWork
  <2>4. \A m \in 0..n : m % W = w => ~CheckProofOfWork(cookie, m)
    <3>1. TAKE m \in 0..n
    <3>2. m = n \/ m \in 0..(n - 1)
      BY <2>2 DEF Nonces
    <3> QED
      BY <2>1, <2>3, <3>2 DEF LanesSearched
  <2>5. next % W = w
    BY <2>2, NextOfLane
  <2>6. \A m \in 0..(next - 1) : m % W = w => ~CheckProofOfWork(cookie, m)
    <3>1. CASE next = w
      BY <3>1, FirstOfLane
    <3>2. CASE \A m \in 0..(next - 1) : m % W = w => m \in 0..n
      BY <2>4, <3>2
    <3> QED
      BY <2>2, <3>1, <3>2, NextOfLane
  <2> HIDE DEF next
  <2>7. ASSUME NEW v \in Workers, worker'[v] # "unborn"
        PROVE  /\ nonce'[v] % W = v
               /\ \A m \in 0..(nonce'[v] - 1) : m % W = v => ~CheckProofOfWork(cookie, m)
    <3>1. CASE v = w
      BY <2>1, <2>5, <2>6, <3>1
    <3>2. CASE v # w
      BY <2>1, <2>7, <3>2 DEF LanesSearched
    <3> QED
      BY <3>1, <3>2
  <2> QED
    BY <2>1, <2>7 DEF LanesSearched, CheckProofOfWork
<1>4. ASSUME NEW w \in Workers, Hit(w)
      PROVE  LanesSearched'
  BY <1>4 DEF Hit, LanesSearched, CheckProofOfWork
<1>5. CASE Receive \/ Cancel \/ Return
  BY <1>5 DEF Receive, Cancel, Return, LanesSearched, CheckProofOfWork
<1>6. CASE UNCHANGED vars
  BY <1>6 DEF vars, LanesSearched, CheckProofOfWork
<1> QED
  BY <1>1, <1>2, <1>3, <1>4, <1>5, <1>6 DEF Next, Work

\* No two workers try the same nonce, and none passes a solution of its lane, for any
\* number of workers that divides the number of nonces (pow.go:144).
THEOREM NoSolutionPassed == Spec => []LanesSearched
<1>1. Init => LanesSearched
  BY LanesInit
<1>2. TypeOK /\ LanesSearched /\ [Next]_vars => LanesSearched'
  BY LanesStep
<1> QED
  BY <1>1, <1>2, ProofOfWorkTypeCorrect, PTL DEF Spec
=============================================================================
