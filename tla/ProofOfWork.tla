---------------------------- MODULE ProofOfWork ----------------------------
(***************************************************************************)
(* One call of parallelProofOfWork3: W workers try the nonces of a lane    *)
(* each, and the caller takes the first nonce that is offered while it is  *)
(* at its receive.  A worker that finds a nonce at any other time drops it *)
(* and ends.  CheckProofOfWork is what the peer does with the result.      *)
(*                                                                         *)
(* What is hashed is a sequence, in which a nonce is one element; Pred     *)
(* says of which of them the digest begins with enough zeros.              *)
(***************************************************************************)
EXTENDS Integers, Sequences

CONSTANTS
  W,         \* WORKERS
  Modulus,   \* the number of nonces
  Cookies,   \* the cookies a proof is asked for
  Pred(_)

ASSUME ProofOfWorkAssumption ==
  /\ W \in Nat \ {0} /\ Modulus \in Nat /\ W <= Modulus
  /\ Cookies \subseteq Seq(Nat)
  /\ \A c \in Cookies, n \in 0..(Modulus - 1) : Pred(c \o <<n>>) \in BOOLEAN

\* WORKERS is a power of two, and so is the number of nonces: a nonce that wraps
\* stays in its lane.
ASSUME LanesAssumption == Modulus % W = 0

Workers == 0..(W - 1)
Nonces == 0..(Modulus - 1)
None == -1

VARIABLES
  cookie,    \* what the proof is for
  caller,    \* where the caller is; it spawns the workers one by one
  spawned,   \* how many it has spawned
  done,      \* the context was cancelled
  worker,    \* where every worker is
  nonce,     \* the nonce in the clone of every worker
  result     \* what the caller has received

vars == <<cookie, caller, spawned, done, worker, nonce, result>>

TypeOK ==
  /\ cookie \in Cookies
  /\ caller \in {"spawning", "receiving", "received", "waiting", "returned"}
  /\ spawned \in 0..W
  /\ done \in BOOLEAN
  /\ worker \in [Workers -> {"unborn", "checking", "hashing", "ended"}]
  /\ nonce \in [Workers -> Nonces]
  /\ result \in Nonces \cup {None}

Init ==
  /\ cookie \in Cookies
  /\ caller = "spawning" /\ spawned = 0 /\ done = FALSE
  /\ worker = [w \in Workers |-> "unborn"]
  /\ nonce = [w \in Workers |-> 0]
  /\ result = None

-----------------------------------------------------------------------------
(* The message the proof is over. *)

Marshal(c, n) == c \o <<n>>
StripPrefixLen == 0

\* Fault: the length of the whole message.
PrefixLenOfAll(c) == Len(c) + 1

PrefixLen(c) == Len(c)

\* What is left of the marshalled message without the part that is not hashed.
Stripped(m) == SubSeq(m, StripPrefixLen + 1, Len(m))

\* What a worker hashes: the prefix of the message it was cloned with, then its nonce.
Hashed(c, n) == SubSeq(Stripped(Marshal(c, 0)), 1, PrefixLen(c)) \o <<n>>

CheckProofOfWork(c, n) == Pred(Stripped(Marshal(c, n)))

-----------------------------------------------------------------------------
(* The workers. *)

\* Fault: every worker starts with the nonce of the message, and so tries what the
\* others try.
SpawnFromNonce ==
  /\ caller = "spawning" /\ spawned < W
  /\ spawned' = spawned + 1
  /\ worker' = [worker EXCEPT ![spawned] = "checking"]
  /\ nonce' = [nonce EXCEPT ![spawned] = 0]
  /\ UNCHANGED <<cookie, caller, done, result>>

Spawn ==
  /\ caller = "spawning" /\ spawned < W
  /\ spawned' = spawned + 1
  /\ worker' = [worker EXCEPT ![spawned] = "checking"]
  /\ nonce' = [nonce EXCEPT ![spawned] = spawned]
  /\ UNCHANGED <<cookie, caller, done, result>>

\* The look at the context before every nonce.
Check(w) ==
  /\ worker[w] = "checking"
  /\ worker' = [worker EXCEPT ![w] = IF done THEN "ended" ELSE "hashing"]
  /\ UNCHANGED <<cookie, caller, spawned, done, nonce, result>>

\* Fault: nonces do not wrap.
AddToNonceUnbounded(n) == n + W

AddToNonce(n) == (n + W) % Modulus

\* The nonce is no solution.
Miss(w) ==
  /\ worker[w] = "hashing" /\ ~Pred(Hashed(cookie, nonce[w]))
  /\ nonce' = [nonce EXCEPT ![w] = AddToNonce(@)]
  /\ worker' = [worker EXCEPT ![w] = "checking"]
  /\ UNCHANGED <<cookie, caller, spawned, done, result>>

\* Fault: the nonces are not cloned, and another worker may have changed this one.
HitShared(w) ==
  /\ worker[w] = "hashing" /\ Pred(Hashed(cookie, nonce[w]))
  /\ worker' = [worker EXCEPT ![w] = "ended"]
  /\ IF caller = "receiving"
     THEN caller' = "received" /\ \E v \in Workers : worker[v] # "unborn" /\ result' = nonce[v]
     ELSE UNCHANGED <<caller, result>>
  /\ UNCHANGED <<cookie, spawned, done, nonce>>

\* The nonce is a solution: the caller gets it if it is at its receive.
Hit(w) ==
  /\ worker[w] = "hashing" /\ Pred(Hashed(cookie, nonce[w]))
  /\ worker' = [worker EXCEPT ![w] = "ended"]
  /\ IF caller = "receiving"
     THEN caller' = "received" /\ result' = nonce[w]
     ELSE UNCHANGED <<caller, result>>
  /\ UNCHANGED <<cookie, spawned, done, nonce>>

-----------------------------------------------------------------------------
(* The caller. *)

Receive ==
  /\ caller = "spawning" /\ spawned = W
  /\ caller' = "receiving"
  /\ UNCHANGED <<cookie, spawned, done, worker, nonce, result>>

\* Fault: the workers are waited for without being told.
CancelNot ==
  /\ caller = "received"
  /\ caller' = "waiting"
  /\ UNCHANGED <<cookie, spawned, done, worker, nonce, result>>

Cancel ==
  /\ caller = "received"
  /\ caller' = "waiting" /\ done' = TRUE
  /\ UNCHANGED <<cookie, spawned, worker, nonce, result>>

Return ==
  /\ caller = "waiting" /\ \A w \in Workers : worker[w] = "ended"
  /\ caller' = "returned"
  /\ UNCHANGED <<cookie, spawned, done, worker, nonce, result>>

Work(w) == Check(w) \/ Miss(w) \/ Hit(w)

Next == Spawn \/ Receive \/ Cancel \/ Return \/ \E w \in Workers : Work(w)

Spec == Init /\ [][Next]_vars

\* Every goroutine runs on.
Fairness ==
  /\ WF_vars(Spawn) /\ WF_vars(Receive) /\ WF_vars(Cancel) /\ WF_vars(Return)
  /\ \A w \in Workers : WF_vars(Work(w))

FairSpec == Spec /\ Fairness

-----------------------------------------------------------------------------
(* Properties. *)

\* What the caller has received is a proof to the peer that checks it, although
\* the worker hashed a prefix and its nonce, and the peer the marshalled message.
ResultProves ==
  caller \in {"received", "waiting", "returned"} => CheckProofOfWork(cookie, result)

\* No two workers try the same nonce, and every worker tries all of its lane: below
\* its nonce there is no solution that it has passed over.
LanesSearched ==
  \A w \in Workers :
    worker[w] # "unborn" =>
      /\ nonce[w] % W = w
      /\ \A n \in 0..(nonce[w] - 1) : n % W = w => ~CheckProofOfWork(cookie, n)

\* The worker has found a nonce too early, or never will find one.
Lost(w) ==
  \/ worker[w] = "ended"
  \/ \A n \in Nonces : n % W = w => ~CheckProofOfWork(cookie, n)

\* The call returns, unless every worker that can find a nonce has found it before
\* the caller was at its receive.
Returns ==
  <>(caller = "returned" \/ (caller = "receiving" /\ \A w \in Workers : Lost(w)))
=============================================================================
