------------------------------ MODULE RateLimit ------------------------------
(***************************************************************************)
(* The API throttle (server/internal/ratelimit/ratelimit.go, used by       *)
(* api/middleware.go): a token bucket for each client, refilled when the   *)
(* client's next request comes, and a sweep that drops buckets nobody has  *)
(* asked for in a while.  Both run under the limiter's mutex.              *)
(***************************************************************************)
EXTENDS Integers

CONSTANTS
  Keys,     \* clients
  Token,    \* units of a token: a request takes so many
  Rate,     \* units a tick of the clock adds
  Burst,    \* units a bucket holds
  Idle,     \* ticks after which a bucket is idle, 10 minutes
  Every,    \* ticks between sweeps, a minute
  MaxTime,  \* bound of the clock
  MaxGranted   \* bound: requests let through for each client

\* New replaces a rate that is not positive, and a burst below one token, by 1; the
\* configuration bounds neither.  A rate may be any fraction of a token a tick, and a
\* bucket may count as idle long before it is full.
Settings ==
  /\ Token \in Nat \ {0} /\ Rate \in Nat \ {0} /\ Burst \in Nat /\ Burst >= Token
  /\ Idle \in Nat /\ Every \in Nat /\ MaxTime \in Nat /\ MaxGranted \in Nat

VARIABLES
  now,        \* the clock, which does not run backwards
  buckets,    \* client |-> [tokens, last] for the clients it remembers
  lastSweep,
  granted     \* history: requests let through for each client

vars == <<now, buckets, lastSweep, granted>>

Bucket == [tokens : 0 .. Burst, last : 0 .. MaxTime]
Least(a, b) == IF a <= b THEN a ELSE b

Init ==
  /\ now = 0 /\ lastSweep = -Every                   \* the zero time: the first request sweeps
  /\ buckets = [k \in {} |-> [tokens |-> Burst, last |-> 0]]
  /\ granted = [k \in Keys |-> 0]

Tick ==
  /\ now < MaxTime                                   \* bound
  /\ now' = now + 1
  /\ UNCHANGED <<buckets, lastSweep, granted>>

\* What a bucket holds now.
Refilled(b) == Least(Burst, b.tokens + Rate * (now - b.last))

\* Mutant of Old: every sweep drops every bucket.
OldAtOnce(b) == TRUE

Old(b) == now - b.last > Idle

Swept == now - lastSweep >= Every
Remembered == {k \in DOMAIN buckets : ~(Swept /\ Old(buckets[k]))}

\* The tokens Allow finds for the client: of its bucket, or of a new, full one.
Found(k) == IF k \in Remembered THEN Refilled(buckets[k]) ELSE Burst

Put(k, tokens) ==
  buckets' = [j \in Remembered \cup {k} |->
                IF j = k THEN [tokens |-> tokens, last |-> now] ELSE buckets[j]]

Spent(tokens) == tokens - Token

\* Allow: the sweep, if it is time for one, the refill, and the answer.
Allow(k) ==
  /\ lastSweep' = IF Swept THEN now ELSE lastSweep
  /\ \/ /\ Found(k) >= Token
        /\ granted[k] < MaxGranted                   \* bound
        /\ Put(k, Spent(Found(k)))
        /\ granted' = [granted EXCEPT ![k] = @ + 1]
     \/ /\ Found(k) < Token
        /\ Put(k, Found(k))
        /\ UNCHANGED granted
  /\ UNCHANGED now

Next == Tick \/ \E k \in Keys : Allow(k)

Spec == Init /\ [][Next]_vars

-----------------------------------------------------------------------------
(* What must hold *)

\* Type invariant of the limiter.
TypeOK ==
  /\ now \in 0 .. MaxTime /\ lastSweep \in -Every .. now
  /\ DOMAIN buckets \subseteq Keys /\ buckets \in [DOMAIN buckets -> Bucket]
  /\ \A k \in DOMAIN buckets : buckets[k].last <= now
  /\ granted \in [Keys -> 0 .. MaxGranted]

\* The limiter is a token bucket for each client that forgets a client only when it has
\* been idle for long enough, whenever its sweeps come; and whether it does is all that a
\* client can see of them.
Level == [k \in Keys |-> IF k \in DOMAIN buckets THEN Refilled(buckets[k]) ELSE Burst]
IdleFor == [k \in Keys |->
              IF k \in DOMAIN buckets THEN Least(Idle + 1, now - buckets[k].last) ELSE Idle + 1]
Ideal == INSTANCE TokenBucket WITH level <- Level, idle <- IdleFor
ImplementsTokenBucket == Ideal!Spec
=============================================================================
