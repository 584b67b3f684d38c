----------------------------- MODULE TokenBucket -----------------------------
(***************************************************************************)
(* What the request throttle promises: every client has a bucket of Burst  *)
(* units that refills by Rate a tick, and a request takes the units of a   *)
(* token or is refused.  Clients that have asked for nothing in more than  *)
(* Idle ticks may be forgotten when somebody asks, and their buckets are   *)
(* full again; nothing else fills a bucket.  RateLimit, which refills on   *)
(* demand and drops buckets in sweeps, is shown to implement this.         *)
(***************************************************************************)
EXTENDS Naturals

CONSTANTS Keys, Token, Rate, Burst, Idle

VARIABLES
  level,    \* units each client has now
  idle,     \* ticks since each client last asked, counted to Idle + 1
  granted   \* requests let through for each client

vars == <<level, idle, granted>>

Init ==
  /\ level = [k \in Keys |-> Burst]
  /\ idle = [k \in Keys |-> Idle + 1]
  /\ granted = [k \in Keys |-> 0]

Refill ==
  /\ level' = [k \in Keys |-> IF level[k] + Rate < Burst THEN level[k] + Rate ELSE Burst]
  /\ idle' = [k \in Keys |-> IF idle[k] <= Idle THEN idle[k] + 1 ELSE Idle + 1]
  /\ UNCHANGED granted

\* The levels when the clients F are forgotten.
Without(F) == [k \in Keys |-> IF k \in F THEN Burst ELSE level[k]]

\* Client k asks, and the clients F are forgotten.
Ask(k, F) ==
  /\ \A j \in F : idle[j] > Idle
  /\ idle' = [idle EXCEPT ![k] = 0]
  /\ \/ /\ Without(F)[k] >= Token
        /\ level' = [Without(F) EXCEPT ![k] = @ - Token]
        /\ granted' = [granted EXCEPT ![k] = @ + 1]
     \/ /\ Without(F)[k] < Token
        /\ level' = Without(F)
        /\ UNCHANGED granted

Next == Refill \/ \E k \in Keys, F \in SUBSET Keys : Ask(k, F)

Spec == Init /\ [][Next]_vars

\* The same for buckets that are never forgotten.
StrictNext == Refill \/ \E k \in Keys : Ask(k, {})

StrictSpec == Init /\ [][StrictNext]_vars
=============================================================================
