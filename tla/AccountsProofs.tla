---------------------------- MODULE AccountsProofs ----------------------------
(***************************************************************************)
(* What the parts of MCAccounts keep true for every number of slots,       *)
(* accounts, browsers, keys and clients and every bound.                   *)
(***************************************************************************)
EXTENDS MCAccounts, Sequences, FiniteSetTheorems, WellFoundedInduction, TLAPS

(* The lockout *)

\* A key that has reached the threshold stays locked until its failures are forgotten.
LockedAtThreshold == \A k \in Limiter!Keys : fails[k] >= MaxFails => until[k] # "none"

LimiterInv == Limiter!TypeOK /\ LockedAtThreshold /\ FailuresBounded

\* An attempt has one key or two, never the same twice.
LEMMA KeysOfAttempt ==
  ASSUME NEW keys \in Limiter!PasswordKeys \cup Limiter!CodeKeys
  PROVE  /\ Len(keys) \in 1 .. 2 /\ DOMAIN keys = 1 .. Len(keys)
         /\ \A i \in DOMAIN keys : keys[i] \in Limiter!Keys
         /\ \A i, j \in DOMAIN keys : keys[i] = keys[j] => i = j
<1>1. CASE keys \in Limiter!CodeKeys
  <2>1. PICK k \in {"2fa"} \X Accounts : keys = <<k>>
    BY <1>1 DEF Limiter!CodeKeys
  <2>2. QED
    BY <2>1 DEF Limiter!Keys
<1>2. CASE keys \in Limiter!PasswordKeys
  <2>1. PICK u \in {"u"} \X Accounts, ip \in {"ip"} \X Addresses : keys = <<u, ip>>
    BY <1>2 DEF Limiter!PasswordKeys
  <2>2. u # ip
    OBVIOUS
  <2>3. QED
    BY <2>1, <2>2 DEF Limiter!Keys
<1>3. QED
  BY <1>1, <1>2

\* An attempt under way has come to one of its keys.
LEMMA AttemptTyped ==
  ASSUME Limiter!TypeOK, NEW c \in Slots, attempts[c] # Limiter!NoCall
  PROVE  /\ attempts[c] \in Limiter!Attempt
         /\ attempts[c].at \in DOMAIN attempts[c].keys
         /\ Limiter!Key(c) \in Limiter!Keys
<1>1. attempts[c] \in Limiter!Attempt /\ attempts[c].at <= Len(attempts[c].keys)
  BY DEF Limiter!TypeOK
<1>2. attempts[c].keys \in Limiter!PasswordKeys \cup Limiter!CodeKeys /\ attempts[c].at \in 1 .. 2
  BY <1>1 DEF Limiter!Attempt
<1>3. QED
  BY <1>1, <1>2, KeysOfAttempt DEF Limiter!Key

\* The instance counts like the module itself.
LEMMA SameCardinality == \A S : Limiter!Cardinality(S) = Cardinality(S)
BY DEF Cardinality, Limiter!Cardinality, IsFiniteSet, Limiter!IsFiniteSet

\* The slots an attempt of which may still fail for k are finitely many.
LEMMA PendingCount ==
  ASSUME NEW k
  PROVE  /\ IsFiniteSet(Limiter!Pending(k))
         /\ Cardinality(Limiter!Pending(k)) \in Nat /\ Cardinality(Slots) \in Nat
         /\ Cardinality(Limiter!Pending(k)) <= Cardinality(Slots)
<1>1. Limiter!Pending(k) \in SUBSET Slots
  BY DEF Limiter!Pending
<1>2. QED
  BY <1>1, SlotsAssumption, FS_Subset, FS_CardinalityType

\* The records an attempt goes through.
LEMMA AttemptRecords ==
  ASSUME NEW a \in Limiter!Attempt, a.at <= Len(a.keys),
         NEW next \in {"asking", "checking", "right", "failing"}
  PROVE  /\ [a EXCEPT !.phase = next] \in Limiter!Attempt
         /\ [a EXCEPT !.phase = next, !.at = 1] \in Limiter!Attempt
         /\ [a EXCEPT !.phase = next, !.at = 1].at <= Len(a.keys)
         /\ a.at # Len(a.keys) => /\ [a EXCEPT !.at = a.at + 1] \in Limiter!Attempt
                                  /\ a.at + 1 <= Len(a.keys)
<1>1. /\ a.phase \in {"asking", "checking", "right", "failing"}
      /\ a.keys \in Limiter!PasswordKeys \cup Limiter!CodeKeys /\ a.at \in 1 .. 2
  BY DEF Limiter!Attempt
<1>2. Len(a.keys) \in 1 .. 2
  BY <1>1, KeysOfAttempt
<1>3. a.at # Len(a.keys) => a.at + 1 = 2 /\ Len(a.keys) = 2
  <2> DEFINE m == a.at
             n == Len(a.keys)
  <2>1. m \in 1 .. 2 /\ n \in 1 .. 2 /\ m <= n
    BY <1>1, <1>2
  <2> HIDE DEF m, n
  <2>2. m # n => m + 1 = 2 /\ n = 2
    BY <2>1
  <2>3. QED
    BY <2>2 DEF m, n
<1>4. [a EXCEPT !.phase = next] \in Limiter!Attempt
  BY DEF Limiter!Attempt
<1>5. ASSUME NEW n \in 1 .. 2
      PROVE  /\ [a EXCEPT !.at = n] \in Limiter!Attempt
             /\ [a EXCEPT !.phase = next, !.at = n] \in Limiter!Attempt
             /\ [a EXCEPT !.phase = next, !.at = n].at = n
  <2>1. [a EXCEPT !.at = n] \in Limiter!Attempt
    BY DEF Limiter!Attempt
  <2> DEFINE b == [a EXCEPT !.phase = next]
  <2>2. [b EXCEPT !.at = n] \in Limiter!Attempt /\ [b EXCEPT !.at = n].at = n
    <3> HIDE DEF b
    <3>1. b \in Limiter!Attempt
      BY <1>4 DEF b
    <3>2. QED
      BY <3>1 DEF Limiter!Attempt
  <2>3. QED
    BY <2>1, <2>2
<1>6. QED
  BY <1>1, <1>2, <1>3, <1>4, <1>5

\* A call that goes on, or ends, becomes a call; with the same keys, if it goes on.
LEMMA AttemptGoesOn ==
  ASSUME Limiter!TypeOK, NEW c \in Slots, attempts[c] # Limiter!NoCall,
         NEW next \in {"asking", "checking", "right", "failing"},
         \/ Limiter!Advance(c, next)
         \/ Limiter!End(c)
         \/ attempts' = [attempts EXCEPT ![c].phase = next]
  PROVE  /\ attempts' \in [Slots -> Limiter!Attempt \cup {Limiter!NoCall}]
         /\ \A e \in Slots : attempts'[e] # Limiter!NoCall => attempts'[e].at <= Len(attempts'[e].keys)
         /\ \A e \in Slots : e # c => attempts'[e] = attempts[e]
<1> DEFINE a == attempts[c]
           Good(new) == /\ new \in Limiter!Attempt \cup {Limiter!NoCall}
                        /\ new # Limiter!NoCall => new.at <= Len(new.keys)
<1>1. /\ a \in Limiter!Attempt /\ a.at <= Len(a.keys)
      /\ attempts \in [Slots -> Limiter!Attempt \cup {Limiter!NoCall}]
      /\ \A e \in Slots : attempts[e] # Limiter!NoCall => attempts[e].at <= Len(attempts[e].keys)
  BY DEF Limiter!TypeOK
<1>2. /\ Good([a EXCEPT !.phase = next])
      /\ Good([a EXCEPT !.phase = next, !.at = 1])
      /\ a.at # Len(a.keys) => Good([a EXCEPT !.at = a.at + 1])
  <2> HIDE DEF a
  <2>1. /\ [a EXCEPT !.phase = next].keys = a.keys /\ [a EXCEPT !.phase = next].at = a.at
        /\ [a EXCEPT !.phase = next, !.at = 1].keys = a.keys
        /\ [a EXCEPT !.at = a.at + 1].keys = a.keys
        /\ [a EXCEPT !.at = a.at + 1].at = a.at + 1
    BY <1>1 DEF Limiter!Attempt
  <2>2. QED
    BY <1>1, <2>1, AttemptRecords
<1>3. Good(Limiter!NoCall)
  OBVIOUS
<1>4. PICK new : Good(new) /\ attempts' = [attempts EXCEPT ![c] = new]
  <2> HIDE DEF Good
  <2>1. CASE attempts' = [attempts EXCEPT ![c].phase = next]
    BY <1>2, <2>1
  <2>2. CASE Limiter!End(c)
    BY <1>3, <2>2 DEF Limiter!End
  <2>3. CASE Limiter!Advance(c, next)
    BY <1>2, <2>3 DEF Limiter!Advance, Limiter!IsLast
  <2>4. QED
    BY <2>1, <2>2, <2>3
<1>5. QED
  BY <1>1, <1>4

\* What a step of one attempt does to the attempts that may still fail for a key.
LEMMA PendingStep ==
  ASSUME Limiter!TypeOK, NEW c \in Slots, NEW k,
         \A e \in Slots : e # c => attempts'[e] = attempts[e]
  PROVE  /\ c \notin Limiter!Pending(k)' => Limiter!Pending(k)' = Limiter!Pending(k) \ {c}
         /\ c \in Limiter!Pending(k) => Limiter!Pending(k)' \subseteq Limiter!Pending(k)
BY DEF Limiter!Pending

\* The bound, for one key.
Bounded(k) == fails[k] + Cardinality(Limiter!Pending(k)) <= MaxFails - 1 + Cardinality(Slots)

\* A key whose failures stay, or are forgotten, keeps the bound if no attempt joins
\* those that may fail, or if it is below the threshold.
LEMMA BoundKept ==
  ASSUME LimiterInv, NEW k \in Limiter!Keys, fails' \in [Limiter!Keys -> Nat],
         \/ fails'[k] <= fails[k] /\ Limiter!Pending(k)' \subseteq Limiter!Pending(k)
         \/ fails'[k] < MaxFails
         \/ /\ fails'[k] = fails[k] + 1
            /\ \E c \in Limiter!Pending(k) : Limiter!Pending(k)' \subseteq Limiter!Pending(k) \ {c}
  PROVE  Bounded(k)'
<1> DEFINE P == Limiter!Pending(k)
           n == Cardinality(P)
           N == Cardinality(Slots)
<1>0. /\ fails[k] \in Nat /\ fails'[k] \in Nat /\ MaxFails \in Nat \ {0}
      /\ fails[k] + n <= MaxFails - 1 + N
  BY FailsAssumption, SameCardinality
     DEF LimiterInv, Limiter!TypeOK, FailuresBounded, Limiter!FailuresBounded
<1>1. IsFiniteSet(P) /\ n \in Nat /\ N \in Nat /\ n <= N
  BY PendingCount
<1>2. IsFiniteSet(P') /\ n' \in Nat /\ n' <= N
  <2>1. P' \in SUBSET Slots
    BY DEF Limiter!Pending
  <2>2. QED
    BY <2>1, SlotsAssumption, FS_Subset, FS_CardinalityType
<1>3. CASE fails'[k] <= fails[k] /\ P' \subseteq P
  <2>1. n' <= n
    BY <1>1, <1>3, FS_Subset
  <2> HIDE DEF n, N
  <2>2. fails'[k] + n' <= MaxFails - 1 + N
    BY <1>0, <1>1, <1>2, <1>3, <2>1
  <2>3. QED
    BY <2>2 DEF Bounded, n, N
<1>4. CASE fails'[k] < MaxFails
  <2> HIDE DEF n, N
  <2>1. fails'[k] + n' <= MaxFails - 1 + N
    BY <1>0, <1>1, <1>2, <1>4
  <2>2. QED
    BY <2>1 DEF Bounded, n, N
<1>5. ASSUME fails'[k] = fails[k] + 1, NEW c \in P, P' \subseteq P \ {c}
      PROVE  Bounded(k)'
  <2>1. IsFiniteSet(P \ {c}) /\ Cardinality(P \ {c}) = n - 1
    BY <1>1, <1>5, FS_RemoveElement
  <2>2. n' <= n - 1
    BY <1>5, <2>1, FS_Subset
  <2> HIDE DEF n, N
  <2>3. fails'[k] + n' <= MaxFails - 1 + N
    BY <1>0, <1>1, <1>2, <1>5, <2>2
  <2>4. QED
    BY <2>3 DEF Bounded, n, N
<1>6. QED
  BY <1>3, <1>4, <1>5

LEMMA LimiterStep == LimiterInv /\ Limiter!Next => LimiterInv'
<1> SUFFICES ASSUME LimiterInv, Limiter!Next PROVE LimiterInv'
  OBVIOUS
<1>0. /\ fails \in [Limiter!Keys -> Nat]
      /\ until \in [Limiter!Keys -> {"none", "locked", "over"}]
      /\ attempts \in [Slots -> Limiter!Attempt \cup {Limiter!NoCall}]
      /\ Limiter!TypeOK /\ LockedAtThreshold
      /\ MaxFails \in Nat \ {0}
  BY FailsAssumption DEF LimiterInv, Limiter!TypeOK
\* What a step must show.
<1>1. ASSUME fails' \in [Limiter!Keys -> Nat],
             until' \in [Limiter!Keys -> {"none", "locked", "over"}],
             attempts' \in [Slots -> Limiter!Attempt \cup {Limiter!NoCall}],
             \A e \in Slots : attempts'[e] # Limiter!NoCall => attempts'[e].at <= Len(attempts'[e].keys),
             \A k \in Limiter!Keys : fails'[k] >= MaxFails => until'[k] # "none",
             \A k \in Limiter!Keys : Bounded(k)'
      PROVE  LimiterInv'
  <2>1. /\ Limiter!TypeOK' /\ LockedAtThreshold'
    BY <1>1 DEF Limiter!TypeOK, LockedAtThreshold
  <2>2. \A k \in Limiter!Keys :
          fails'[k] + Cardinality(Limiter!Pending(k)') <= MaxFails - 1 + Cardinality(Slots)
    BY <1>1 DEF Bounded
  <2>3. FailuresBounded'
    BY <2>2, SameCardinality DEF FailuresBounded, Limiter!FailuresBounded
  <2>4. QED
    BY <2>1, <2>3 DEF LimiterInv
<1>2. ASSUME NEW c \in Slots, NEW keys \in Limiter!PasswordKeys \cup Limiter!CodeKeys,
             Limiter!Begin(c, keys)
      PROVE  LimiterInv'
  <2> DEFINE new == [phase |-> "asking", keys |-> keys, at |-> 1]
  <2>1. /\ attempts' = [attempts EXCEPT ![c] = new] /\ attempts[c] = Limiter!NoCall
        /\ UNCHANGED <<fails, until>>
    BY <1>2 DEF Limiter!Begin
  <2>2. new \in Limiter!Attempt /\ new.at <= Len(new.keys)
    BY KeysOfAttempt DEF Limiter!Attempt
  <2>3. /\ new.phase = "asking" /\ new.keys = keys
        /\ \A i \in DOMAIN keys : ~(i < new.at)
    BY KeysOfAttempt
  <2> HIDE DEF new
  <2>4. /\ \A e \in Slots : e # c => attempts'[e] = attempts[e]
        /\ attempts'[c] = new
    BY <1>0, <2>1
  <2>5. ASSUME NEW k \in Limiter!Keys
        PROVE  Bounded(k)'
    <3>1. c \notin Limiter!Pending(k)'
      <4>1. SUFFICES ASSUME c \in Limiter!Pending(k)' PROVE FALSE
        OBVIOUS
      <4>2. PICK i \in DOMAIN attempts'[c].keys :
              \/ attempts'[c].phase = "asking" /\ i < attempts'[c].at
              \/ attempts'[c].phase \in {"checking", "right", "failing"}
        BY <4>1 DEF Limiter!Pending
      <4>3. QED
        BY <2>3, <2>4, <4>2
    <3>2. Limiter!Pending(k)' \subseteq Limiter!Pending(k)
      BY <1>0, <2>4, <3>1, PendingStep
    <3>3. QED
      BY <1>0, <2>1, <3>2, BoundKept
  <2>6. QED
    BY <1>0, <1>1, <2>1, <2>2, <2>4, <2>5 DEF LockedAtThreshold, Limiter!TypeOK
\* The attempt of c goes on or ends.
<1>3. ASSUME NEW c \in Slots, attempts[c] # Limiter!NoCall
      PROVE  /\ attempts[c] \in Limiter!Attempt /\ attempts[c].at \in DOMAIN attempts[c].keys
             /\ Limiter!Key(c) \in Limiter!Keys
             /\ DOMAIN attempts[c].keys = 1 .. Len(attempts[c].keys)
             /\ Len(attempts[c].keys) \in Nat /\ attempts[c].at \in Nat
             /\ \A i, j \in DOMAIN attempts[c].keys : attempts[c].keys[i] = attempts[c].keys[j] => i = j
  BY <1>0, <1>3, AttemptTyped, KeysOfAttempt DEF Limiter!Attempt
<1>4. ASSUME NEW c \in Slots, attempts[c] # Limiter!NoCall,
             \A e \in Slots : e # c => attempts'[e] = attempts[e],
             NEW k, c \in Limiter!Pending(k)' => c \in Limiter!Pending(k)
      PROVE  Limiter!Pending(k)' \subseteq Limiter!Pending(k)
  BY <1>0, <1>4, PendingStep
<1>5. ASSUME NEW c \in Slots, attempts[c] # Limiter!NoCall, Limiter!End(c), NEW k
      PROVE  c \notin Limiter!Pending(k)'
  <2>1. attempts'[c] = Limiter!NoCall
    BY <1>0, <1>5 DEF Limiter!End
  <2>2. DOMAIN Limiter!NoCall.keys = {}
    BY DEF Limiter!NoCall
  <2>3. QED
    BY <2>1, <2>2 DEF Limiter!Pending
<1>6. ASSUME NEW c \in Slots, Limiter!Allowed(c)
      PROVE  LimiterInv'
  <2> DEFINE a == attempts[c]
             asked == Limiter!Key(c)
  <2>0. a # Limiter!NoCall /\ a.phase = "asking"
    BY <1>6 DEF Limiter!Allowed, Limiter!NoCall
  <2>1. /\ attempts' \in [Slots -> Limiter!Attempt \cup {Limiter!NoCall}]
        /\ \A e \in Slots : attempts'[e] # Limiter!NoCall => attempts'[e].at <= Len(attempts'[e].keys)
        /\ \A e \in Slots : e # c => attempts'[e] = attempts[e]
    BY <1>0, <1>6, <2>0, AttemptGoesOn DEF Limiter!Allowed
  <2>2. CASE UNCHANGED <<fails, until>> /\ Limiter!End(c)
    <3>1. \A k \in Limiter!Keys : Limiter!Pending(k)' \subseteq Limiter!Pending(k)
      BY <1>4, <1>5, <2>0, <2>1, <2>2
    <3>2. \A k \in Limiter!Keys : Bounded(k)'
      BY <1>0, <2>2, <3>1, BoundKept
    <3>3. QED
      BY <1>0, <1>1, <2>1, <2>2, <3>2 DEF LockedAtThreshold
  <2>3. ASSUME Limiter!Advance(c, "checking"), NEW k, k # asked, c \in Limiter!Pending(k)'
        PROVE  c \in Limiter!Pending(k)
    <3>1. CASE Limiter!IsLast(c)
      <4>1. attempts'[c] = [a EXCEPT !.phase = "checking", !.at = 1] /\ a.at = Len(a.keys)
        BY <1>0, <2>3, <3>1 DEF Limiter!Advance, Limiter!IsLast
      <4>2. attempts'[c].keys = a.keys
        BY <1>3, <2>0, <4>1 DEF Limiter!Attempt
      <4>3. PICK i \in DOMAIN a.keys : a.keys[i] = k
        BY <2>3, <4>2 DEF Limiter!Pending
      <4>4. i < a.at
        BY <1>3, <2>0, <2>3, <4>1, <4>3 DEF Limiter!Key
      <4>5. QED
        BY <2>0, <4>3, <4>4 DEF Limiter!Pending
    <3>2. CASE ~Limiter!IsLast(c)
      <4>1. attempts'[c] = [a EXCEPT !.at = a.at + 1]
        BY <1>0, <2>3, <3>2 DEF Limiter!Advance
      <4>2. /\ attempts'[c].keys = a.keys /\ attempts'[c].at = a.at + 1
            /\ attempts'[c].phase = "asking"
        BY <1>3, <2>0, <4>1 DEF Limiter!Attempt
      <4>3. PICK i \in DOMAIN a.keys : a.keys[i] = k /\ i < a.at + 1
        BY <2>3, <4>2 DEF Limiter!Pending
      <4>4. i < a.at
        BY <1>3, <2>0, <2>3, <4>3 DEF Limiter!Key
      <4>5. QED
        BY <2>0, <4>3, <4>4 DEF Limiter!Pending
    <3>3. QED
      BY <3>1, <3>2
  <2>4. CASE Limiter!Advance(c, "checking") /\ until[asked] \in {"none", "over"}
    <3>1. /\ fails' \in [Limiter!Keys -> Nat]
          /\ until' \in [Limiter!Keys -> {"none", "locked", "over"}]
          /\ fails'[asked] < MaxFails
          /\ \A k \in Limiter!Keys : k # asked => fails'[k] = fails[k] /\ until'[k] = until[k]
      <4>1. asked \in Limiter!Keys
        BY <1>3, <2>0
      <4>2. CASE UNCHANGED <<fails, until>> /\ until[asked] = "none"
        <5>1. ~(fails[asked] >= MaxFails) /\ fails[asked] \in Nat
          BY <1>0, <4>1, <4>2 DEF LockedAtThreshold
        <5> HIDE DEF asked
        <5>2. fails[asked] < MaxFails
          BY <1>0, <5>1
        <5>3. QED
          BY <1>0, <4>2, <5>2
      <4>3. CASE /\ fails' = [fails EXCEPT ![asked] = 0]
                 /\ until' = [until EXCEPT ![asked] = "none"]
        <5> HIDE DEF asked
        <5>1. QED
          BY <1>0, <4>1, <4>3
      <4>4. QED
        BY <1>6, <2>4, <4>2, <4>3 DEF Limiter!Allowed
    <3>2. ASSUME NEW k \in Limiter!Keys
          PROVE  Bounded(k)' /\ (fails'[k] >= MaxFails => until'[k] # "none")
      <4>1. CASE k = asked
        <5>1. fails'[k] < MaxFails /\ fails'[k] \in Nat
          BY <3>1, <4>1
        <5> HIDE DEF asked
        <5>2. ~(fails'[k] >= MaxFails)
          BY <1>0, <5>1
        <5>3. QED
          BY <3>1, <5>1, <5>2, BoundKept
      <4>2. CASE k # asked
        <5>1. Limiter!Pending(k)' \subseteq Limiter!Pending(k)
          BY <1>4, <2>0, <2>1, <2>3, <2>4, <4>2
        <5>2. fails'[k] = fails[k] /\ until'[k] = until[k]
          BY <3>1, <4>2
        <5>3. fails'[k] <= fails[k]
          BY <1>0, <5>2
        <5>4. QED
          BY <1>0, <3>1, <5>1, <5>2, <5>3, BoundKept DEF LockedAtThreshold
      <4>3. QED
        BY <4>1, <4>2
    <3>3. QED
      BY <1>1, <2>1, <3>1, <3>2
  <2>5. QED
    BY <1>6, <2>2, <2>4 DEF Limiter!Allowed
\* A step that leaves the failures and the locks alone, and lets no attempt in.
<1>7. ASSUME NEW c \in Slots, attempts[c] # Limiter!NoCall, UNCHANGED <<fails, until>>,
             \/ Limiter!End(c)
             \/ /\ attempts[c].phase = "checking"
                /\ \E outcome \in {"right", "failing"} :
                     attempts' = [attempts EXCEPT ![c].phase = outcome]
      PROVE  LimiterInv'
  <2>1. /\ attempts' \in [Slots -> Limiter!Attempt \cup {Limiter!NoCall}]
        /\ \A e \in Slots : attempts'[e] # Limiter!NoCall => attempts'[e].at <= Len(attempts'[e].keys)
        /\ \A e \in Slots : e # c => attempts'[e] = attempts[e]
    BY <1>0, <1>7, AttemptGoesOn
  <2>2. ASSUME NEW k, c \in Limiter!Pending(k)'
        PROVE  c \in Limiter!Pending(k)
    <3>1. PICK outcome \in {"right", "failing"} :
            attempts' = [attempts EXCEPT ![c].phase = outcome] /\ attempts[c].phase = "checking"
      BY <1>5, <1>7, <2>2
    <3>2. attempts'[c].keys = attempts[c].keys
      BY <1>0, <1>3, <1>7, <3>1 DEF Limiter!Attempt
    <3>3. QED
      BY <2>2, <3>1, <3>2 DEF Limiter!Pending
  <2>3. \A k \in Limiter!Keys : Limiter!Pending(k)' \subseteq Limiter!Pending(k)
    BY <1>4, <1>7, <2>1, <2>2
  <2>4. \A k \in Limiter!Keys : Bounded(k)'
    BY <1>0, <1>7, <2>3, BoundKept
  <2>5. QED
    BY <1>0, <1>1, <1>7, <2>1, <2>4 DEF LockedAtThreshold
<1>8. ASSUME NEW c \in Slots, Limiter!Verify(c)
      PROVE  LimiterInv'
  BY <1>7, <1>8 DEF Limiter!Verify, Limiter!NoCall
<1>9. ASSUME NEW c \in Slots, Limiter!Fail(c)
      PROVE  LimiterInv'
  <2> DEFINE a == attempts[c]
             asked == Limiter!Key(c)
  <2>0. a # Limiter!NoCall /\ a.phase = "failing" /\ asked \in Limiter!Keys
    BY <1>3, <1>9 DEF Limiter!Fail, Limiter!NoCall
  <2>1. /\ attempts' \in [Slots -> Limiter!Attempt \cup {Limiter!NoCall}]
        /\ \A e \in Slots : attempts'[e] # Limiter!NoCall => attempts'[e].at <= Len(attempts'[e].keys)
        /\ \A e \in Slots : e # c => attempts'[e] = attempts[e]
    BY <1>0, <1>9, <2>0, AttemptGoesOn DEF Limiter!Fail
  <2>2. /\ fails' = [fails EXCEPT ![asked] = fails[asked] + 1]
        /\ until' = [until EXCEPT ![asked] = IF fails[asked] + 1 >= MaxFails THEN "locked" ELSE until[asked]]
    BY <1>0, <1>9, <2>0 DEF Limiter!Fail
  <2>3. /\ fails' \in [Limiter!Keys -> Nat]
        /\ until' \in [Limiter!Keys -> {"none", "locked", "over"}]
        /\ fails'[asked] = fails[asked] + 1
        /\ \A k \in Limiter!Keys : k # asked => fails'[k] = fails[k] /\ until'[k] = until[k]
        /\ fails'[asked] >= MaxFails => until'[asked] # "none"
    <3> HIDE DEF asked
    <3>1. QED
      BY <1>0, <2>0, <2>2
  \* The attempt can no longer fail for its key, nor for another one it could not.
  <2>4. ASSUME NEW k, c \in Limiter!Pending(k)'
        PROVE  c \in Limiter!Pending(k) /\ k # asked
    <3>1. ~Limiter!IsLast(c)
      BY <1>5, <1>9, <2>0, <2>4 DEF Limiter!Fail
    <3>2. attempts'[c] = [a EXCEPT !.at = a.at + 1]
      BY <1>0, <1>9, <3>1 DEF Limiter!Fail, Limiter!Advance
    <3>3. /\ attempts'[c].keys = a.keys /\ attempts'[c].at = a.at + 1
          /\ attempts'[c].phase = "failing"
      BY <1>3, <2>0, <3>2 DEF Limiter!Attempt
    <3>4. PICK i \in DOMAIN a.keys : a.keys[i] = k /\ i >= a.at + 1
      BY <2>4, <3>3 DEF Limiter!Pending
    <3>5. i \in Nat /\ a.at \in Nat /\ a.at \in DOMAIN a.keys
      BY <1>3, <2>0, <3>4
    <3>6. i >= a.at /\ i # a.at
      <4> DEFINE m == a.at
      <4>1. i \in Nat /\ m \in Nat /\ i >= m + 1
        BY <3>4, <3>5
      <4> HIDE DEF m
      <4>2. i >= m /\ i # m
        BY <4>1
      <4>3. QED
        BY <4>2 DEF m
    <3>7. k # asked
      BY <1>3, <2>0, <3>4, <3>5, <3>6 DEF Limiter!Key
    <3>8. QED
      BY <2>0, <3>4, <3>6, <3>7 DEF Limiter!Pending
  <2>5. ASSUME NEW k \in Limiter!Keys
        PROVE  Bounded(k)'
    <3>1. Limiter!Pending(k)' \subseteq Limiter!Pending(k)
      BY <1>4, <2>0, <2>1, <2>4
    <3>2. CASE k = asked
      <4>1. c \in Limiter!Pending(k)
        <5>1. a.at \in DOMAIN a.keys /\ a.keys[a.at] = k /\ a.at \in Nat
          BY <1>3, <2>0, <3>2 DEF Limiter!Key
        <5>2. a.at >= a.at
          <6> DEFINE m == a.at
          <6>1. m \in Nat
            BY <5>1
          <6> HIDE DEF m
          <6>2. m >= m
            BY <6>1
          <6>3. QED
            BY <6>2 DEF m
        <5>3. QED
          BY <2>0, <5>1, <5>2 DEF Limiter!Pending
      <4>2. Limiter!Pending(k)' \subseteq Limiter!Pending(k) \ {c}
        BY <2>4, <3>1, <3>2
      <4>3. fails'[k] = fails[k] + 1
        BY <2>3, <3>2
      <4> HIDE DEF asked
      <4>4. QED
        BY <2>3, <4>1, <4>2, <4>3, BoundKept
    <3>3. CASE k # asked
      <4>1. fails'[k] <= fails[k]
        <5>1. fails'[k] = fails[k] /\ fails[k] \in Nat
          BY <1>0, <2>3, <3>3
        <5>2. QED
          BY <5>1
      <4>2. QED
        BY <2>3, <3>1, <4>1, BoundKept
    <3>4. QED
      BY <3>2, <3>3
  <2>6. \A k \in Limiter!Keys : fails'[k] >= MaxFails => until'[k] # "none"
    <3> HIDE DEF asked
    <3>1. QED
      BY <1>0, <2>3 DEF LockedAtThreshold
  <2>7. QED
    BY <1>1, <2>1, <2>3, <2>5, <2>6
<1>10. ASSUME NEW c \in Slots, Limiter!Reset(c)
       PROVE  LimiterInv'
  <2> DEFINE asked == attempts[c].keys[1]
  <2>0. attempts[c] # Limiter!NoCall /\ Limiter!End(c)
    BY <1>10 DEF Limiter!Reset, Limiter!NoCall
  <2>1. /\ attempts' \in [Slots -> Limiter!Attempt \cup {Limiter!NoCall}]
        /\ \A e \in Slots : attempts'[e] # Limiter!NoCall => attempts'[e].at <= Len(attempts'[e].keys)
        /\ \A e \in Slots : e # c => attempts'[e] = attempts[e]
    BY <1>0, <2>0, AttemptGoesOn
  <2>2. /\ fails' = [fails EXCEPT ![asked] = 0]
        /\ until' = [until EXCEPT ![asked] = "none"]
    BY <1>10 DEF Limiter!Reset
  <2>3. ASSUME NEW k \in Limiter!Keys
        PROVE  Bounded(k)'
    <3>1. Limiter!Pending(k)' \subseteq Limiter!Pending(k)
      BY <1>4, <1>5, <2>0, <2>1
    <3>2. fails' \in [Limiter!Keys -> Nat] /\ fails'[k] <= fails[k]
      <4> HIDE DEF asked
      <4>1. fails' \in [Limiter!Keys -> Nat]
        BY <1>0, <2>2
      <4>2. fails[k] \in Nat /\ fails'[k] \in {fails[k], 0}
        BY <1>0, <2>2
      <4>3. QED
        BY <4>1, <4>2
    <3>3. QED
      BY <3>1, <3>2, BoundKept
  <2>4. /\ fails' \in [Limiter!Keys -> Nat]
        /\ until' \in [Limiter!Keys -> {"none", "locked", "over"}]
        /\ \A k \in Limiter!Keys : fails'[k] >= MaxFails => until'[k] # "none"
    <3> HIDE DEF asked
    <3>1. \A k \in Limiter!Keys : \/ fails'[k] = fails[k] /\ until'[k] = until[k]
                                 \/ fails'[k] = 0
      BY <1>0, <2>2
    <3>2. ~(0 >= MaxFails)
      BY <1>0
    <3>3. QED
      BY <1>0, <2>2, <3>1, <3>2 DEF LockedAtThreshold
  <2>5. QED
    BY <1>1, <2>1, <2>3, <2>4
<1>11. ASSUME NEW k \in Limiter!Keys, Limiter!Elapse(k)
       PROVE  LimiterInv'
  <2>1. /\ UNCHANGED <<fails, attempts>>
        /\ until' = [until EXCEPT ![k] = "over"]
    BY <1>11 DEF Limiter!Elapse
  <2>2. \A j \in Limiter!Keys : Bounded(j)'
    <3>1. TAKE j \in Limiter!Keys
    <3>2. Limiter!Pending(j)' \subseteq Limiter!Pending(j)
      BY <2>1 DEF Limiter!Pending
    <3>3. fails'[j] = fails[j] /\ fails[j] \in Nat
      BY <1>0, <2>1
    <3>4. fails'[j] <= fails[j]
      BY <3>3
    <3>5. QED
      BY <1>0, <2>1, <3>2, <3>4, BoundKept
  <2>3. QED
    BY <1>0, <1>1, <2>1, <2>2 DEF LockedAtThreshold, Limiter!TypeOK
<1>12. QED
  BY <1>2, <1>6, <1>8, <1>9, <1>10, <1>11 DEF Limiter!Next

LEMMA LimiterStart == Limiter!Init => LimiterInv
<1> SUFFICES ASSUME Limiter!Init PROVE LimiterInv
  OBVIOUS
<1>1. Limiter!TypeOK /\ LockedAtThreshold
  BY FailsAssumption DEF Limiter!Init, Limiter!TypeOK, LockedAtThreshold
<1>2. \A k : Limiter!Pending(k) = {}
  BY DEF Limiter!Init, Limiter!Pending, Limiter!NoCall
<1>3. Cardinality({}) = 0
  BY FS_EmptySet
<1>4. Cardinality(Slots) \in Nat
  BY SlotsAssumption, FS_CardinalityType
<1>5. \A k \in Limiter!Keys : fails[k] + 0 <= MaxFails - 1 + Cardinality(Slots)
  <2> DEFINE N == Cardinality(Slots)
  <2> HIDE DEF N
  <2>1. 0 + 0 <= MaxFails - 1 + N
    BY <1>4, FailsAssumption DEF N
  <2>2. QED
    BY <2>1 DEF Limiter!Init, N
<1>6. FailuresBounded
  BY <1>2, <1>3, <1>5, SameCardinality DEF FailuresBounded, Limiter!FailuresBounded
<1>7. QED
  BY <1>1, <1>6 DEF LimiterInv

\* Wrong attempts that were let in exceed the threshold by no more than the attempts
\* that were under way side by side, whatever the threshold and their number.
THEOREM LockoutHolds == Spec => []FailuresBounded
<1>1. Init => LimiterInv
  BY LimiterStart DEF Init
<1>2. LimiterInv /\ [Next]_<<part, limiter, twofa, oauth, server, throttle>> => LimiterInv'
  <2> SUFFICES ASSUME LimiterInv, [Next]_<<part, limiter, twofa, oauth, server, throttle>>
               PROVE  LimiterInv'
    OBVIOUS
  <2>1. CASE Limiter!Next
    BY <2>1, LimiterStep
  <2>2. CASE UNCHANGED limiter
    BY <2>2 DEF LimiterInv, limiter, LockedAtThreshold, Limiter!TypeOK, FailuresBounded,
                Limiter!FailuresBounded, Limiter!Pending
  <2>3. QED
    BY <2>1, <2>2 DEF Next
<1>3. LimiterInv => FailuresBounded
  BY DEF LimiterInv
<1>4. QED
  BY <1>1, <1>2, <1>3, PTL DEF Spec

-----------------------------------------------------------------------------
(* The start of the server *)

\* The key that protects what is stored is the environment's or the file's, and a
\* process that has passed its step of the start holds it; nothing is sealed or signed
\* under any other as long as the operator changes nothing.  A short key file has
\* protected nothing, but a short file of the token key may: it is taken as it is.
MasterKept ==
  /\ key["master"] # Server!Short
  /\ phase \in {"migrate", "jwt", "count", "create", "grant", "serving"} =>
       \/ env # Server!Absent /\ key["master"] = env
       \/ env = Server!Absent /\ files["master"] \in Server!Keys /\ key["master"] = files["master"]
  /\ rotations = 0 =>
       \/ sealed = {}
       \/ env # Server!Absent /\ sealed \subseteq {env}
       \/ env = Server!Absent /\ files["master"] \in Server!Keys /\ sealed \subseteq {files["master"]}

TokenKeyKept ==
  /\ phase \in {"down", "master", "migrate"} => key["jwt"] = Server!Absent
  /\ phase = "jwt" /\ key["jwt"] # Server!Absent => signed = {}
  /\ phase \in {"count", "create", "grant", "serving"} =>
       files["jwt"] # Server!Absent /\ key["jwt"] = files["jwt"]
  /\ signed # {} => files["jwt"] # Server!Absent /\ signed \subseteq {files["jwt"]}

StartInv ==
  /\ Server!TypeOK /\ made \in Nat /\ rotations \in Nat
  /\ MasterKept /\ TokenKeyKept /\ SchemaIsVersion

LEMMA StartInit == Server!Init => StartInv
BY StartsAssumption
   DEF Server!Init, StartInv, Server!TypeOK, MasterKept, TokenKeyKept, SchemaIsVersion,
       Server!SchemaIsVersion, Server!Absent, Server!Keys, Server!Short

LEMMA KeyNames ==
  Server!Absent # Server!Short /\ Server!Absent \notin Server!Keys /\ Server!Short \notin Server!Keys
BY StartsAssumption DEF Server!Absent, Server!Short, Server!Keys

LEMMA StartStep == StartInv /\ Server!Next => StartInv'
<1> SUFFICES ASSUME StartInv, Server!Next PROVE StartInv'
  OBVIOUS
<1> USE DEF StartInv, Server!TypeOK, SchemaIsVersion, Server!SchemaIsVersion, Server!database,
            Server!counters
<1>1. CASE Server!Start
  BY <1>1 DEF Server!Start, MasterKept, TokenKeyKept
<1>2. CASE Server!Crash
  BY <1>2, KeyNames DEF Server!Crash, MasterKept, TokenKeyKept
<1>3. CASE Server!Rotate
  <2>1. made + 1 \in Server!Keys /\ rotations + 1 \in Nat /\ rotations + 1 # 0 /\ made + 1 \in Nat
    BY <1>3, StartsAssumption DEF Server!Rotate, Server!Keys
  <2>2. QED
    BY <1>3, <2>1 DEF Server!Rotate, MasterKept, TokenKeyKept
<1>4. ASSUME NEW n \in {"master", "jwt"}, Server!CreateFile(n)
      PROVE  /\ files' \in [{"master", "jwt"} -> {Server!Absent, Server!Short} \cup Server!Keys]
             /\ key' \in [{"master", "jwt"} -> {Server!Absent, Server!Short} \cup Server!Keys]
             /\ made' \in Nat /\ files[n] = Server!Absent
             /\ files'[n] = Server!Short /\ key'[n] \in Server!Keys
             /\ \A m \in {"master", "jwt"} : m # n => files'[m] = files[m] /\ key'[m] = key[m]
  <2>1. made + 1 \in Server!Keys /\ made + 1 \in Nat
    BY <1>4, StartsAssumption DEF Server!CreateFile, Server!Keys
  <2>2. QED
    BY <1>4, <2>1 DEF Server!CreateFile
<1>5. CASE Server!LoadOrCreateMasterKey
  <2>1. CASE env = Server!Absent /\ Server!CreateFile("master") /\ UNCHANGED phase
    <3>1. /\ phase = "master" /\ env' = env /\ phase' = phase /\ sealed' = sealed /\ signed' = signed
          /\ rotations' = rotations /\ applied' = applied /\ version' = version /\ admins' = admins
      BY <1>5, <2>1 DEF Server!LoadOrCreateMasterKey
    <3>2. /\ files' \in [{"master", "jwt"} -> {Server!Absent, Server!Short} \cup Server!Keys]
          /\ key' \in [{"master", "jwt"} -> {Server!Absent, Server!Short} \cup Server!Keys]
          /\ made' \in Nat /\ files["master"] = Server!Absent
          /\ key'["master"] \in Server!Keys
          /\ files'["jwt"] = files["jwt"] /\ key'["jwt"] = key["jwt"]
      BY <1>4, <2>1
    <3>3. MasterKept'
      BY <2>1, <3>1, <3>2, KeyNames DEF MasterKept
    <3>4. TokenKeyKept'
      BY <3>1, <3>2 DEF TokenKeyKept
    <3>5. QED
      BY <3>1, <3>2, <3>3, <3>4
  <2>2. CASE env = Server!Absent /\ Server!FillFile("master", "migrate")
    BY <1>5, <2>2, KeyNames DEF Server!LoadOrCreateMasterKey, MasterKept, TokenKeyKept, Server!FillFile
  <2>3. CASE /\ env # Server!Absent
             /\ key' = [key EXCEPT !["master"] = env] /\ phase' = "migrate"
             /\ UNCHANGED <<files, made>>
    BY <1>5, <2>3, KeyNames DEF Server!LoadOrCreateMasterKey, MasterKept, TokenKeyKept
  <2>4. CASE /\ env = Server!Absent /\ files["master"] \in Server!Keys
             /\ key' = [key EXCEPT !["master"] = files["master"]] /\ phase' = "migrate"
             /\ UNCHANGED <<files, made>>
    BY <1>5, <2>4, KeyNames DEF Server!LoadOrCreateMasterKey, MasterKept, TokenKeyKept
  <2>5. CASE /\ env = Server!Absent
             /\ phase' = "down"
             /\ UNCHANGED <<files, key, made>>
    BY <1>5, <2>5 DEF Server!LoadOrCreateMasterKey, MasterKept, TokenKeyKept
  <2>6. QED
    BY <1>5, <2>1, <2>2, <2>3, <2>4, <2>5 DEF Server!LoadOrCreateMasterKey
<1>6. CASE Server!LoadJWTKey
  <2>1. CASE Server!CreateFile("jwt") /\ UNCHANGED phase
    BY <1>4, <1>6, <2>1, KeyNames DEF Server!LoadJWTKey, MasterKept, TokenKeyKept
  <2>2. CASE Server!FillFile("jwt", "count")
    BY <1>6, <2>2 DEF Server!LoadJWTKey, MasterKept, TokenKeyKept, Server!FillFile
  <2>3. CASE /\ files["jwt"] # Server!Absent
             /\ key' = [key EXCEPT !["jwt"] = files["jwt"]] /\ phase' = "count"
             /\ UNCHANGED <<files, made>>
    BY <1>6, <2>3 DEF Server!LoadJWTKey, MasterKept, TokenKeyKept
  <2>4. QED
    BY <1>6, <2>1, <2>2, <2>3 DEF Server!LoadJWTKey
<1>7. CASE Server!Migrate
  <2>1. CASE /\ version < Versions
             /\ applied' = [applied EXCEPT ![version + 1] = @ + 1]
             /\ version' = version + 1
             /\ UNCHANGED phase
    <3>1. version + 1 \in 1 .. Versions
      BY <2>1, StartsAssumption
    <3>2. applied[version + 1] = 0
      BY <3>1
    <3>3. version' \in 0 .. Versions /\ applied' \in [1 .. Versions -> Nat]
      BY <2>1, <3>1, <3>2
    <3>4. \A v \in 1 .. Versions : applied'[v] = IF v <= version' THEN 1 ELSE 0
      BY <2>1, <3>1, <3>2
    <3>5. QED
      BY <1>7, <2>1, <3>3, <3>4 DEF Server!Migrate, MasterKept, TokenKeyKept
  <2>2. CASE phase' = "jwt" /\ UNCHANGED <<applied, version>>
    BY <1>7, <2>2 DEF Server!Migrate, MasterKept, TokenKeyKept
  <2>3. QED
    BY <1>7, <2>1, <2>2 DEF Server!Migrate
<1>8. CASE Server!CountUsers \/ Server!CreateAdmin \/ Server!GrantSystemAdmin
  BY <1>8 DEF Server!CountUsers, Server!CreateAdmin, Server!GrantSystemAdmin, MasterKept, TokenKeyKept
<1>9. CASE Server!Seal
  BY <1>9 DEF Server!Seal, MasterKept, TokenKeyKept
<1>10. CASE Server!Sign
  BY <1>10 DEF Server!Sign, MasterKept, TokenKeyKept
<1>11. CASE Server!Stopped
  BY <1>11 DEF Server!Stopped, Server!vars, MasterKept, TokenKeyKept
<1>12. QED
  BY <1>1, <1>2, <1>3, <1>5, <1>6, <1>7, <1>8, <1>9, <1>10, <1>11 DEF Server!Next

LEMMA StartInductive ==
  /\ Init => StartInv
  /\ StartInv /\ [Next]_<<part, limiter, twofa, oauth, server, throttle>> => StartInv'
<1>1. Init => StartInv
  BY StartInit DEF Init
<1>2. ASSUME StartInv, UNCHANGED server
      PROVE  StartInv'
  BY <1>2 DEF server, StartInv, Server!TypeOK, MasterKept, TokenKeyKept, SchemaIsVersion,
              Server!SchemaIsVersion
<1>3. QED
  BY <1>1, <1>2, StartStep DEF Next

\* Whenever a start is cut off and however often, the schema is the one its version
\* says, each migration having been applied once.
THEOREM MigrationsApplyOnce == Spec => []SchemaIsVersion
BY StartInductive, PTL DEF Spec, StartInv

\* Whenever a start is cut off and however often, the process that serves reads what
\* earlier ones have sealed, unless the operator has changed the environment's key,
\* and verifies what they have signed.
THEOREM RestartsKeepKeys == Spec => []KeysOutliveRestarts
<1>1. StartInv => KeysOutliveRestarts
  BY DEF StartInv, MasterKept, TokenKeyKept, KeysOutliveRestarts, Server!KeysOutliveRestarts
<1>2. QED
  BY <1>1, StartInductive, PTL DEF Spec

-----------------------------------------------------------------------------
(* The second factor *)

\* A set of codes is numbered after those made before it.
LEMMA NextBatch ==
  ASSUME NEW n \in Nat, NEW p \in Nat
  PROVE  /\ n * p \in Nat /\ (n + 1) * p \in Nat /\ n * p <= (n + 1) * p
         /\ (n + 1 - 1) * p = n * p
<1>1. n * p \in Nat /\ (n + 1) * p = n * p + p
  OBVIOUS
<1>2. n + 1 - 1 = n
  OBVIOUS
<1>3. QED
  BY <1>1, <1>2

\* A code that has opened a login was made, and if it can still be entered it is
\* marked as used.
CodesInv ==
  /\ batches \in 0 .. MaxBatches
  /\ DOMAIN codes \subseteq 1 .. batches * PerBatch /\ codes \in [DOMAIN codes -> BOOLEAN]
  /\ steps \in [Slots -> TwoFA!Call]
  /\ uses \in [TwoFA!CodeIds -> {0, 1}]
  /\ \A b \in TwoFA!CodeIds : uses[b] = 1 => /\ b <= batches * PerBatch
                                             /\ b \in DOMAIN codes => codes[b]

LEMMA CodesInit == TwoFA!Init => CodesInv
<1> SUFFICES ASSUME TwoFA!Init PROVE CodesInv
  OBVIOUS
<1>1. 0 \in 0 .. MaxBatches /\ batches = 0
  BY CodesAssumption DEF TwoFA!Init
<1>2. codes = [c \in {} |-> FALSE] /\ DOMAIN codes = {}
  BY DEF TwoFA!Init, TwoFA!None
<1>3. steps \in [Slots -> TwoFA!Call]
  BY DEF TwoFA!Init, TwoFA!Call
<1>4. uses = [b \in TwoFA!CodeIds |-> 0]
  BY DEF TwoFA!Init
<1>5. QED
  BY <1>1, <1>2, <1>3, <1>4 DEF CodesInv

LEMMA CodesStep == CodesInv /\ TwoFA!Next => CodesInv'
<1> SUFFICES ASSUME CodesInv, TwoFA!Next PROVE CodesInv'
  OBVIOUS
<1>0. /\ batches \in Nat /\ batches * PerBatch \in Nat
      /\ \A c \in Slots : steps[c] \in TwoFA!Call
  BY NextBatch, CodesAssumption DEF CodesInv
\* A step that leaves the codes, or makes them forgotten.
<1>1. ASSUME UNCHANGED <<batches, uses>>, codes' = codes \/ DOMAIN codes' = {},
             codes' \in [DOMAIN codes' -> BOOLEAN],
             NEW c \in Slots, NEW call \in TwoFA!Call,
             steps' = steps \/ steps' = [steps EXCEPT ![c] = call]
      PROVE  CodesInv'
  BY <1>1 DEF CodesInv
<1>2. ASSUME NEW c \in Slots, TwoFA!FinishEnable2FA(c)
      PROVE  CodesInv'
  <2>1. /\ batches + 1 \in 0 .. MaxBatches /\ batches' = batches + 1 /\ UNCHANGED uses
        /\ codes' = [b \in TwoFA!Batch(batches + 1) |-> FALSE]
        /\ steps' = [steps EXCEPT ![c] = TwoFA!NoCall]
    BY <1>0, <1>2, CodesAssumption DEF TwoFA!FinishEnable2FA, TwoFA!NewCodes, TwoFA!Done
  <2>2. steps' \in [Slots -> TwoFA!Call]
    BY <2>1 DEF CodesInv, TwoFA!Call
  <2> DEFINE m == batches * PerBatch
             n == (batches + 1) * PerBatch
  <2>3. m \in Nat /\ n \in Nat /\ m <= n /\ DOMAIN codes' = m + 1 .. n
    BY <1>0, <2>1, NextBatch, CodesAssumption DEF TwoFA!Batch
  <2>4. n = batches' * PerBatch
    BY <2>1
  <2>5. /\ uses' \in [TwoFA!CodeIds -> {0, 1}]
        /\ \A b \in TwoFA!CodeIds : uses'[b] = 1 => b <= m
        /\ codes' \in [DOMAIN codes' -> BOOLEAN]
    BY <2>1 DEF CodesInv
  <2>6. \A b \in TwoFA!CodeIds : b \in Int
    BY DEF TwoFA!CodeIds
  <2> HIDE DEF m, n
  <2>7. \A b \in TwoFA!CodeIds : uses'[b] = 1 => b <= n /\ b \notin DOMAIN codes'
    BY <2>3, <2>5, <2>6
  <2>8. DOMAIN codes' \subseteq 1 .. n
    BY <2>3
  <2>9. batches' \in 0 .. MaxBatches
    BY <2>1
  <2>10. QED
    BY <2>2, <2>4, <2>5, <2>7, <2>8, <2>9 DEF CodesInv
<1>3. ASSUME NEW c \in Slots, TwoFA!ConsumeBackupCode(c)
      PROVE  CodesInv'
  <2> DEFINE code == steps[c].code
  <2>1. code \in TwoFA!CodeIds
    <3>1. steps[c].phase = "loaded" /\ steps[c] \in TwoFA!Call
      BY <1>0, <1>3 DEF TwoFA!ConsumeBackupCode
    <3>2. steps[c] \in [phase : {"loaded"}, code : TwoFA!CodeIds]
      BY <3>1 DEF TwoFA!Call, TwoFA!NoCall
    <3>3. QED
      BY <3>2
  <2>2. CASE TwoFA!Done(c) /\ UNCHANGED <<codes, uses>>
    <3>1. TwoFA!NoCall \in TwoFA!Call
      BY DEF TwoFA!Call
    <3>2. QED
      BY <1>1, <1>3, <2>2, <3>1 DEF TwoFA!ConsumeBackupCode, TwoFA!Done, CodesInv
  <2>3. CASE /\ code \in DOMAIN codes /\ ~codes[code]
             /\ codes' = [codes EXCEPT ![code] = TRUE]
             /\ TwoFA!Count(code)
             /\ steps' = [steps EXCEPT ![c] = [phase |-> "proved"]]
    <3>1. UNCHANGED batches
      BY <1>3 DEF TwoFA!ConsumeBackupCode
    <3>2. steps' \in [Slots -> TwoFA!Call]
      BY <2>3 DEF CodesInv, TwoFA!Call
    <3> HIDE DEF code
    <3>3. uses[code] = 0
      BY <2>1, <2>3 DEF CodesInv
    <3>4. uses' = [uses EXCEPT ![code] = 1] \/ uses' = uses
      <4>1. uses' = [uses EXCEPT ![code] = IF 0 < MaxUses THEN 0 + 1 ELSE 0]
        BY <2>3, <3>3 DEF TwoFA!Count
      <4>2. 0 + 1 = 1
        OBVIOUS
      <4>3. uses' = [uses EXCEPT ![code] = 1] \/ uses' = [uses EXCEPT ![code] = uses[code]]
        BY <3>3, <4>1, <4>2
      <4>4. [uses EXCEPT ![code] = uses[code]] = uses
        BY <2>1 DEF CodesInv
      <4>5. QED
        BY <4>3, <4>4
    <3>5. DOMAIN codes' = DOMAIN codes /\ codes' \in [DOMAIN codes' -> BOOLEAN] /\ codes'[code]
      BY <2>3 DEF CodesInv
    <3>6. code <= batches * PerBatch
      BY <1>0, <2>3 DEF CodesInv
    <3>7. \A b \in TwoFA!CodeIds : uses'[b] = 1 => /\ b <= batches * PerBatch
                                                   /\ b \in DOMAIN codes => codes'[b]
      BY <2>1, <2>3, <3>4, <3>5, <3>6 DEF CodesInv
    <3>8. uses' \in [TwoFA!CodeIds -> {0, 1}]
      BY <2>1, <3>4 DEF CodesInv
    <3>9. QED
      BY <3>1, <3>2, <3>5, <3>7, <3>8 DEF CodesInv
  <2>4. QED
    BY <1>3, <2>2, <2>3 DEF TwoFA!ConsumeBackupCode
<1>4. CASE TwoFA!ExpirePending
  BY <1>4 DEF TwoFA!ExpirePending, CodesInv
<1>5. /\ TwoFA!NoCall \in TwoFA!Call
      /\ [phase |-> "validated"] \in TwoFA!Call /\ [phase |-> "proved"] \in TwoFA!Call
      /\ \A code \in TwoFA!CodeIds : [phase |-> "loaded", code |-> code] \in TwoFA!Call
  BY DEF TwoFA!Call
<1>6. codes \in [DOMAIN codes -> BOOLEAN]
  BY DEF CodesInv
<1>7. ASSUME NEW c \in Slots
      PROVE  /\ TwoFA!Setup2FA(c) => CodesInv'
             /\ TwoFA!BeginEnable2FA(c) => CodesInv'
             /\ TwoFA!Disable2FA(c) => CodesInv'
             /\ TwoFA!Login(c) => CodesInv'
             /\ \A secret : TwoFA!VerifyTOTP(c, secret) => CodesInv'
             /\ \A code \in TwoFA!CodeIds : TwoFA!BeginBackupCode(c, code) => CodesInv'
             /\ TwoFA!CompleteTwoFA(c) => CodesInv'
             /\ TwoFA!ServerError(c) => CodesInv'
  <2>1. ASSUME TwoFA!Setup2FA(c) PROVE CodesInv'
    BY <1>1, <1>5, <1>6, <2>1 DEF TwoFA!Setup2FA
  <2>2. ASSUME TwoFA!BeginEnable2FA(c) PROVE CodesInv'
    BY <1>1, <1>5, <1>6, <2>2 DEF TwoFA!BeginEnable2FA
  <2>3. ASSUME TwoFA!Disable2FA(c) PROVE CodesInv'
    <3>1. DOMAIN codes' = {} /\ codes' \in [DOMAIN codes' -> BOOLEAN]
      BY <2>3 DEF TwoFA!Disable2FA, TwoFA!None
    <3>2. QED
      BY <1>1, <1>5, <2>3, <3>1 DEF TwoFA!Disable2FA
  <2>4. ASSUME TwoFA!Login(c) PROVE CodesInv'
    BY <1>1, <1>5, <1>6, <2>4 DEF TwoFA!Login
  <2>5. ASSUME NEW secret, TwoFA!VerifyTOTP(c, secret) PROVE CodesInv'
    BY <1>1, <1>5, <1>6, <2>5 DEF TwoFA!VerifyTOTP
  <2>6. ASSUME NEW code \in TwoFA!CodeIds, TwoFA!BeginBackupCode(c, code) PROVE CodesInv'
    BY <1>1, <1>5, <1>6, <2>6 DEF TwoFA!BeginBackupCode
  <2>7. ASSUME TwoFA!CompleteTwoFA(c) PROVE CodesInv'
    BY <1>1, <1>5, <1>6, <2>7 DEF TwoFA!CompleteTwoFA, TwoFA!Done
  <2>8. ASSUME TwoFA!ServerError(c) PROVE CodesInv'
    BY <1>1, <1>5, <1>6, <2>8 DEF TwoFA!ServerError, TwoFA!Done
  <2>9. QED
    BY <2>1, <2>2, <2>3, <2>4, <2>5, <2>6, <2>7, <2>8
<1>8. QED
  BY <1>2, <1>3, <1>4, <1>7 DEF TwoFA!Next

\* A backup code opens one login, however many requests race for it, however many sets
\* of codes are made, and whenever the second factor is turned off and on again.
THEOREM CodesOpenOneLogin == Spec => []BackupCodeOnce
<1> DEFINE Inv == part = "twofa" => CodesInv
<1>1. Init => Inv
  BY CodesInit DEF Init
<1>2. Inv /\ [Next]_<<part, limiter, twofa, oauth, server, throttle>> => Inv'
  <2> SUFFICES ASSUME Inv, part' = "twofa", [Next]_<<part, limiter, twofa, oauth, server, throttle>>
               PROVE  CodesInv'
    OBVIOUS
  <2>1. part = "twofa" /\ CodesInv /\ (TwoFA!Next \/ UNCHANGED twofa)
    BY DEF Next
  <2>2. CASE UNCHANGED twofa
    BY <2>1, <2>2 DEF twofa, CodesInv
  <2>3. QED
    BY <2>1, <2>2, CodesStep
<1>3. Inv => BackupCodeOnce
  <2> SUFFICES ASSUME CodesInv, NEW b \in TwoFA!CodeIds PROVE uses[b] <= 1
    BY DEF BackupCodeOnce, TwoFA!BackupCodeOnce
  <2>1. uses[b] \in {0, 1}
    BY DEF CodesInv
  <2>2. QED
    BY <2>1
<1>4. QED
  BY <1>1, <1>2, <1>3, PTL DEF Spec

\* One request after the other: what is active, and what an activation under way will
\* make active, has been confirmed.
SetupInv ==
  /\ row \in [secret : Nat, enabled : BOOLEAN] /\ secrets \in Nat
  /\ steps \in [{Alone} -> Setup!Call]
  /\ row.enabled => row.secret \in confirmed
  /\ steps[Alone].phase = "validated" => row.secret \in confirmed

LEMMA SetupInit == Setup!Init => SetupInv
BY DEF Setup!Init, SetupInv, Setup!NoRow, Setup!NoCall, Setup!Call

LEMMA SetupStep == SetupInv /\ Setup!Next => SetupInv'
<1> SUFFICES ASSUME SetupInv, Setup!Next PROVE SetupInv'
  OBVIOUS
\* A step that leaves the row alone, or changes it while nothing is being activated.
<1>1. ASSUME NEW c \in {Alone}, NEW call \in Setup!Call, secrets' \in Nat,
             steps' = steps \/ steps' = [steps EXCEPT ![c] = call],
             confirmed \subseteq confirmed',
             call.phase = "validated" => row.secret \in confirmed',
             \/ row' = row
             \/ steps' = steps /\ steps[c] = Setup!NoCall /\ row'.enabled = FALSE
                /\ row' \in [secret : Nat, enabled : BOOLEAN]
      PROVE  SetupInv'
  BY <1>1 DEF SetupInv, Setup!NoCall
<1>2. /\ Setup!NoCall \in Setup!Call /\ Setup!NoCall.phase # "validated"
      /\ [phase |-> "validated"] \in Setup!Call /\ [phase |-> "proved"] \in Setup!Call
      /\ \A code \in Setup!CodeIds : [phase |-> "loaded", code |-> code] \in Setup!Call
      /\ Setup!NoRow \in [secret : Nat, enabled : BOOLEAN] /\ Setup!NoRow.enabled = FALSE
      /\ secrets \in Nat
  BY DEF Setup!Call, Setup!NoCall, Setup!NoRow, SetupInv
<1>3. ASSUME NEW c \in {Alone}, Setup!Setup2FA(c) PROVE SetupInv'
  <2>1. row' \in [secret : Nat, enabled : BOOLEAN] /\ row'.enabled = FALSE /\ secrets' \in Nat
    BY <1>2, <1>3 DEF Setup!Setup2FA
  <2>2. QED
    BY <1>1, <1>2, <1>3, <2>1 DEF Setup!Setup2FA
<1>4. ASSUME NEW c \in {Alone}, Setup!BeginEnable2FA(c) PROVE SetupInv'
  BY <1>1, <1>2, <1>4 DEF Setup!BeginEnable2FA
<1>5. ASSUME NEW c \in {Alone}, Setup!FinishEnable2FA(c) PROVE SetupInv'
  <2>1. /\ steps' = [steps EXCEPT ![Alone] = Setup!NoCall] /\ UNCHANGED <<secrets, confirmed>>
        /\ steps[Alone].phase = "validated"
        /\ row' = row \/ row' = [row EXCEPT !.enabled = TRUE]
    BY <1>5 DEF Setup!FinishEnable2FA, Setup!Done
  <2>2. row'.secret = row.secret /\ row' \in [secret : Nat, enabled : BOOLEAN]
    BY <2>1 DEF SetupInv
  <2>3. QED
    BY <1>2, <2>1, <2>2 DEF SetupInv
<1>6. ASSUME NEW c \in {Alone}, Setup!Disable2FA(c) PROVE SetupInv'
  BY <1>1, <1>2, <1>6 DEF Setup!Disable2FA
<1>7. ASSUME NEW c \in {Alone}, Setup!ConsumeBackupCode(c) PROVE SetupInv'
  BY <1>1, <1>2, <1>7 DEF Setup!ConsumeBackupCode, Setup!Done
<1>8. ASSUME NEW c \in {Alone}, NEW code \in Setup!CodeIds, Setup!BeginBackupCode(c, code)
      PROVE  SetupInv'
  BY <1>1, <1>2, <1>8 DEF Setup!BeginBackupCode
<1>9. ASSUME NEW c \in {Alone}
      PROVE  /\ Setup!Login(c) => SetupInv'
             /\ \A secret : Setup!VerifyTOTP(c, secret) => SetupInv'
             /\ Setup!CompleteTwoFA(c) => SetupInv'
             /\ Setup!ServerError(c) => SetupInv'
  BY <1>1, <1>2 DEF Setup!Login, Setup!VerifyTOTP, Setup!CompleteTwoFA, Setup!ServerError, Setup!Done
<1>10. CASE Setup!ExpirePending
  BY <1>10 DEF Setup!ExpirePending, SetupInv
<1>11. QED
  BY <1>3, <1>4, <1>5, <1>6, <1>7, <1>8, <1>9, <1>10 DEF Setup!Next

\* While the requests come one after the other, a second factor that is active has been
\* shown to work, whatever is set up, activated and removed in whatever order.
THEOREM ActiveIsConfirmed == Spec => []EnabledIsConfirmed
<1> DEFINE Inv == part = "setup" => SetupInv
<1>1. Init => Inv
  BY SetupInit DEF Init
<1>2. Inv /\ [Next]_<<part, limiter, twofa, oauth, server, throttle>> => Inv'
  <2> SUFFICES ASSUME Inv, part' = "setup", [Next]_<<part, limiter, twofa, oauth, server, throttle>>
               PROVE  SetupInv'
    OBVIOUS
  <2>1. part = "setup" /\ SetupInv /\ (Setup!Next \/ UNCHANGED twofa)
    BY DEF Next
  <2>2. CASE UNCHANGED twofa
    BY <2>1, <2>2 DEF twofa, SetupInv
  <2>3. QED
    BY <2>1, <2>2, SetupStep
<1>3. Inv => EnabledIsConfirmed
  BY DEF EnabledIsConfirmed, Setup!EnabledIsConfirmed, SetupInv
<1>4. QED
  BY <1>1, <1>2, <1>3, PTL DEF Spec

-----------------------------------------------------------------------------
(* The throttle *)

\* A bucket that is refilled is not over its brim.
LEMMA RefilledTyped ==
  ASSUME Throttle!TypeOK, NEW k \in DOMAIN buckets
  PROVE  /\ buckets[k] \in Throttle!Bucket /\ buckets[k].tokens \in Nat
         /\ now - buckets[k].last \in Nat /\ Rate * (now - buckets[k].last) \in Nat
         /\ Throttle!Refilled(buckets[k]) \in 0 .. Burst
<1>1. /\ buckets[k] \in Throttle!Bucket /\ buckets[k].last <= now /\ now \in 0 .. MaxTime
      /\ Rate \in Nat /\ Burst \in Nat /\ MaxTime \in Nat
  BY ThrottleAssumption DEF Throttle!TypeOK, Throttle!Settings
<1> DEFINE t == buckets[k].tokens
           d == now - buckets[k].last
<1>2. t \in Nat /\ d \in Nat
  BY <1>1 DEF Throttle!Bucket
<1>3. Rate * d \in Nat
  BY <1>1, <1>2
<1>4. Throttle!Refilled(buckets[k]) = IF Burst <= t + Rate * d THEN Burst ELSE t + Rate * d
  BY DEF Throttle!Refilled, Throttle!Least
<1> DEFINE x == Rate * d
<1> HIDE DEF t, x
<1>5. (IF Burst <= t + x THEN Burst ELSE t + x) \in 0 .. Burst
  BY <1>1, <1>2, <1>3 DEF x
<1>6. QED
  BY <1>1, <1>2, <1>3, <1>4, <1>5 DEF t, x

\* The clients a request makes the limiter forget.
Forgotten == DOMAIN buckets \ Throttle!Remembered

\* Since when each client is idle, and that those who are forgotten are idle for long.
LEMMA IdleTyped ==
  ASSUME Throttle!TypeOK, NEW k \in DOMAIN buckets
  PROVE  /\ Throttle!IdleFor[k] = IF now - buckets[k].last > Idle THEN Idle + 1
                                  ELSE now - buckets[k].last
         /\ k \in Forgotten => Throttle!IdleFor[k] > Idle
<1>1. Idle \in Nat /\ k \in Clients
  BY ThrottleAssumption DEF Throttle!TypeOK, Throttle!Settings
<1> DEFINE d == now - buckets[k].last
<1>2. d \in Nat
  BY RefilledTyped
<1>3. Throttle!IdleFor[k] = IF Idle + 1 <= d THEN Idle + 1 ELSE d
  BY <1>1 DEF Throttle!IdleFor, Throttle!Least
<1>4. k \in Forgotten => d > Idle
  BY DEF Forgotten, Throttle!Remembered, Throttle!Old
<1> HIDE DEF d
<1>5. /\ Throttle!IdleFor[k] = IF d > Idle THEN Idle + 1 ELSE d
      /\ k \in Forgotten => Throttle!IdleFor[k] > Idle
  BY <1>1, <1>2, <1>3, <1>4
<1>6. QED
  BY <1>5 DEF d

\* What Allow finds is what the client has once those who are forgotten are full again.
LEMMA FoundIsLevel ==
  ASSUME Throttle!TypeOK, NEW k \in Clients
  PROVE  /\ Throttle!Found(k) = Throttle!Ideal!Without(Forgotten)[k]
         /\ Throttle!Found(k) \in 0 .. Burst
<1>1. Burst \in Nat /\ Burst \in 0 .. Burst
  BY ThrottleAssumption DEF Throttle!Settings
<1>2. CASE k \in Throttle!Remembered
  <2>1. k \in DOMAIN buckets /\ k \notin Forgotten
    BY <1>2 DEF Throttle!Remembered, Forgotten
  <2>2. QED
    BY <1>2, <2>1, RefilledTyped DEF Throttle!Found, Throttle!Level, Throttle!Ideal!Without
<1>3. CASE k \notin Throttle!Remembered
  <2>1. Throttle!Ideal!Without(Forgotten)[k] = Burst
    BY <1>3 DEF Forgotten, Throttle!Level, Throttle!Ideal!Without
  <2>2. QED
    BY <1>1, <1>3, <2>1 DEF Throttle!Found
<1>4. QED
  BY <1>2, <1>3

\* Where a bucket is full before it counts as idle, forgetting changes no level.
LEMMA ForgottenAreFull ==
  ASSUME Throttle!TypeOK, Burst <= Rate * Idle
  PROVE  Throttle!Ideal!Without(Forgotten) = Throttle!Ideal!Without({})
<1>1. Rate \in Nat \ {0} /\ Idle \in Nat /\ Burst \in Nat
  BY ThrottleAssumption DEF Throttle!Settings
<1>2. ASSUME NEW k \in Clients, k \in Forgotten PROVE Throttle!Level[k] = Burst
  <2> DEFINE t == buckets[k].tokens
             d == now - buckets[k].last
             x == Rate * d
             y == Rate * Idle
  <2>1. k \in DOMAIN buckets
    BY <1>2 DEF Forgotten
  <2>2. t \in Nat /\ d \in Nat /\ d > Idle
    BY <1>2, <2>1, RefilledTyped DEF Forgotten, Throttle!Remembered, Throttle!Old
  <2>3. x \in Nat /\ y \in Nat /\ x >= y
    BY <1>1, <2>2
  <2>4. Burst <= y
    OBVIOUS
  <2>5. Throttle!Level[k] = IF Burst <= t + x THEN Burst ELSE t + x
    BY <2>1 DEF Throttle!Level, Throttle!Refilled, Throttle!Least
  <2> HIDE DEF t, x, y
  <2>6. Burst <= t + x
    BY <1>1, <2>2, <2>3, <2>4
  <2>7. QED
    BY <2>5, <2>6
<1>3. QED
  BY <1>2 DEF Throttle!Ideal!Without

\* What Put leaves behind.
LEMMA PutLevel ==
  ASSUME Throttle!TypeOK, NEW k \in Clients, NEW n \in 0 .. Burst, Throttle!Put(k, n), now' = now
  PROVE  /\ Throttle!Level' = [Throttle!Ideal!Without(Forgotten) EXCEPT ![k] = n]
         /\ Throttle!IdleFor' = [Throttle!IdleFor EXCEPT ![k] = 0]
         /\ DOMAIN buckets' \subseteq Clients /\ buckets' \in [DOMAIN buckets' -> Throttle!Bucket]
         /\ \A j \in DOMAIN buckets' : buckets'[j].last <= now
<1>0. /\ now \in 0 .. MaxTime /\ now \in Nat /\ MaxTime \in Nat /\ Burst \in Nat /\ Rate \in Nat
      /\ Idle \in Nat
      /\ DOMAIN buckets \subseteq Clients /\ buckets \in [DOMAIN buckets -> Throttle!Bucket]
      /\ \A j \in DOMAIN buckets : buckets[j].last <= now
  BY ThrottleAssumption DEF Throttle!TypeOK, Throttle!Settings
<1> DEFINE new == [tokens |-> n, last |-> now]
<1>1. new \in Throttle!Bucket /\ new.tokens = n /\ new.last = now
  BY <1>0 DEF Throttle!Bucket
<1>2. Throttle!Refilled(new)' = n
  <2>1. Rate * (now - now) = 0
    BY <1>0
  <2>2. Throttle!Refilled(new)' = IF Burst <= n + Rate * (now - now) THEN Burst
                                  ELSE n + Rate * (now - now)
    BY <1>1 DEF Throttle!Refilled, Throttle!Least
  <2>3. (IF Burst <= n + 0 THEN Burst ELSE n + 0) = n
    BY <1>0
  <2>4. QED
    BY <2>1, <2>2, <2>3
<1> HIDE DEF new
<1>3. /\ DOMAIN buckets' = Throttle!Remembered \cup {k}
      /\ buckets'[k] = new
      /\ \A j \in Throttle!Remembered : j # k => buckets'[j] = buckets[j]
      /\ Throttle!Remembered \subseteq DOMAIN buckets
      /\ buckets' = [j \in DOMAIN buckets' |-> buckets'[j]]
  BY DEF Throttle!Put, Throttle!Remembered, new
<1>4. \A j \in DOMAIN buckets' : buckets'[j] \in Throttle!Bucket /\ buckets'[j].last <= now
  BY <1>0, <1>1, <1>3
<1>5. ASSUME NEW j \in Clients
      PROVE  /\ Throttle!Level'[j] = IF j = k THEN n ELSE Throttle!Ideal!Without(Forgotten)[j]
             /\ Throttle!IdleFor'[j] = IF j = k THEN 0 ELSE Throttle!IdleFor[j]
  <2>1. CASE j = k
    <3>1. Throttle!Level'[j] = n
      BY <1>2, <1>3, <2>1 DEF Throttle!Level, new
    <3>2. Throttle!IdleFor'[j] = IF Idle + 1 <= now - now THEN Idle + 1 ELSE now - now
      BY <1>1, <1>3, <2>1 DEF Throttle!IdleFor, Throttle!Least
    <3>3. (IF Idle + 1 <= now - now THEN Idle + 1 ELSE now - now) = 0
      BY <1>0
    <3>4. QED
      BY <2>1, <3>1, <3>2, <3>3
  <2>2. CASE j # k /\ j \in Throttle!Remembered
    <3>1. j \in DOMAIN buckets /\ j \in DOMAIN buckets' /\ j \notin Forgotten
          /\ buckets'[j] = buckets[j]
      BY <1>3, <2>2 DEF Forgotten
    <3>2. Throttle!Level'[j] = Throttle!Level[j] /\ Throttle!IdleFor'[j] = Throttle!IdleFor[j]
      BY <3>1 DEF Throttle!Level, Throttle!Refilled, Throttle!IdleFor
    <3>3. Throttle!Ideal!Without(Forgotten)[j] = Throttle!Level[j]
      BY <3>1 DEF Throttle!Ideal!Without
    <3>4. QED
      BY <2>2, <3>2, <3>3
  <2>3. CASE j # k /\ j \notin Throttle!Remembered
    <3>1. j \notin DOMAIN buckets'
      BY <1>3, <2>3
    <3>2. Throttle!Level'[j] = Burst /\ Throttle!IdleFor'[j] = Idle + 1
      BY <3>1 DEF Throttle!Level, Throttle!IdleFor
    <3>3. Throttle!Ideal!Without(Forgotten)[j] = Burst
      BY <2>3 DEF Forgotten, Throttle!Level, Throttle!Ideal!Without
    <3>4. Throttle!IdleFor[j] = Idle + 1
      <4>1. CASE j \notin DOMAIN buckets
        BY <4>1 DEF Throttle!IdleFor
      <4>2. CASE j \in DOMAIN buckets
        <5>1. j \in Forgotten
          BY <2>3, <4>2 DEF Forgotten
        <5>2. now - buckets[j].last \in Nat
          BY <4>2, RefilledTyped
        <5> DEFINE d == now - buckets[j].last
                   i == Throttle!IdleFor[j]
        <5>3. i = (IF d > Idle THEN Idle + 1 ELSE d) /\ i > Idle /\ d \in Nat
          BY <4>2, <5>1, <5>2, IdleTyped
        <5> HIDE DEF d, i
        <5>4. i = Idle + 1
          BY <1>0, <5>3
        <5>5. QED
          BY <5>4 DEF i
      <4>3. QED
        BY <4>1, <4>2
    <3>5. QED
      BY <2>3, <3>2, <3>3, <3>4
  <2>4. QED
    BY <2>1, <2>2, <2>3
<1>6. /\ Throttle!Level' = [Throttle!Ideal!Without(Forgotten) EXCEPT ![k] = n]
      /\ Throttle!IdleFor' = [Throttle!IdleFor EXCEPT ![k] = 0]
  BY <1>5 DEF Throttle!Level, Throttle!IdleFor, Throttle!Ideal!Without
<1>7. QED
  BY <1>0, <1>3, <1>4, <1>6

\* A request keeps the types, and is one for a bucket that forgets.
LEMMA AllowStep ==
  ASSUME Throttle!TypeOK, NEW k \in Clients, Throttle!Allow(k)
  PROVE  Throttle!TypeOK' /\ Throttle!Ideal!Ask(k, Forgotten)
<1>0. /\ Token \in Nat \ {0} /\ Burst \in Nat /\ MaxTime \in Nat /\ MaxGranted \in Nat
      /\ Every \in Nat /\ now \in 0 .. MaxTime /\ lastSweep \in -Every .. now
      /\ passed \in [Clients -> 0 .. MaxGranted]
  BY ThrottleAssumption DEF Throttle!TypeOK, Throttle!Settings
<1>1. now' = now /\ lastSweep' \in -Every .. now
  BY <1>0 DEF Throttle!Allow
<1> DEFINE found == Throttle!Found(k)
<1>2. found = Throttle!Ideal!Without(Forgotten)[k] /\ found \in 0 .. Burst
  BY FoundIsLevel
<1>3. \A j \in Forgotten : Throttle!IdleFor[j] > Idle
  BY IdleTyped DEF Forgotten
<1>4. CASE /\ Throttle!Found(k) >= Token /\ passed[k] < MaxGranted
           /\ Throttle!Put(k, Throttle!Spent(Throttle!Found(k)))
           /\ passed' = [passed EXCEPT ![k] = @ + 1]
  <2>1. found >= Token /\ Throttle!Put(k, found - Token) /\ found - Token \in 0 .. Burst
    BY <1>0, <1>2, <1>4 DEF Throttle!Spent
  <2>2. /\ Throttle!Level' = [Throttle!Ideal!Without(Forgotten) EXCEPT ![k] = found - Token]
        /\ Throttle!IdleFor' = [Throttle!IdleFor EXCEPT ![k] = 0]
        /\ DOMAIN buckets' \subseteq Clients /\ buckets' \in [DOMAIN buckets' -> Throttle!Bucket]
        /\ \A j \in DOMAIN buckets' : buckets'[j].last <= now
    BY <1>1, <2>1, PutLevel
  <2>3. passed' \in [Clients -> 0 .. MaxGranted]
    BY <1>0, <1>4
  <2>4. Throttle!Ideal!Ask(k, Forgotten)
    BY <1>2, <1>3, <1>4, <2>1, <2>2 DEF Throttle!Ideal!Ask
  <2>5. QED
    BY <1>0, <1>1, <2>2, <2>3, <2>4 DEF Throttle!TypeOK
<1>5. CASE /\ Throttle!Found(k) < Token
           /\ Throttle!Put(k, Throttle!Found(k))
           /\ UNCHANGED passed
  <2>1. /\ Throttle!Level' = [Throttle!Ideal!Without(Forgotten) EXCEPT ![k] = found]
        /\ Throttle!IdleFor' = [Throttle!IdleFor EXCEPT ![k] = 0]
        /\ DOMAIN buckets' \subseteq Clients /\ buckets' \in [DOMAIN buckets' -> Throttle!Bucket]
        /\ \A j \in DOMAIN buckets' : buckets'[j].last <= now
    BY <1>1, <1>2, <1>5, PutLevel
  <2>2. Throttle!Level' = Throttle!Ideal!Without(Forgotten)
    BY <1>2, <2>1 DEF Throttle!Ideal!Without
  <2>3. Throttle!Ideal!Ask(k, Forgotten)
    BY <1>2, <1>3, <1>5, <2>1, <2>2 DEF Throttle!Ideal!Ask
  <2>4. QED
    BY <1>0, <1>1, <1>5, <2>1, <2>3 DEF Throttle!TypeOK
<1>6. QED
  BY <1>4, <1>5 DEF Throttle!Allow

\* The clock keeps the types, and refills every bucket.
LEMMA TickStep ==
  ASSUME Throttle!TypeOK, Throttle!Tick
  PROVE  Throttle!TypeOK' /\ Throttle!Ideal!Refill
<1>0. /\ Rate \in Nat \ {0} /\ Burst \in Nat /\ MaxTime \in Nat /\ Idle \in Nat /\ Every \in Nat
      /\ now \in 0 .. MaxTime /\ lastSweep \in -Every .. now
  BY ThrottleAssumption DEF Throttle!TypeOK, Throttle!Settings
<1>1. /\ now < MaxTime /\ now' = now + 1 /\ buckets' = buckets /\ lastSweep' = lastSweep
      /\ passed' = passed
  BY DEF Throttle!Tick
<1>2. now' \in 0 .. MaxTime /\ lastSweep' \in -Every .. now'
  BY <1>0, <1>1
<1>3. /\ \A j \in DOMAIN buckets : buckets[j].last <= now + 1
      /\ \A j \in DOMAIN buckets : buckets[j].last \in Nat
  BY <1>0 DEF Throttle!TypeOK, Throttle!Bucket
<1>4. Throttle!TypeOK'
  BY <1>1, <1>2, <1>3 DEF Throttle!TypeOK
<1>5. ASSUME NEW j \in Clients
      PROVE  Throttle!Level'[j] = IF Throttle!Level[j] + Rate < Burst
                                  THEN Throttle!Level[j] + Rate ELSE Burst
  <2>1. CASE j \notin DOMAIN buckets
    <3>1. Throttle!Level'[j] = Burst /\ Throttle!Level[j] = Burst
      BY <1>1, <2>1 DEF Throttle!Level
    <3>2. ~(Burst + Rate < Burst)
      BY <1>0
    <3>3. QED
      BY <3>1, <3>2
  <2>2. CASE j \in DOMAIN buckets
    <3> DEFINE t == buckets[j].tokens
               d == now - buckets[j].last
               x == Rate * d
    <3>1. t \in Nat /\ d \in Nat /\ x \in Nat
      BY <2>2, RefilledTyped
    <3>2. now + 1 - buckets[j].last = d + 1
      BY <1>0, <1>3, <2>2
    <3>3. Rate * (d + 1) = x + Rate
      BY <1>0, <3>1
    <3>4. /\ Throttle!Level[j] = IF Burst <= t + x THEN Burst ELSE t + x
          /\ Throttle!Level'[j] = IF Burst <= t + (x + Rate) THEN Burst ELSE t + (x + Rate)
      <4>1. Throttle!Level[j] = IF Burst <= t + x THEN Burst ELSE t + x
        BY <2>2 DEF Throttle!Level, Throttle!Refilled, Throttle!Least
      <4>2. Throttle!Level'[j] = IF Burst <= buckets'[j].tokens + Rate * (now' - buckets'[j].last)
                                 THEN Burst
                                 ELSE buckets'[j].tokens + Rate * (now' - buckets'[j].last)
        BY <1>1, <2>2 DEF Throttle!Level, Throttle!Refilled, Throttle!Least
      <4>3. /\ buckets'[j].tokens = t
            /\ Rate * (now' - buckets'[j].last) = x + Rate
        <5>1. buckets'[j].tokens = t /\ now' - buckets'[j].last = d + 1
          <6> DEFINE last == buckets[j].last
          <6>1. buckets'[j].tokens = t /\ buckets'[j].last = last
            BY <1>1
          <6>2. last \in Nat /\ now \in Nat /\ now' = now + 1 /\ now + 1 - last = d + 1
            BY <1>0, <1>1, <1>3, <2>2, <3>2
          <6> HIDE DEF t, d, last
          <6>3. now' - last = d + 1
            BY <6>2
          <6>4. QED
            BY <6>1, <6>3
        <5> HIDE DEF d, x
        <5>2. QED
          BY <3>3, <5>1
      <4> HIDE DEF t, d, x
      <4>4. QED
        BY <4>1, <4>2, <4>3
    <3> HIDE DEF t, d, x
    <3>5. (IF Burst <= t + (x + Rate) THEN Burst ELSE t + (x + Rate))
            = IF (IF Burst <= t + x THEN Burst ELSE t + x) + Rate < Burst
              THEN (IF Burst <= t + x THEN Burst ELSE t + x) + Rate ELSE Burst
      BY <1>0, <3>1
    <3>6. QED
      BY <3>4, <3>5
  <2>3. QED
    BY <2>1, <2>2
<1>6. ASSUME NEW j \in Clients
      PROVE  Throttle!IdleFor'[j] = IF Throttle!IdleFor[j] <= Idle
                                    THEN Throttle!IdleFor[j] + 1 ELSE Idle + 1
  <2>1. CASE j \notin DOMAIN buckets
    <3>1. Throttle!IdleFor'[j] = Idle + 1 /\ Throttle!IdleFor[j] = Idle + 1
      BY <1>1, <2>1 DEF Throttle!IdleFor
    <3>2. ~(Idle + 1 <= Idle)
      BY <1>0
    <3>3. QED
      BY <3>1, <3>2
  <2>2. CASE j \in DOMAIN buckets
    <3> DEFINE last == buckets[j].last
    <3>1. /\ Throttle!IdleFor[j] = IF Idle + 1 <= now - last THEN Idle + 1 ELSE now - last
          /\ Throttle!IdleFor'[j] = IF Idle + 1 <= now' - last THEN Idle + 1 ELSE now' - last
      BY <1>1, <2>2 DEF Throttle!IdleFor, Throttle!Least
    <3>2. last \in Nat /\ last <= now /\ now \in Nat /\ now' = now + 1
      BY <1>0, <1>1, <1>3, <2>2 DEF Throttle!TypeOK
    <3> HIDE DEF last
    <3>3. (IF Idle + 1 <= (now + 1) - last THEN Idle + 1 ELSE (now + 1) - last)
            = IF (IF Idle + 1 <= now - last THEN Idle + 1 ELSE now - last) <= Idle
              THEN (IF Idle + 1 <= now - last THEN Idle + 1 ELSE now - last) + 1 ELSE Idle + 1
      BY <1>0, <3>2
    <3>4. QED
      BY <3>1, <3>2, <3>3
  <2>3. QED
    BY <2>1, <2>2
<1>7. Throttle!Ideal!Refill
  <2>1. /\ Throttle!Level' = [j \in Clients |-> Throttle!Level'[j]]
        /\ Throttle!IdleFor' = [j \in Clients |-> Throttle!IdleFor'[j]]
    BY DEF Throttle!Level, Throttle!IdleFor
  <2>2. QED
    BY <1>1, <1>5, <1>6, <2>1 DEF Throttle!Ideal!Refill
<1>8. QED
  BY <1>4, <1>7

\* A step of the limiter is one of the bucket that forgets; and where a bucket is full
\* before it counts as idle, of the bucket that never does.
LEMMA ThrottleStep ==
  ASSUME Throttle!TypeOK, Throttle!Next
  PROVE  /\ Throttle!TypeOK' /\ Throttle!Ideal!Next
         /\ Burst <= Rate * Idle => Throttle!Ideal!StrictNext
<1>1. ASSUME NEW k \in Clients, Throttle!Allow(k)
      PROVE  /\ Throttle!TypeOK' /\ Throttle!Ideal!Next
             /\ Burst <= Rate * Idle => Throttle!Ideal!StrictNext
  <2>1. Throttle!TypeOK' /\ Throttle!Ideal!Ask(k, Forgotten)
    BY <1>1, AllowStep
  <2>2. Forgotten \in SUBSET Clients
    BY DEF Forgotten, Throttle!TypeOK
  <2>3. ASSUME Burst <= Rate * Idle PROVE Throttle!Ideal!Ask(k, {})
    BY <2>1, <2>3, ForgottenAreFull DEF Throttle!Ideal!Ask
  <2>4. QED
    BY <2>1, <2>2, <2>3 DEF Throttle!Ideal!Next, Throttle!Ideal!StrictNext
<1>2. QED
  BY <1>1, TickStep DEF Throttle!Next, Throttle!Ideal!Next, Throttle!Ideal!StrictNext

LEMMA ThrottleInit == Throttle!Init => Throttle!TypeOK /\ Throttle!Ideal!Init
<1> SUFFICES ASSUME Throttle!Init PROVE Throttle!TypeOK /\ Throttle!Ideal!Init
  OBVIOUS
<1>1. DOMAIN buckets = {} /\ buckets = [k \in {} |-> [tokens |-> Burst, last |-> 0]]
  BY DEF Throttle!Init
<1>2. /\ Throttle!Level = [k \in Clients |-> Burst]
      /\ Throttle!IdleFor = [k \in Clients |-> Idle + 1]
  BY <1>1 DEF Throttle!Level, Throttle!IdleFor
<1>3. MaxTime \in Nat /\ MaxGranted \in Nat /\ Every \in Nat
  BY ThrottleAssumption DEF Throttle!Settings
<1>4. now \in 0 .. MaxTime /\ lastSweep \in -Every .. now
  BY <1>3 DEF Throttle!Init
<1>5. QED
  BY <1>1, <1>2, <1>3, <1>4 DEF Throttle!Init, Throttle!TypeOK, Throttle!Ideal!Init

\* The same along a behaviour.
LEMMA ThrottleKeeps ==
  ASSUME Throttle!TypeOK, [Next]_<<part, limiter, twofa, oauth, server, throttle>>
  PROVE  /\ Throttle!TypeOK' /\ [Throttle!Ideal!Next]_Throttle!Ideal!vars
         /\ Burst <= Rate * Idle => [Throttle!Ideal!StrictNext]_Throttle!Ideal!vars
<1>1. CASE Throttle!Next
  BY <1>1, ThrottleStep
<1>2. CASE UNCHANGED throttle
  <2>1. now' = now /\ buckets' = buckets /\ lastSweep' = lastSweep /\ passed' = passed
    BY <1>2 DEF throttle
  <2>2. Throttle!Level' = Throttle!Level /\ Throttle!IdleFor' = Throttle!IdleFor
    BY <2>1 DEF Throttle!Level, Throttle!Refilled, Throttle!IdleFor
  <2>3. QED
    BY <2>1, <2>2 DEF Throttle!TypeOK, Throttle!Ideal!vars
<1>3. QED
  BY <1>1, <1>2 DEF Next

\* The throttle, which refills on demand and drops buckets in sweeps, lets through
\* exactly what a bucket for each client would that forgets the client only after more
\* than Idle ticks without a request, for every rate, burst, idle time and interval
\* between sweeps.
THEOREM ThrottleImplementsBucket == Spec => ImplementsTokenBucket
<1>1. Init => Throttle!TypeOK /\ Throttle!Ideal!Init
  BY ThrottleInit DEF Init
<1>2. Throttle!TypeOK /\ [Next]_<<part, limiter, twofa, oauth, server, throttle>>
        => Throttle!TypeOK' /\ [Throttle!Ideal!Next]_Throttle!Ideal!vars
  BY ThrottleKeeps
<1>3. ImplementsTokenBucket <=> Throttle!Ideal!Init /\ [][Throttle!Ideal!Next]_Throttle!Ideal!vars
  BY DEF ImplementsTokenBucket, Throttle!ImplementsTokenBucket, Throttle!Ideal!Spec
<1>4. QED
  BY <1>1, <1>2, <1>3, PTL DEF Spec

\* If a bucket is full again before it counts as idle, Burst <= Rate * Idle, the sweeps
\* cannot be seen at all: the throttle lets through exactly what buckets would that are
\* never forgotten.  The defaults (40, 20 a second, 10 minutes) are such, but nothing in
\* the program keeps a configuration from being another.
THEOREM ThrottleNeverForgets ==
  ASSUME Burst <= Rate * Idle
  PROVE  Spec => Throttle!Ideal!StrictSpec
<1>1. Init => Throttle!TypeOK /\ Throttle!Ideal!Init
  BY ThrottleInit DEF Init
<1>2. Throttle!TypeOK /\ [Next]_<<part, limiter, twofa, oauth, server, throttle>>
        => Throttle!TypeOK' /\ [Throttle!Ideal!StrictNext]_Throttle!Ideal!vars
  BY ThrottleKeeps
<1>3. QED
  BY <1>1, <1>2, PTL DEF Spec, Throttle!Ideal!StrictSpec

-----------------------------------------------------------------------------
(* Logins through a provider *)

\* An account made by a login is linked as long as it exists, however many callbacks
\* race with one another and with the administrator.
THEOREM MadeAccountsAreLinked == Spec => []NoOrphanAccount
<1>1. Init => NoOrphanAccount
  BY DEF Init, Links!Init, Links!Empty, NoOrphanAccount, Links!NoOrphanAccount
<1>2. ASSUME Links!NoOrphanAccount, Links!Next PROVE Links!NoOrphanAccount'
  <2> USE DEF Links!NoOrphanAccount
  <2>1. ASSUME UNCHANGED <<accounts, links>> PROVE Links!NoOrphanAccount'
    BY <1>2, <2>1
  \* Links are added, and an account that is linked, or is not made by a login.
  <2>2. ASSUME NEW id, \A i \in DOMAIN links : i \in DOMAIN links' /\ links'[i] = links[i],
               \A u \in DOMAIN accounts' : u # id => u \in DOMAIN accounts /\ accounts'[u] = accounts[u],
               accounts'[id].oauth => \E i \in DOMAIN links' : links'[i] = id
        PROVE  Links!NoOrphanAccount'
    BY <1>2, <2>2
  <2>3. ASSUME NEW c \in Callbacks, NEW n \in Links!Names, NEW e \in Links!Emails,
               Links!CreateUser(c, n, e)
        PROVE  Links!NoOrphanAccount'
    <3> DEFINE id == Links!NextId
    <3>1. /\ accounts' = [u \in DOMAIN accounts \cup {id} |->
                            IF u = id THEN [name |-> n, email |-> e, oauth |-> FALSE] ELSE accounts[u]]
          /\ links' = links
      BY <2>3 DEF Links!CreateUser, Links!With
    <3> HIDE DEF id
    <3>2. QED
      BY <2>2, <3>1
  <2>4. ASSUME NEW c \in Callbacks, NEW u \in Links!Ids, Links!DeleteUser(c, u)
        PROVE  Links!NoOrphanAccount'
    <3>1. /\ accounts' = [y \in DOMAIN accounts \ {u} |-> accounts[y]]
          /\ links' = [i \in {j \in DOMAIN links : links[j] # u} |-> links[i]]
      BY <2>4 DEF Links!DeleteUser, Links!Without
    <3>2. ASSUME NEW w \in DOMAIN accounts', accounts'[w].oauth
          PROVE  \E i \in DOMAIN links' : links'[i] = w
      <4>1. w \in DOMAIN accounts /\ accounts[w].oauth /\ w # u
        BY <3>1, <3>2
      <4>2. PICK i \in DOMAIN links : links[i] = w
        BY <1>2, <4>1
      <4>3. QED
        BY <3>1, <4>1, <4>2
    <3>3. QED
      BY <3>2
  <2>5. ASSUME NEW c \in Callbacks, Links!LinkUser(c)
        PROVE  Links!NoOrphanAccount'
    <3>1. CASE UNCHANGED links
      BY <2>1, <2>5, <3>1 DEF Links!LinkUser
    <3>2. CASE /\ callbacks[c].ident \notin DOMAIN links
               /\ links' = Links!With(links, callbacks[c].ident, callbacks[c].user)
      <4>1. \A i \in DOMAIN links : i \in DOMAIN links' /\ links'[i] = links[i]
        BY <3>2 DEF Links!With
      <4>2. accounts' = accounts
        BY <2>5 DEF Links!LinkUser
      <4>3. QED
        BY <1>2, <4>1, <4>2
    <3>3. QED
      BY <2>5, <3>1, <3>2 DEF Links!LinkUser
  <2>6. ASSUME NEW c \in Callbacks, Links!CreateOAuthUser(c)
        PROVE  Links!NoOrphanAccount'
    <3> DEFINE id == Links!NextId
               i == callbacks[c].ident
               name == <<Links!Local(callbacks[c].email), Links!Suffix(Links!Local(callbacks[c].email))>>
    <3>1. CASE UNCHANGED Links!tables
      BY <2>1, <3>1 DEF Links!tables
    <3>2. CASE /\ i \notin DOMAIN links
               /\ accounts' = Links!With(accounts, id, [name |-> name, email |-> callbacks[c].email,
                                                         oauth |-> TRUE])
               /\ links' = Links!With(links, i, id)
      <4> HIDE DEF id, i, name
      <4>1. \A j \in DOMAIN links : j \in DOMAIN links' /\ links'[j] = links[j]
        BY <3>2 DEF Links!With
      <4>2. i \in DOMAIN links' /\ links'[i] = id
        BY <3>2 DEF Links!With
      <4>3. \A u \in DOMAIN accounts' : u # id => u \in DOMAIN accounts /\ accounts'[u] = accounts[u]
        BY <3>2 DEF Links!With
      <4>4. QED
        BY <2>2, <4>1, <4>2, <4>3
    <3>3. QED
      BY <2>6, <3>1, <3>2 DEF Links!CreateOAuthUser
  <2>7. ASSUME NEW c \in Callbacks
        PROVE  /\ \A b \in Browsers : \A f, e, v : Links!Callback(c, b, f, e, v) => Links!NoOrphanAccount'
               /\ \A b \in Browsers : \A f : Links!RefuseCallback(c, b, f) => Links!NoOrphanAccount'
               /\ Links!ReadLink(c) \/ Links!ReadEmail(c) => Links!NoOrphanAccount'
               /\ Links!FinishLogin(c) \/ Links!Answer(c) => Links!NoOrphanAccount'
    BY <2>1 DEF Links!Callback, Links!RefuseCallback, Links!ReadLink, Links!ReadEmail,
                Links!FinishLogin, Links!Answer, Links!tables
  <2>8. /\ \A b : Links!Start(b) => Links!NoOrphanAccount'
        /\ \A f, i : Links!Authorize(f, i) => Links!NoOrphanAccount'
    BY <2>1 DEF Links!Start, Links!Authorize, Links!tables
  <2> HIDE DEF Links!NoOrphanAccount
  <2>9. QED
    BY <1>2, <2>3, <2>4, <2>5, <2>6, <2>7, <2>8 DEF Links!Next
<1>3. NoOrphanAccount /\ [Next]_<<part, limiter, twofa, oauth, server, throttle>> => NoOrphanAccount'
  <2> SUFFICES ASSUME NoOrphanAccount, part' = "links",
                      [Next]_<<part, limiter, twofa, oauth, server, throttle>>
               PROVE  Links!NoOrphanAccount'
    BY DEF NoOrphanAccount
  <2>1. Links!NoOrphanAccount /\ (Links!Next \/ UNCHANGED oauth)
    BY DEF Next, NoOrphanAccount
  <2>2. CASE UNCHANGED oauth
    BY <2>1, <2>2 DEF oauth, Links!NoOrphanAccount
  <2>3. QED
    BY <1>2, <2>1, <2>2
<1>4. QED
  BY <1>1, <1>3, PTL DEF Spec

\* A flow that is under way, or has opened a session, was started in its browser, and so
\* was the one a browser's cookies are for.
Began == {"fetched", "unlinked", "read", "resolved"}

Fetched == [phase : {"fetched"}, browser : LoginBrowsers, flow : Nat, ident : LoginIdents,
            email : Logins!Emails \cup {Logins!NoEmail}, verified : BOOLEAN]

FlowInv ==
  /\ flows \in Nat /\ DOMAIN starter = 1 .. flows
  /\ cookies \in [LoginBrowsers -> 0 .. flows]
  /\ \A b \in LoginBrowsers : cookies[b] # 0 => starter[cookies[b]] = b
  /\ \A f \in DOMAIN granted : granted[f] \in LoginIdents
  /\ callbacks = [c \in {Alone} |-> callbacks[Alone]]
  /\ callbacks[Alone].phase = "fetched" => callbacks[Alone] \in Fetched
  /\ callbacks[Alone].phase \in Began =>
       /\ callbacks[Alone].flow \in 1 .. flows
       /\ starter[callbacks[Alone].flow] = callbacks[Alone].browser
  /\ \A p \in opened : p[2] \in 1 .. flows /\ starter[p[2]] = p[1]

LEMMA FlowInit == Logins!Init => FlowInv
BY DEF Logins!Init, FlowInv, Logins!Empty, Logins!NoCall, Began

LEMMA FlowStep == FlowInv /\ Logins!Next => FlowInv'
<1> SUFFICES ASSUME FlowInv, Logins!Next PROVE FlowInv'
  OBVIOUS
<1>0. /\ flows \in Nat /\ DOMAIN starter = 1 .. flows
      /\ cookies \in [LoginBrowsers -> 0 .. flows]
      /\ callbacks = [c \in {Alone} |-> callbacks[Alone]]
  BY DEF FlowInv
\* A step of the request; it may clear the cookies of a browser.
<1>1. ASSUME UNCHANGED <<flows, starter, opened>>,
             \A f \in DOMAIN granted' : granted'[f] \in LoginIdents,
             cookies' = cookies \/ (\E b : cookies' = [cookies EXCEPT ![b] = 0]),
             NEW call, callbacks' = [callbacks EXCEPT ![Alone] = call],
             call.phase = "fetched" => call \in Fetched,
             call.phase \in Began => call.flow \in 1 .. flows /\ starter[call.flow] = call.browser
      PROVE  FlowInv'
  <2>1. callbacks' = [c \in {Alone} |-> callbacks'[Alone]] /\ callbacks'[Alone] = call
    BY <1>0, <1>1
  <2>2. /\ cookies' \in [LoginBrowsers -> 0 .. flows]
        /\ \A b \in LoginBrowsers : cookies'[b] # 0 => cookies'[b] = cookies[b]
    BY <1>0, <1>1
  <2>3. QED
    BY <1>0, <1>1, <2>1, <2>2 DEF FlowInv
\* A step of somebody else.
<1>2. ASSUME UNCHANGED <<cookies, flows, starter, callbacks, opened>>,
             \A f \in DOMAIN granted' : granted'[f] \in LoginIdents
      PROVE  FlowInv'
  BY <1>2 DEF FlowInv
\* A call that goes on with the flow it has.
<1>3. ASSUME UNCHANGED <<cookies, flows, starter, granted, opened>>, callbacks[Alone].phase \in Began,
             NEW call, call.phase # "fetched", callbacks' = [callbacks EXCEPT ![Alone] = call],
             call.flow = callbacks[Alone].flow, call.browser = callbacks[Alone].browser
      PROVE  FlowInv'
  BY <1>1, <1>3 DEF FlowInv
<1>4. ASSUME NEW c \in {Alone}, NEW b \in LoginBrowsers, NEW f \in 1 .. flows,
             NEW e \in Logins!Emails \cup {Logins!NoEmail}, NEW v \in BOOLEAN,
             Logins!Callback(c, b, f, e, v)
      PROVE  FlowInv'
  <2> DEFINE call == [phase |-> "fetched", browser |-> b, flow |-> f, ident |-> granted[f],
                      email |-> e, verified |-> v]
  <2>1. /\ UNCHANGED <<cookies, flows, starter, opened>> /\ cookies[b] = f /\ cookies[b] # 0
        /\ callbacks' = [callbacks EXCEPT ![Alone] = call]
    BY <1>4 DEF Logins!Callback, Logins!Returned, Logins!Become
  <2>2. call \in Fetched /\ \A g \in DOMAIN granted' : granted'[g] \in LoginIdents
    <3>1. f \in DOMAIN granted /\ granted' = Logins!Without(granted, f)
      BY <1>4 DEF Logins!Callback, Logins!Accepts
    <3>2. \A g \in DOMAIN granted : granted[g] \in LoginIdents
      BY DEF FlowInv
    <3>3. QED
      BY <1>0, <3>1, <3>2 DEF Fetched, Logins!Without
  <2>3. call.flow = f /\ call.browser = b /\ starter[f] = b
    BY <2>1 DEF FlowInv
  <2> HIDE DEF call
  <2>4. QED
    BY <1>1, <2>1, <2>2, <2>3
<1>5. ASSUME NEW c \in {Alone}, NEW b \in LoginBrowsers, NEW f \in 1 .. flows,
             Logins!RefuseCallback(c, b, f)
      PROVE  FlowInv'
  <2> DEFINE call == [phase |-> "refused", browser |-> b, flow |-> f]
  <2>1. /\ UNCHANGED <<cookies, flows, starter, granted, opened>>
        /\ callbacks' = [callbacks EXCEPT ![Alone] = call]
    BY <1>5 DEF Logins!RefuseCallback, Logins!Become, Logins!flow
  <2>2. call.phase \notin Began /\ call.phase # "fetched"
    BY DEF Began
  <2> HIDE DEF call
  <2>3. QED
    BY <1>1, <2>1, <2>2 DEF FlowInv
<1>6. ASSUME NEW c \in {Alone}, Logins!ReadLink(c) PROVE FlowInv'
  <2>0. /\ UNCHANGED <<cookies, flows, starter, granted, opened>>
        /\ callbacks[Alone].phase = "fetched" /\ callbacks[Alone].phase \in Began
        /\ callbacks[Alone] \in Fetched
    BY <1>6 DEF Logins!ReadLink, Logins!flow, FlowInv, Began
  <2>1. ASSUME NEW u, Logins!Resolved(c, u) PROVE FlowInv'
    BY <1>3, <2>0, <2>1 DEF Logins!Resolved, Logins!Become
  <2>2. ASSUME NEW why \in {"refused"}, Logins!Failed(c, why) PROVE FlowInv'
    BY <1>3, <2>0, <2>2 DEF Logins!Failed, Logins!Become
  <2>3. ASSUME callbacks' = [callbacks EXCEPT ![c].phase = "unlinked"] PROVE FlowInv'
    <3> DEFINE call == [callbacks[Alone] EXCEPT !.phase = "unlinked"]
    <3>1. callbacks' = [callbacks EXCEPT ![Alone] = call]
      BY <2>3
    <3>2. /\ call.phase = "unlinked" /\ call.flow = callbacks[Alone].flow
          /\ call.browser = callbacks[Alone].browser
      BY <2>0 DEF Fetched
    <3> HIDE DEF call
    <3>3. QED
      BY <1>3, <2>0, <3>1, <3>2
  <2>4. QED
    BY <1>6, <2>1, <2>2, <2>3 DEF Logins!ReadLink
<1>7. ASSUME NEW c \in {Alone}, Logins!ReadEmail(c) PROVE FlowInv'
  BY <1>3, <1>7 DEF Logins!ReadEmail, Logins!flow, Logins!Become, Began
<1>8. ASSUME NEW c \in {Alone}, NEW u, NEW why \in {"conflict"},
             callbacks[c].phase = "read", UNCHANGED <<Logins!flow, opened>>,
             Logins!Resolved(c, u) \/ Logins!Failed(c, why)
      PROVE  FlowInv'
  BY <1>3, <1>8 DEF Logins!flow, Logins!Become, Logins!Resolved, Logins!Failed, Began
<1>9. ASSUME NEW c \in {Alone}, Logins!LinkUser(c) PROVE FlowInv'
  <2>1. PICK u : Logins!Resolved(c, u) \/ Logins!Failed(c, "conflict")
    BY <1>9 DEF Logins!LinkUser
  <2>2. QED
    BY <1>8, <1>9, <2>1 DEF Logins!LinkUser
<1>10. ASSUME NEW c \in {Alone}, Logins!CreateOAuthUser(c) PROVE FlowInv'
  <2>1. PICK u : Logins!Resolved(c, u) \/ Logins!Failed(c, "conflict")
    BY <1>10 DEF Logins!CreateOAuthUser
  <2>2. QED
    BY <1>8, <1>10, <2>1 DEF Logins!CreateOAuthUser
<1>11. ASSUME NEW c \in {Alone}, Logins!FinishLogin(c) PROVE FlowInv'
  <2>1. /\ UNCHANGED <<flows, starter, granted>> /\ callbacks[Alone].phase \in Began
        /\ opened' = opened \cup {<<callbacks[Alone].browser, callbacks[Alone].flow>>}
        /\ cookies' = [cookies EXCEPT ![callbacks[Alone].browser] = 0]
        /\ callbacks' = [callbacks EXCEPT ![Alone] = Logins!NoCall]
    BY <1>11 DEF Logins!FinishLogin, Logins!Become, Began
  <2>2. \A p \in opened' : p[2] \in 1 .. flows /\ starter[p[2]] = p[1]
    BY <2>1 DEF FlowInv
  <2>3. /\ cookies' \in [LoginBrowsers -> 0 .. flows]
        /\ \A b \in LoginBrowsers : cookies'[b] # 0 => cookies'[b] = cookies[b]
    <3>1. PICK b : cookies' = [cookies EXCEPT ![b] = 0]
      BY <2>1
    <3>2. 0 \in 0 .. flows
      BY <1>0
    <3>3. QED
      BY <1>0, <3>1, <3>2
  <2>4. /\ callbacks' = [d \in {Alone} |-> callbacks'[Alone]]
        /\ callbacks'[Alone].phase = "none"
    BY <1>0, <2>1 DEF Logins!NoCall
  <2>5. QED
    BY <2>1, <2>2, <2>3, <2>4 DEF FlowInv, Began
<1>12. ASSUME NEW c \in {Alone}, Logins!Answer(c) PROVE FlowInv'
  BY <1>1, <1>12 DEF Logins!Answer, Logins!Become, Logins!NoCall, Began, FlowInv
<1>13. ASSUME NEW b \in LoginBrowsers, Logins!Start(b) PROVE FlowInv'
  <2>1. /\ flows' = flows + 1 /\ cookies' = [cookies EXCEPT ![b] = flows + 1]
        /\ starter' = [f \in 1 .. flows \cup {flows + 1} |->
                         IF f = flows + 1 THEN b ELSE starter[f]]
        /\ UNCHANGED <<granted, callbacks, opened>>
    BY <1>0, <1>13 DEF Logins!Start, Logins!With
  <2>2. /\ flows' \in Nat /\ 1 .. flows \cup {flows + 1} = 1 .. flows'
        /\ flows + 1 # 0
        /\ \A f \in 1 .. flows : f # flows + 1 /\ f \in 1 .. flows'
    BY <1>0, <2>1
  <2>3. /\ DOMAIN starter' = 1 .. flows' /\ starter'[flows + 1] = b
        /\ \A f \in 1 .. flows : starter'[f] = starter[f]
    BY <2>1, <2>2
  <2>4. /\ cookies' \in [LoginBrowsers -> 0 .. flows']
        /\ \A d \in LoginBrowsers : cookies'[d] # 0 => starter'[cookies'[d]] = d
    <3>1. 0 .. flows \subseteq 0 .. flows' /\ flows + 1 \in 0 .. flows'
      BY <1>0, <2>1
    <3>2. ASSUME NEW d \in LoginBrowsers, cookies'[d] # 0 PROVE starter'[cookies'[d]] = d
      <4>1. CASE d = b
        BY <1>0, <2>1, <2>3, <4>1
      <4>2. CASE d # b
        <5>1. cookies'[d] = cookies[d] /\ cookies[d] \in 0 .. flows /\ starter[cookies[d]] = d
          BY <1>0, <2>1, <3>2, <4>2 DEF FlowInv
        <5>2. cookies[d] \in 1 .. flows
          BY <1>0, <3>2, <5>1
        <5>3. QED
          BY <2>3, <5>1, <5>2
      <4>3. QED
        BY <4>1, <4>2
    <3>3. QED
      BY <1>0, <2>1, <3>1, <3>2
  <2>5. QED
    BY <2>1, <2>2, <2>3, <2>4 DEF FlowInv
<1>14. ASSUME NEW f, NEW i \in LoginIdents, Logins!Authorize(f, i) PROVE FlowInv'
  <2>1. /\ UNCHANGED <<cookies, flows, starter, callbacks, opened>>
        /\ granted' = Logins!With(granted, f, i)
    BY <1>14 DEF Logins!Authorize
  <2>2. \A g \in DOMAIN granted' : granted'[g] \in LoginIdents
    BY <2>1 DEF Logins!With, FlowInv
  <2>3. QED
    BY <1>2, <2>1, <2>2
<1>15. ASSUME NEW c \in {Alone}
       PROVE  /\ \A n, e : Logins!CreateUser(c, n, e) => FlowInv'
              /\ \A u : Logins!DeleteUser(c, u) => FlowInv'
  BY <1>2 DEF Logins!CreateUser, Logins!DeleteUser, Logins!flow, FlowInv
<1>16. QED
  BY <1>4, <1>5, <1>6, <1>7, <1>9, <1>10, <1>11, <1>12, <1>13, <1>14, <1>15 DEF Logins!Next

\* One request after the other, a session is opened only in the browser the flow was
\* started in, whatever the browsers, the flows and the order of the requests.
THEOREM SessionsAreOwn == Spec => []SessionFromOwnStart
<1> DEFINE Inv == part = "logins" => FlowInv
<1>1. Init => Inv
  BY FlowInit DEF Init
<1>2. Inv /\ [Next]_<<part, limiter, twofa, oauth, server, throttle>> => Inv'
  <2> SUFFICES ASSUME Inv, part' = "logins", [Next]_<<part, limiter, twofa, oauth, server, throttle>>
               PROVE  FlowInv'
    OBVIOUS
  <2>1. part = "logins" /\ FlowInv /\ (Logins!Next \/ UNCHANGED oauth)
    BY DEF Next
  <2>2. CASE UNCHANGED oauth
    BY <2>1, <2>2 DEF oauth, FlowInv
  <2>3. QED
    BY <2>1, <2>2, FlowStep
<1>3. Inv => SessionFromOwnStart
  BY DEF SessionFromOwnStart, Logins!SessionFromOwnStart, FlowInv
<1>4. QED
  BY <1>1, <1>2, <1>3, PTL DEF Spec

\* Account ids that are in use have a largest one.
LEMMA LargestId ==
  ASSUME NEW S \in SUBSET Nat, IsFiniteSet(S), S # {}
  PROVE  \E n \in S : \A m \in S : m <= n
<1> DEFINE Above(n) == {m \in S : m > n}
           T == {Above(n) : n \in S}
<1>1. T # {} /\ T \subseteq FiniteSubsetsOf(S)
  <2>1. \A n \in S : Above(n) \in SUBSET S /\ IsFiniteSet(Above(n))
    BY FS_Subset
  <2>2. QED
    BY <2>1 DEF FiniteSubsetsOf
<1>2. IsWellFoundedOn(StrictSubsetOrdering(S), FiniteSubsetsOf(S))
  BY FS_StrictSubsetOrderingWellFounded
<1>3. PICK t \in T : \A u \in T : <<u, t>> \notin StrictSubsetOrdering(S)
  <2> HIDE DEF T
  <2>1. QED
    BY <1>1, <1>2, WFMin
<1>4. PICK n \in S : t = Above(n)
  OBVIOUS
<1>5. ASSUME NEW m \in S, m > n
      PROVE  FALSE
  <2>1. Above(m) \in T /\ Above(m) \in SUBSET S /\ t \in SUBSET S
    BY <1>4
  <2>2. Above(m) \subseteq t /\ m \in t /\ m \notin Above(m)
    <3>1. m \in Nat /\ n \in Nat /\ \A x \in S : x \in Nat
      OBVIOUS
    <3>2. ~(m > m) /\ \A x \in S : x > m => x > n
      BY <1>5, <3>1
    <3>3. QED
      BY <1>4, <1>5, <3>2
  <2>3. <<Above(m), t>> \in StrictSubsetOrdering(S)
    BY <2>1, <2>2 DEF StrictSubsetOrdering
  <2>4. QED
    BY <1>3, <2>1, <2>3
<1>6. QED
  BY <1>5

\* A new account takes an id that is not in use.
LEMMA NextIdIsFree ==
  ASSUME DOMAIN accounts \subseteq Logins!Ids
  PROVE  Logins!NextId \notin DOMAIN accounts
<1> DEFINE S == DOMAIN accounts
<1>1. S \in SUBSET Nat /\ IsFiniteSet(S)
  <2>1. IsFiniteSet(1 .. MaxUsers)
    BY FS_Interval, FlowsAssumption
  <2>2. QED
    BY <2>1, FS_Subset, FlowsAssumption DEF Logins!Ids
<1>2. CASE S = {}
  BY <1>2
<1>3. CASE S # {}
  <2> DEFINE n == CHOOSE x \in S : \A m \in S : m <= x
  <2>1. n \in S /\ \A m \in S : m <= n
    BY <1>1, <1>3, LargestId
  <2>2. Logins!NextId = 1 + n
    <3>1. accounts # Logins!Empty
      BY <1>3 DEF Logins!Empty
    <3>2. QED
      BY <3>1 DEF Logins!NextId
  <2> HIDE DEF n
  <2>3. QED
    BY <1>1, <2>1, <2>2
<1>4. QED
  BY <1>2, <1>3

\* What a login has learnt of the email is still so when it writes.
LinkInv ==
  /\ DOMAIN accounts \subseteq Logins!Ids
  /\ proved = [i \in LoginIdents |-> proved[i]]
  /\ \A i \in DOMAIN links :
       i \in LoginIdents /\ links[i] \in DOMAIN accounts /\ accounts[links[i]].email \in proved[i]
  /\ LET call == callbacks[Alone]
     IN  /\ call.phase = "fetched" /\ call.verified => call.email \in proved[call.ident]
         /\ call.phase \in {"unlinked", "read"} =>
              call.ident \in LoginIdents /\ call.email \in proved[call.ident]
         /\ call.phase = "read" /\ call.user # 0 =>
              call.user \in DOMAIN accounts /\ accounts[call.user].email = call.email

LEMMA LinkInit == Logins!Init => LinkInv
BY DEF Logins!Init, LinkInv, Logins!Empty, Logins!NoCall

LEMMA LinkStep == FlowInv /\ LinkInv /\ Logins!Next => LinkInv'
<1> SUFFICES ASSUME FlowInv, LinkInv, Logins!Next PROVE LinkInv'
  OBVIOUS
<1>0. /\ callbacks = [c \in {Alone} |-> callbacks[Alone]]
      /\ callbacks[Alone].phase = "fetched" => callbacks[Alone] \in Fetched
      /\ DOMAIN accounts \subseteq Logins!Ids
      /\ Logins!NextId \notin DOMAIN accounts
  BY NextIdIsFree DEF FlowInv, LinkInv
\* Nothing is written.
<1>1. ASSUME UNCHANGED <<accounts, links, proved>>, NEW call,
             callbacks' = callbacks \/ callbacks' = [callbacks EXCEPT ![Alone] = call],
             /\ call.phase = "fetched" /\ call.verified => call.email \in proved[call.ident]
             /\ call.phase \in {"unlinked", "read"} =>
                  call.ident \in LoginIdents /\ call.email \in proved[call.ident]
             /\ call.phase = "read" /\ call.user # 0 =>
                  call.user \in DOMAIN accounts /\ accounts[call.user].email = call.email
      PROVE  LinkInv'
  <2>1. callbacks'[Alone] = callbacks[Alone] \/ callbacks'[Alone] = call
    BY <1>0, <1>1
  <2>2. QED
    BY <1>1, <2>1 DEF LinkInv
<1>2. ASSUME NEW c \in {Alone}, NEW n, NEW e, Logins!CreateUser(c, n, e) PROVE LinkInv'
  <2> DEFINE id == Logins!NextId
             user == [name |-> n, email |-> e, oauth |-> FALSE]
  <2>1. /\ accounts' = [u \in DOMAIN accounts \cup {id} |-> IF u = id THEN user ELSE accounts[u]]
        /\ id \in Logins!Ids /\ UNCHANGED <<links, callbacks, proved>>
        /\ callbacks[Alone].phase = "none"
    BY <1>2 DEF Logins!CreateUser, Logins!With, Logins!NoCall
  <2> HIDE DEF id, user
  <2>2. \A u \in DOMAIN accounts : u \in DOMAIN accounts' /\ accounts'[u] = accounts[u]
    BY <1>0, <2>1 DEF id
  <2>3. DOMAIN accounts' \subseteq Logins!Ids
    BY <1>0, <2>1
  <2>4. QED
    BY <2>1, <2>2, <2>3 DEF LinkInv
<1>3. ASSUME NEW c \in {Alone}, NEW u, Logins!DeleteUser(c, u) PROVE LinkInv'
  <2>1. /\ accounts' = [y \in DOMAIN accounts \ {u} |-> accounts[y]]
        /\ links' = [i \in {j \in DOMAIN links : links[j] # u} |-> links[i]]
        /\ UNCHANGED <<callbacks, proved>> /\ callbacks[Alone].phase = "none"
    BY <1>3 DEF Logins!DeleteUser, Logins!Without, Logins!NoCall
  <2>2. QED
    BY <2>1 DEF LinkInv
<1>4. ASSUME NEW c \in {Alone}, NEW b \in LoginBrowsers, NEW f \in 1 .. flows,
             NEW e \in Logins!Emails \cup {Logins!NoEmail}, NEW v \in BOOLEAN,
             Logins!Callback(c, b, f, e, v)
      PROVE  LinkInv'
  <2> DEFINE i == granted[f]
             call == [phase |-> "fetched", browser |-> b, flow |-> f, ident |-> i,
                      email |-> e, verified |-> v]
  <2>1. /\ UNCHANGED <<accounts, links>> /\ i \in LoginIdents
        /\ callbacks' = [callbacks EXCEPT ![Alone] = call]
        /\ proved' = IF v THEN [proved EXCEPT ![i] = proved[i] \cup {e}] ELSE proved
    BY <1>4 DEF Logins!Callback, Logins!Become, Logins!tables, Logins!Accepts, FlowInv
  <2>2. callbacks'[Alone] = call /\ call.phase = "fetched" /\ call.verified = v /\ call.email = e
        /\ call.ident = i
    BY <1>0, <2>1
  <2> HIDE DEF call, i
  <2>3. /\ proved' = [j \in LoginIdents |-> proved'[j]]
        /\ v => e \in proved'[i]
        /\ \A j : j \in LoginIdents => proved[j] \subseteq proved'[j]
    <3>1. CASE v
      <4>1. proved' = [proved EXCEPT ![i] = proved[i] \cup {e}] /\ DOMAIN proved = LoginIdents
        BY <2>1, <3>1 DEF LinkInv
      <4>2. QED
        BY <2>1, <4>1
    <3>2. CASE ~v
      BY <2>1, <3>2 DEF LinkInv
    <3>3. QED
      BY <3>1, <3>2
  <2>4. QED
    BY <2>1, <2>2, <2>3 DEF LinkInv
<1>5. ASSUME NEW c \in {Alone}, NEW b, NEW f, Logins!RefuseCallback(c, b, f) PROVE LinkInv'
  BY <1>1, <1>5 DEF Logins!RefuseCallback, Logins!Become, Logins!tables
<1>6. ASSUME NEW c \in {Alone}, Logins!ReadLink(c) PROVE LinkInv'
  <2>0. /\ UNCHANGED <<accounts, links, proved>>
        /\ callbacks[Alone].phase = "fetched" /\ callbacks[Alone] \in Fetched
    BY <1>0, <1>6 DEF Logins!ReadLink, Logins!tables
  <2>1. ASSUME NEW u, Logins!Resolved(c, u) PROVE LinkInv'
    BY <1>1, <2>0, <2>1 DEF Logins!Resolved, Logins!Become
  <2>2. ASSUME Logins!Failed(c, "refused") PROVE LinkInv'
    BY <1>1, <2>0, <2>2 DEF Logins!Failed, Logins!Become
  <2>3. ASSUME callbacks' = [callbacks EXCEPT ![c].phase = "unlinked"],
               Logins!MayLink(callbacks[c])
        PROVE  LinkInv'
    <3> DEFINE call == [callbacks[Alone] EXCEPT !.phase = "unlinked"]
    <3>1. callbacks' = [callbacks EXCEPT ![Alone] = call]
      BY <2>3
    <3>2. /\ call.phase = "unlinked" /\ call.email = callbacks[Alone].email
          /\ call.ident = callbacks[Alone].ident
      BY <2>0 DEF Fetched
    <3>3. /\ callbacks[Alone].ident \in LoginIdents
          /\ callbacks[Alone].email \in proved[callbacks[Alone].ident]
      BY <2>0, <2>3 DEF LinkInv, Logins!MayLink, Fetched
    <3> HIDE DEF call
    <3>4. QED
      BY <1>1, <2>0, <3>1, <3>2, <3>3
  <2>4. QED
    BY <1>6, <2>1, <2>2, <2>3 DEF Logins!ReadLink
<1>7. ASSUME NEW c \in {Alone}, Logins!ReadEmail(c) PROVE LinkInv'
  <2> DEFINE old == callbacks[Alone]
  <2>1. /\ UNCHANGED <<accounts, links, proved>> /\ old.phase = "unlinked"
        /\ \E u \in IF Logins!OfEmail(old.email) = {} THEN {0} ELSE Logins!OfEmail(old.email) :
             callbacks' = [callbacks EXCEPT ![Alone] =
                             [phase |-> "read", browser |-> old.browser, flow |-> old.flow,
                              ident |-> old.ident, email |-> old.email, user |-> u]]
    BY <1>7 DEF Logins!ReadEmail, Logins!Become, Logins!tables
  <2>2. PICK u : /\ u = 0 \/ (u \in DOMAIN accounts /\ accounts[u].email = old.email)
                 /\ callbacks' = [callbacks EXCEPT ![Alone] =
                                    [phase |-> "read", browser |-> old.browser, flow |-> old.flow,
                                     ident |-> old.ident, email |-> old.email, user |-> u]]
    BY <2>1 DEF Logins!OfEmail
  <2>3. old.ident \in LoginIdents /\ old.email \in proved[old.ident]
    BY <2>1 DEF LinkInv
  <2> HIDE DEF old
  <2>4. QED
    BY <1>1, <2>1, <2>2, <2>3
<1>8. ASSUME NEW c \in {Alone}, Logins!LinkUser(c) PROVE LinkInv'
  <2> DEFINE i == callbacks[Alone].ident
             u == callbacks[Alone].user
  <2>0. /\ UNCHANGED <<accounts, proved>> /\ callbacks[Alone].phase = "read" /\ u # 0
    BY <1>8 DEF Logins!LinkUser
  <2>1. CASE Logins!Failed(c, "conflict") /\ UNCHANGED links
    BY <1>1, <2>0, <2>1 DEF Logins!Failed, Logins!Become
  <2>2. CASE /\ i \notin DOMAIN links
             /\ links' = Logins!With(links, i, u)
             /\ Logins!Resolved(c, u)
    <3>1. callbacks'[Alone].phase = "resolved"
      BY <1>0, <2>2 DEF Logins!Resolved, Logins!Become
    <3>2. i \in LoginIdents /\ u \in DOMAIN accounts /\ accounts[u].email \in proved[i]
      BY <2>0 DEF LinkInv
    <3> HIDE DEF i, u
    <3>3. \A j \in DOMAIN links' : \/ j = i /\ links'[j] = u
                                   \/ j \in DOMAIN links /\ links'[j] = links[j]
      BY <2>2 DEF Logins!With
    <3>4. QED
      BY <2>0, <3>1, <3>2, <3>3 DEF LinkInv
  <2>3. QED
    BY <1>8, <2>1, <2>2 DEF Logins!LinkUser
<1>9. ASSUME NEW c \in {Alone}, Logins!CreateOAuthUser(c) PROVE LinkInv'
  <2> DEFINE i == callbacks[Alone].ident
             e == callbacks[Alone].email
             id == Logins!NextId
             user == [name |-> <<Logins!Local(e), Logins!Suffix(Logins!Local(e))>>, email |-> e,
                      oauth |-> TRUE]
  <2>0. UNCHANGED proved /\ callbacks[Alone].phase = "read" /\ id \in Logins!Ids
    BY <1>9 DEF Logins!CreateOAuthUser
  <2>1. CASE Logins!Failed(c, "conflict") /\ UNCHANGED Logins!tables
    BY <1>1, <2>0, <2>1 DEF Logins!Failed, Logins!Become, Logins!tables
  <2>2. CASE /\ accounts' = Logins!With(accounts, id, user)
             /\ links' = Logins!With(links, i, id)
             /\ Logins!Resolved(c, id)
    <3>1. callbacks'[Alone].phase = "resolved"
      BY <1>0, <2>2 DEF Logins!Resolved, Logins!Become
    <3>2. i \in LoginIdents /\ user.email = e /\ e \in proved[i]
      BY <2>0 DEF LinkInv
    <3> HIDE DEF i, id, e, user
    <3>3. /\ id \in DOMAIN accounts' /\ accounts'[id] = user
          /\ \A u \in DOMAIN accounts : u \in DOMAIN accounts' /\ accounts'[u] = accounts[u]
          /\ DOMAIN accounts' \subseteq Logins!Ids
      BY <1>0, <2>0, <2>2 DEF Logins!With, id
    <3>4. \A j \in DOMAIN links' : \/ j = i /\ links'[j] = id
                                   \/ j \in DOMAIN links /\ links'[j] = links[j]
      BY <2>2 DEF Logins!With
    <3>5. QED
      BY <2>0, <3>1, <3>2, <3>3, <3>4 DEF LinkInv
  <2>3. QED
    BY <1>9, <2>1, <2>2 DEF Logins!CreateOAuthUser
<1>10. ASSUME NEW c \in {Alone}, Logins!FinishLogin(c) \/ Logins!Answer(c) PROVE LinkInv'
  BY <1>1, <1>10 DEF Logins!FinishLogin, Logins!Answer, Logins!Become, Logins!NoCall, Logins!tables
<1>11. /\ \A b : Logins!Start(b) => LinkInv'
       /\ \A f, i : Logins!Authorize(f, i) => LinkInv'
  BY DEF Logins!Start, Logins!Authorize, Logins!tables, LinkInv
<1>12. QED
  BY <1>2, <1>3, <1>4, <1>5, <1>6, <1>7, <1>8, <1>9, <1>10, <1>11 DEF Logins!Next

\* One request after the other, an identity is linked only to an account whose email
\* the provider has vouched for, whatever accounts the administrator makes and deletes
\* in between, and although the ids of deleted accounts return.
THEOREM LinksAreVouchedFor == Spec => []LinkMatchesEmail
<1> DEFINE Inv == part = "logins" => FlowInv /\ LinkInv
<1>1. Init => Inv
  BY FlowInit, LinkInit DEF Init
<1>2. Inv /\ [Next]_<<part, limiter, twofa, oauth, server, throttle>> => Inv'
  <2> SUFFICES ASSUME Inv, part' = "logins", [Next]_<<part, limiter, twofa, oauth, server, throttle>>
               PROVE  FlowInv' /\ LinkInv'
    OBVIOUS
  <2>1. part = "logins" /\ FlowInv /\ LinkInv /\ (Logins!Next \/ UNCHANGED oauth)
    BY DEF Next
  <2>2. CASE UNCHANGED oauth
    BY <2>1, <2>2 DEF oauth, FlowInv, LinkInv
  <2>3. QED
    BY <2>1, <2>2, FlowStep, LinkStep
<1>3. Inv => LinkMatchesEmail
  BY DEF LinkMatchesEmail, Logins!LinkMatchesEmail, LinkInv
<1>4. QED
  BY <1>1, <1>2, <1>3, PTL DEF Spec
===============================================================================
