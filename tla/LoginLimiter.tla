---------------------------- MODULE LoginLimiter ----------------------------
(***************************************************************************)
(* The lockout of failed logins (server/internal/auth/limiter.go) and the  *)
(* two procedures that use it (server/internal/auth/login.go).             *)
(*                                                                         *)
(* Allowed, Fail and Reset are critical sections of one mutex; the slow    *)
(* check of the password or the code runs between them, without it, so     *)
(* attempts on a key overlap.  A lock carries the time it ends at: here it *)
(* is "locked" until then and "over" afterwards.                           *)
(***************************************************************************)
EXTENDS Naturals, Sequences, FiniteSets, TLC

CONSTANTS
  Accounts, Addresses,
  Calls,      \* bound: attempts in flight
  MaxFails    \* LOGIN_MAX_FAILS

VARIABLES
  fails,   \* failures counted per key
  until,   \* the lock of each key: "none", "locked" or "over"
  calls    \* attempts in flight

vars == <<fails, until, calls>>

\* "u:" + username, "ip:" + address and "2fa:" + user id.
Keys == ({"u", "2fa"} \X Accounts) \cup ({"ip"} \X Addresses)

\* The keys an attempt is counted under, in the order Login looks at them.
PasswordKeys == {<<u, ip>> : u \in {"u"} \X Accounts, ip \in {"ip"} \X Addresses}
CodeKeys     == {<<k>> : k \in {"2fa"} \X Accounts}

NoCall  == [phase |-> "none", keys |-> <<>>, at |-> 1]
\* at: the position in keys the attempt has come to.
Attempt == [phase : {"asking", "checking", "right", "failing"},
            keys : PasswordKeys \cup CodeKeys, at : 1 .. 2]

Init ==
  /\ fails = [k \in Keys |-> 0]
  /\ until = [k \in Keys |-> "none"]
  /\ calls = [c \in Calls |-> NoCall]

Key(c)  == calls[c].keys[calls[c].at]

IsLast(c) == calls[c].at = Len(calls[c].keys)

\* The attempt goes on to its next key, or to phase after the last one.
Advance(c, phase) ==
  calls' = [calls EXCEPT ![c] = IF IsLast(c) THEN [calls[c] EXCEPT !.phase = phase, !.at = 1]
                                ELSE [calls[c] EXCEPT !.at = calls[c].at + 1]]
End(c) == calls' = [calls EXCEPT ![c] = NoCall]

-----------------------------------------------------------------------------
Begin(c, keys) ==
  /\ calls[c] = NoCall
  /\ calls' = [calls EXCEPT ![c] = [phase |-> "asking", keys |-> keys, at |-> 1]]
  /\ UNCHANGED <<fails, until>>

\* Mutant of Allowed: an attempt is let in although its key is locked.
AllowedAnyway(c) ==
  /\ calls[c].phase = "asking"
  /\ Advance(c, "checking")
  /\ UNCHANGED <<fails, until>>

\* Allowed: a lock that is over is forgotten, with the failures that led to it.
Allowed(c) ==
  /\ calls[c].phase = "asking"
  /\ \/ /\ until[Key(c)] = "locked"                  \* ErrLocked
        /\ End(c)
        /\ UNCHANGED <<fails, until>>
     \/ /\ until[Key(c)] = "over"
        /\ until' = [until EXCEPT ![Key(c)] = "none"]
        /\ fails' = [fails EXCEPT ![Key(c)] = 0]
        /\ Advance(c, "checking")
     \/ /\ until[Key(c)] = "none"
        /\ Advance(c, "checking")
        /\ UNCHANGED <<fails, until>>

\* The password, or the code, is right or not.  A check of a code that breaks off
\* with an error ends the attempt uncounted.
Verify(c) ==
  /\ calls[c].phase = "checking"
  /\ \/ \E outcome \in {"right", "failing"} : calls' = [calls EXCEPT ![c].phase = outcome]
     \/ calls[c].keys \in CodeKeys /\ End(c)
  /\ UNCHANGED <<fails, until>>

\* Fail, for one key after the other; at the threshold, and at every failure after
\* it, the lock starts anew.
Fail(c) ==
  /\ calls[c].phase = "failing"
  /\ fails' = [fails EXCEPT ![Key(c)] = @ + 1]
  /\ until' = [until EXCEPT ![Key(c)] = IF fails[Key(c)] + 1 >= MaxFails THEN "locked" ELSE @]
  /\ IF IsLast(c) THEN End(c) ELSE Advance(c, "failing")

\* Reset: of the account's key alone; failures of the address stay counted.
Reset(c) ==
  /\ calls[c].phase = "right"
  /\ fails' = [fails EXCEPT ![calls[c].keys[1]] = 0]
  /\ until' = [until EXCEPT ![calls[c].keys[1]] = "none"]
  /\ End(c)

\* The end of a lock comes.
Elapse(k) ==
  /\ until[k] = "locked"
  /\ until' = [until EXCEPT ![k] = "over"]
  /\ UNCHANGED <<fails, calls>>

Next ==
  \/ \E c \in Calls :
       \/ \E keys \in PasswordKeys \cup CodeKeys : Begin(c, keys)
       \/ Allowed(c) \/ Verify(c) \/ Fail(c) \/ Reset(c)
  \/ \E k \in Keys : Elapse(k)

Spec == Init /\ [][Next]_vars

-----------------------------------------------------------------------------
(* What must hold *)

\* Type invariant of the counters, the locks and the attempts.
TypeOK ==
  /\ fails \in [Keys -> Nat]
  /\ until \in [Keys -> {"none", "locked", "over"}]
  /\ calls \in [Calls -> Attempt \cup {NoCall}]
  /\ \A c \in Calls : calls[c] # NoCall => calls[c].at <= Len(calls[c].keys)

\* Attempts that were let in for key k and may still fail.
Pending(k) ==
  {c \in Calls : \E i \in DOMAIN calls[c].keys :
     /\ calls[c].keys[i] = k
     /\ \/ calls[c].phase = "asking" /\ i < calls[c].at
        \/ calls[c].phase \in {"checking", "right"}
        \/ calls[c].phase = "failing" /\ i >= calls[c].at}

\* Between two locks a key gets the configured number of wrong attempts and no
\* more on top than were under way side by side.
FailuresBounded ==
  \A k \in Keys : fails[k] + Cardinality(Pending(k)) <= MaxFails - 1 + Cardinality(Calls)
==============================================================================
