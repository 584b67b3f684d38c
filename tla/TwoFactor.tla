------------------------------ MODULE TwoFactor ------------------------------
(***************************************************************************)
(* Two-factor authentication of one account: setup, activation, removal    *)
(* and the second step of a login (server/internal/auth/twofa.go,          *)
(* login.go, api/handlers_auth.go).                                        *)
(*                                                                         *)
(* Secrets are loaded on the read pool; what follows is decided by the     *)
(* loaded value and written in a later transaction.  Secrets and backup    *)
(* codes are random, so they are numbered in the order they are made, and  *)
(* a code of the authenticator stands for the secret it was made from.     *)
(***************************************************************************)
EXTENDS Naturals, TLC

CONSTANTS
  Calls,        \* bound: requests in flight
  MaxSecrets,   \* bound: secrets ever made
  MaxBatches,   \* bound: sets of backup codes ever made
  PerBatch,     \* backup codes of a set, 10 in the code
  MaxUses       \* bound: how often a backup code is counted as used

Secrets == 1 .. MaxSecrets
CodeIds == 1 .. MaxBatches * PerBatch
NoRow   == [secret |-> 0, enabled |-> FALSE]   \* no row: loadSecret reads it so
NoCall  == [phase |-> "none"]

VARIABLES
  row,        \* the account's row of user_2fa, or NoRow
  codes,      \* user_backup_codes: code |-> used
  secrets,    \* number of secrets made
  batches,    \* number of sets of backup codes made
  pending,    \* whether the browser holds a pending token
  calls,      \* requests in flight
  confirmed,  \* history: secrets an activation has seen a valid code of
  uses        \* history: logins each backup code has opened

vars == <<row, codes, secrets, batches, pending, calls, confirmed, uses>>

Batch(b) == (b - 1) * PerBatch + 1 .. b * PerBatch
None == [c \in {} |-> FALSE]

Init ==
  /\ row = NoRow /\ codes = None /\ secrets = 0 /\ batches = 0
  /\ pending = FALSE
  /\ calls = [c \in Calls |-> NoCall]
  /\ confirmed = {} /\ uses = [b \in CodeIds |-> 0]

Done(c) == calls' = [calls EXCEPT ![c] = NoCall]

-----------------------------------------------------------------------------
(* Settings *)

\* Mutant of Setup2FA: an upsert that replaces the secret and leaves enabled alone.
SetupActive(c) ==
  /\ calls[c] = NoCall
  /\ secrets < MaxSecrets
  /\ secrets' = secrets + 1
  /\ row' = [row EXCEPT !.secret = secrets + 1]
  /\ UNCHANGED <<codes, batches, pending, calls, confirmed, uses>>

\* One upsert, which also turns an active second factor off.
Setup2FA(c) ==
  /\ calls[c] = NoCall
  /\ secrets < MaxSecrets                            \* bound
  /\ secrets' = secrets + 1
  /\ row' = [secret |-> secrets + 1, enabled |-> FALSE]
  /\ UNCHANGED <<codes, batches, pending, calls, confirmed, uses>>

\* Enable2FA, up to the validation: the code was made from the secret that is read.
BeginEnable2FA(c) ==
  /\ calls[c] = NoCall
  /\ row # NoRow
  /\ confirmed' = confirmed \cup {row.secret}
  /\ calls' = [calls EXCEPT ![c] = [phase |-> "validated"]]
  /\ UNCHANGED <<row, codes, secrets, batches, pending, uses>>

NewCodes == codes' = [b \in Batch(batches + 1) |-> FALSE]

\* Its transaction: the row, whatever secret it holds by now, is enabled if there
\* is one, and the codes are replaced.
FinishEnable2FA(c) ==
  /\ calls[c].phase = "validated"
  /\ batches < MaxBatches                            \* bound
  /\ row' = IF row = NoRow THEN NoRow ELSE [row EXCEPT !.enabled = TRUE]
  /\ NewCodes
  /\ batches' = batches + 1
  /\ Done(c)
  /\ UNCHANGED <<secrets, pending, confirmed, uses>>

\* Disable2FA: the row and the codes, in one transaction.
Disable2FA(c) ==
  /\ calls[c] = NoCall
  /\ row' = NoRow /\ codes' = None
  /\ UNCHANGED <<secrets, batches, pending, calls, confirmed, uses>>

-----------------------------------------------------------------------------
(* Login *)

\* finishLogin after the right password: with a second factor the answer is only
\* a pending token, which stays valid for five minutes and any number of tries.
Login(c) ==
  /\ calls[c] = NoCall
  /\ row.enabled /\ pending' = TRUE
  /\ UNCHANGED <<row, codes, secrets, batches, calls, confirmed, uses>>

ExpirePending ==
  /\ pending /\ pending' = FALSE
  /\ UNCHANGED <<row, codes, secrets, batches, calls, confirmed, uses>>

\* CompleteTwoFA with an authenticator code: right if made from the loaded secret
\* while that is active.
VerifyTOTP(c, secret) ==
  /\ calls[c] = NoCall
  /\ pending
  /\ row.enabled /\ row.secret = secret
  /\ calls' = [calls EXCEPT ![c] = [phase |-> "proved"]]
  /\ UNCHANGED <<row, codes, secrets, batches, pending, confirmed, uses>>

\* VerifyTwoFA, up to loadSecret: the code is none of the authenticator's, so it
\* is taken for a backup code.
BeginBackupCode(c, code) ==
  /\ calls[c] = NoCall
  /\ pending
  /\ row.enabled
  /\ calls' = [calls EXCEPT ![c] = [phase |-> "loaded", code |-> code]]
  /\ UNCHANGED <<row, codes, secrets, batches, pending, confirmed, uses>>

Count(code) == uses' = [uses EXCEPT ![code] = IF @ < MaxUses THEN @ + 1 ELSE @]

\* Mutant of ConsumeBackupCode: used_at is not looked at.
ConsumeAnyCode(c) ==
  /\ calls[c].phase = "loaded"
  /\ calls[c].code \in DOMAIN codes
  /\ codes' = [codes EXCEPT ![calls[c].code] = TRUE]
  /\ Count(calls[c].code)
  /\ calls' = [calls EXCEPT ![c] = [phase |-> "proved"]]
  /\ UNCHANGED <<row, secrets, batches, pending, confirmed>>

\* consumeBackupCode: one UPDATE that finds the code unused and marks it.
ConsumeBackupCode(c) ==
  /\ calls[c].phase = "loaded"
  /\ LET code == calls[c].code
     IN  \/ /\ code \in DOMAIN codes /\ ~codes[code]
            /\ codes' = [codes EXCEPT ![code] = TRUE]
            /\ Count(code)
            /\ calls' = [calls EXCEPT ![c] = [phase |-> "proved"]]
         \/ /\ code \notin DOMAIN codes \/ (code \in DOMAIN codes /\ codes[code])
            /\ Done(c)
            /\ UNCHANGED <<codes, uses>>
  /\ UNCHANGED <<row, secrets, batches, pending, confirmed>>

\* IssueTokens, and the pending cookie is cleared.
CompleteTwoFA(c) ==
  /\ calls[c].phase = "proved"
  /\ pending' = FALSE
  /\ Done(c)
  /\ UNCHANGED <<row, codes, secrets, batches, confirmed, uses>>

\* A statement fails and its transaction is rolled back; a backup code that has
\* been consumed in an earlier statement stays consumed.
ServerError(c) ==
  /\ calls[c] # NoCall
  /\ Done(c)
  /\ UNCHANGED <<row, codes, secrets, batches, pending, confirmed, uses>>

Next ==
  \/ \E c \in Calls :
       \/ Setup2FA(c) \/ BeginEnable2FA(c) \/ FinishEnable2FA(c) \/ Disable2FA(c)
       \/ Login(c)
       \/ \E secret \in 1 .. secrets : VerifyTOTP(c, secret)
       \/ \E code \in CodeIds : BeginBackupCode(c, code)
       \/ ConsumeBackupCode(c) \/ CompleteTwoFA(c) \/ ServerError(c)
  \/ ExpirePending

Spec == Init /\ [][Next]_vars

-----------------------------------------------------------------------------
(* What must hold *)

Call == [phase : {"validated", "proved"}] \cup [phase : {"loaded"}, code : CodeIds] \cup {NoCall}

\* Type invariant of the tables, the requests and the histories.
TypeOK ==
  /\ row \in [secret : 0 .. MaxSecrets, enabled : BOOLEAN]
  /\ row.secret <= secrets /\ (row.secret = 0 => row = NoRow)
  /\ DOMAIN codes \subseteq CodeIds /\ codes \in [DOMAIN codes -> BOOLEAN]
  /\ secrets \in 0 .. MaxSecrets /\ batches \in 0 .. MaxBatches
  /\ pending \in BOOLEAN
  /\ calls \in [Calls -> Call]
  /\ confirmed \subseteq Secrets
  /\ uses \in [CodeIds -> 0 .. MaxUses]

\* A backup code opens one login: not two that race for it, and none after the
\* codes have been replaced and made again.
BackupCodeOnce == \A b \in CodeIds : uses[b] <= 1

\* What is active has been shown to work: setup never leaves the account with a
\* secret nobody has entered a code of.
EnabledIsConfirmed == row.enabled => row.secret \in confirmed
==============================================================================
