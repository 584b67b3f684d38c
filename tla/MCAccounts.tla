------------------------------ MODULE MCAccounts ------------------------------
(***************************************************************************)
(* Logins, accounts, the throttle and the start of the server, for TLC:    *)
(* small instances of independent modules, of which one is chosen at the   *)
(* start and the others stand still.                                       *)
(*   limiter   LoginLimiter: attempts side by side;                        *)
(*   twofa     TwoFactor: requests side by side;                           *)
(*   setup     TwoFactor: one request after the other;                     *)
(*   links     OAuthLink: two callbacks side by side;                      *)
(*   logins    OAuthLink: one request after the other, two browsers;       *)
(*   start     ServerStart: starts that are cut off at any step;           *)
(*   throttle  RateLimit: two clients and a sweep.                         *)
(***************************************************************************)
EXTENDS Naturals, FiniteSets, TLC

CONSTANTS
  Slots,      \* of attempts and of requests side by side
  Alone,      \* the slot of requests one after the other
  Accounts, Addresses, MaxFails,
  MaxSecrets, MaxBatches, PerBatch, MaxUses,
  Callbacks,  \* slots of callbacks side by side
  Browsers,   \* of callbacks side by side
  Idents,     \* of callbacks side by side
  LoginBrowsers, LoginIdents,   \* of requests one after the other
  Locals, Domains, MaxFlows, MaxUsers, MaxSuffix,
  Versions, MaxKeys, MaxStarts, MaxRotations,
  Clients, Token, Rate, Burst, Idle, Every, MaxTime, MaxGranted

ASSUME SlotsAssumption == IsFiniteSet(Slots)
\* LOGIN_MAX_FAILS; 0 turns the lockout off.
ASSUME FailsAssumption == MaxFails \in Nat \ {0}
ASSUME CodesAssumption ==
  /\ MaxSecrets \in Nat /\ MaxBatches \in Nat /\ PerBatch \in Nat /\ MaxUses \in Nat
ASSUME FlowsAssumption == MaxFlows \in Nat /\ MaxUsers \in Nat /\ MaxSuffix \in Nat
ASSUME StartsAssumption ==
  Versions \in Nat /\ MaxKeys \in Nat \ {0} /\ MaxStarts \in Nat /\ MaxRotations \in Nat

VARIABLES
  part,
  fails, until, attempts,
  row, codes, secrets, batches, pending, steps, confirmed, uses,
  accounts, links, cookies, flows, starter, granted, callbacks, proved, opened,
  env, files, applied, version, admins, sealed, signed, phase, key, made, starts, rotations,
  now, buckets, lastSweep, passed

limiter == <<fails, until, attempts>>
twofa   == <<row, codes, secrets, batches, pending, steps, confirmed, uses>>
oauth   == <<accounts, links, cookies, flows, starter, granted, callbacks, proved, opened>>
server  == <<env, files, applied, version, admins, sealed, signed, phase, key, made, starts,
             rotations>>
throttle == <<now, buckets, lastSweep, passed>>

Limiter == INSTANCE LoginLimiter WITH calls <- attempts, Calls <- Slots

TwoFA == INSTANCE TwoFactor WITH calls <- steps, Calls <- Slots
Setup == INSTANCE TwoFactor WITH calls <- steps, Calls <- {Alone}

Links  == INSTANCE OAuthLink
            WITH users <- accounts, codes <- granted, calls <- callbacks, Calls <- Callbacks,
                 ChecksPKCE <- FALSE
Logins == INSTANCE OAuthLink
            WITH users <- accounts, codes <- granted, calls <- callbacks, Calls <- {Alone},
                 Browsers <- LoginBrowsers, Idents <- LoginIdents, ChecksPKCE <- FALSE

Server == INSTANCE ServerStart WITH users <- admins

Throttle == INSTANCE RateLimit WITH granted <- passed, Keys <- Clients

ASSUME ThrottleAssumption == Throttle!Settings

Init ==
  /\ part \in {"limiter", "twofa", "setup", "links", "logins", "start", "throttle"}
  /\ Limiter!Init /\ Throttle!Init
  /\ IF part = "setup" THEN Setup!Init ELSE TwoFA!Init
  /\ IF part = "logins" THEN Logins!Init ELSE Links!Init
  /\ Server!Init /\ (part # "start" => env = 0)

Next ==
  /\ UNCHANGED part
  /\ \/ part = "limiter" /\ Limiter!Next /\ UNCHANGED <<twofa, oauth, server, throttle>>
     \/ part = "twofa" /\ TwoFA!Next /\ UNCHANGED <<limiter, oauth, server, throttle>>
     \/ part = "setup" /\ Setup!Next /\ UNCHANGED <<limiter, oauth, server, throttle>>
     \/ part = "links" /\ Links!Next /\ UNCHANGED <<limiter, twofa, server, throttle>>
     \/ part = "logins" /\ Logins!Next /\ UNCHANGED <<limiter, twofa, server, throttle>>
     \/ part = "start" /\ Server!Next /\ UNCHANGED <<limiter, twofa, oauth, throttle>>
     \/ part = "throttle" /\ Throttle!Next /\ UNCHANGED <<limiter, twofa, oauth, server>>

Spec == Init /\ [][Next]_<<part, limiter, twofa, oauth, server, throttle>>

-----------------------------------------------------------------------------
(* The properties of the modules *)

\* Wrong attempts exceed the threshold by no more than were under way side by side.
FailuresBounded == Limiter!FailuresBounded

\* A backup code opens one login.
BackupCodeOnce == part = "twofa" => TwoFA!BackupCodeOnce

\* One request after the other, what is active has been shown to work.
EnabledIsConfirmed == part = "setup" => Setup!EnabledIsConfirmed

\* An account made by a login is linked as long as it exists.
NoOrphanAccount == part = "links" => Links!NoOrphanAccount

\* One request after the other, a link follows an email the provider vouched for.
LinkMatchesEmail == part = "logins" => Logins!LinkMatchesEmail

\* A session is opened only in the browser that started the flow.
SessionFromOwnStart == part = "logins" => Logins!SessionFromOwnStart

\* The schema is always the one user_version says.
SchemaIsVersion == Server!SchemaIsVersion

\* What an earlier process sealed or signed the running one can read.
KeysOutliveRestarts == Server!KeysOutliveRestarts

\* The limiter is a bucket for each client, which forgets only those long idle.
ImplementsTokenBucket == Throttle!ImplementsTokenBucket

\* For TLC: slots of requests are interchangeable, and the domains of emails.
Interchangeable == Permutations(Callbacks) \cup Permutations(Domains)
===============================================================================
