----------------------------- MODULE ServerStart -----------------------------
(***************************************************************************)
(* The start of the server process: keys, migrations, the first admin      *)
(* (server/cmd/server/main.go, internal/crypto/crypto.go, db/migrate.go,   *)
(* api/server.go), with a crash between any two steps and a new start.     *)
(*                                                                         *)
(* Keys are random and numbered in the order they are made.  A file is     *)
(* written in two steps, as os.WriteFile truncates before it writes.       *)
(***************************************************************************)
EXTENDS Naturals, FiniteSets

CONSTANTS
  Versions,      \* number of the last migration
  MaxKeys,       \* bound: keys ever made
  MaxStarts,     \* bound: starts of the process
  MaxRotations   \* bound: changes of APP_MASTER_KEY by the operator

Absent == 0
Short  == MaxKeys + 1     \* a file that was created but not filled
Keys   == 1 .. MaxKeys

VARIABLES
  env,       \* APP_MASTER_KEY: a key, or Absent
  files,     \* the key files: "master" and "jwt"
  applied,   \* how often each migration has been applied to the schema
  version,   \* PRAGMA user_version
  users,     \* the accounts: "none", "admin" without a permission, "granted"
  sealed,    \* keys some stored secret is encrypted under
  signed,    \* keys some refresh or access token was signed with
  phase,     \* how far the process is; "down" when there is none
  key,       \* the keys the process holds
  made, starts, rotations   \* counters for the bounds

vars == <<env, files, applied, version, users, sealed, signed, phase, key, made, starts, rotations>>
database == <<applied, version, users, sealed, signed>>
counters == <<starts, rotations>>

Init ==
  /\ env \in {Absent, 1} /\ made = 1
  /\ files = [n \in {"master", "jwt"} |-> Absent]
  /\ applied = [v \in 1 .. Versions |-> 0] /\ version = 0
  /\ users = "none" /\ sealed = {} /\ signed = {}
  /\ phase = "down" /\ key = [n \in {"master", "jwt"} |-> Absent]
  /\ starts = 0 /\ rotations = 0

Start ==
  /\ phase = "down" /\ starts < MaxStarts            \* bound
  /\ starts' = starts + 1 /\ phase' = "master"
  /\ UNCHANGED <<env, files, database, key, made, rotations>>

\* The process ends: a crash, a kill, or log.Fatalf after a failed step.
Crash ==
  /\ phase # "down"
  /\ phase' = "down" /\ key' = [n \in {"master", "jwt"} |-> Absent]
  /\ UNCHANGED <<env, files, database, made, counters>>

\* The operator starts the server with another master key, as for a rotation.
Rotate ==
  /\ phase = "down"
  /\ rotations < MaxRotations /\ made < MaxKeys      \* bounds
  /\ rotations' = rotations + 1 /\ made' = made + 1 /\ env' = made + 1
  /\ UNCHANGED <<files, database, phase, key, starts>>

-----------------------------------------------------------------------------
(* Keys *)

\* A new key: the file is created first, its content follows.
CreateFile(n) ==
  /\ made < MaxKeys                                  \* bound
  /\ files[n] = Absent
  /\ files' = [files EXCEPT ![n] = Short]
  /\ key' = [key EXCEPT ![n] = made + 1] /\ made' = made + 1

FillFile(n, next) ==
  /\ files[n] = Short /\ key[n] # Absent
  /\ files' = [files EXCEPT ![n] = key[n]]
  /\ phase' = next
  /\ UNCHANGED <<key, made>>

\* The environment's key, the key file's, or a new one.  ParseKey refuses a short file,
\* then and at every later start.
LoadOrCreateMasterKey ==
  /\ phase = "master"
  /\ \/ /\ env # Absent
        /\ key' = [key EXCEPT !["master"] = env] /\ phase' = "migrate"
        /\ UNCHANGED <<files, made>>
     \/ /\ env = Absent /\ files["master"] \in Keys
        /\ key' = [key EXCEPT !["master"] = files["master"]] /\ phase' = "migrate"
        /\ UNCHANGED <<files, made>>
     \/ /\ env = Absent /\ files["master"] = Short /\ key["master"] = Absent
        /\ phase' = "down"
        /\ UNCHANGED <<files, key, made>>
     \/ env = Absent /\ CreateFile("master") /\ UNCHANGED phase
     \/ env = Absent /\ FillFile("master", "migrate")
  /\ UNCHANGED <<env, database, counters>>

\* Mutant of LoadJWTKey: a new key is used, but not kept.
LoadVolatileKey ==
  /\ phase = "jwt"
  /\ made < MaxKeys /\ made' = made + 1
  /\ key' = [key EXCEPT !["jwt"] = made + 1] /\ phase' = "count"
  /\ UNCHANGED <<files, env, database, counters>>

\* The key file's content whatever it is, or a new key.  (APP_JWT_KEY, when set, is the
\* same at every start.)
LoadJWTKey ==
  /\ phase = "jwt"
  /\ \/ /\ files["jwt"] # Absent /\ key["jwt"] = Absent
        /\ key' = [key EXCEPT !["jwt"] = files["jwt"]] /\ phase' = "count"
        /\ UNCHANGED <<files, made>>
     \/ CreateFile("jwt") /\ UNCHANGED phase
     \/ FillFile("jwt", "count")
  /\ UNCHANGED <<env, database, counters>>

-----------------------------------------------------------------------------
(* Migrations *)

\* Mutant of Migrate: the version is written after the migration has been committed.
MigrateThenMark ==
  /\ phase = "migrate"
  /\ \/ /\ version < Versions /\ applied[version + 1] < 2
        /\ \/ applied' = [applied EXCEPT ![version + 1] = @ + 1] /\ UNCHANGED version
           \/ applied[version + 1] > 0 /\ version' = version + 1 /\ UNCHANGED applied
        /\ UNCHANGED phase
     \/ /\ version = Versions /\ phase' = "jwt"
        /\ UNCHANGED <<applied, version>>
  /\ UNCHANGED <<env, files, users, sealed, signed, key, made, counters>>

\* One transaction for each pending migration and its user_version.
Migrate ==
  /\ phase = "migrate"
  /\ \/ /\ version < Versions
        /\ applied' = [applied EXCEPT ![version + 1] = @ + 1]
        /\ version' = version + 1
        /\ UNCHANGED phase
     \/ /\ version = Versions /\ phase' = "jwt"
        /\ UNCHANGED <<applied, version>>
  /\ UNCHANGED <<env, files, users, sealed, signed, key, made, counters>>

-----------------------------------------------------------------------------
(* Bootstrap: count, create and grant are three statements *)

CountUsers ==
  /\ phase = "count"
  /\ phase' = IF users = "none" THEN "create" ELSE "serving"
  /\ UNCHANGED <<env, files, database, key, made, counters>>

CreateAdmin ==
  /\ phase = "create"
  /\ users' = "admin" /\ phase' = "grant"
  /\ UNCHANGED <<env, files, applied, version, sealed, signed, key, made, counters>>

GrantSystemAdmin ==
  /\ phase = "grant"
  /\ users' = "granted" /\ phase' = "serving"
  /\ UNCHANGED <<env, files, applied, version, sealed, signed, key, made, counters>>

-----------------------------------------------------------------------------
(* Service: what is written under the keys *)

Seal ==
  /\ phase = "serving" /\ key["master"] \notin sealed
  /\ sealed' = sealed \cup {key["master"]}
  /\ UNCHANGED <<env, files, applied, version, users, signed, phase, key, made, counters>>

Sign ==
  /\ phase = "serving" /\ key["jwt"] \notin signed
  /\ signed' = signed \cup {key["jwt"]}
  /\ UNCHANGED <<env, files, applied, version, users, sealed, phase, key, made, counters>>

Stopped == phase = "down" /\ starts = MaxStarts /\ UNCHANGED vars

Next ==
  \/ Start \/ Crash \/ Rotate
  \/ LoadOrCreateMasterKey \/ Migrate \/ LoadJWTKey
  \/ CountUsers \/ CreateAdmin \/ GrantSystemAdmin
  \/ Seal \/ Sign
  \/ Stopped

Spec == Init /\ [][Next]_vars

-----------------------------------------------------------------------------
(* What must hold *)

\* Type invariant of the disk and the process.
TypeOK ==
  /\ env \in {Absent} \cup Keys
  /\ files \in [{"master", "jwt"} -> {Absent, Short} \cup Keys]
  /\ applied \in [1 .. Versions -> Nat] /\ version \in 0 .. Versions
  /\ users \in {"none", "admin", "granted"}
  /\ sealed \subseteq Keys /\ signed \subseteq Keys \cup {Short}
  /\ phase \in {"down", "master", "migrate", "jwt", "count", "create", "grant", "serving"}
  /\ key \in [{"master", "jwt"} -> {Absent, Short} \cup Keys]

\* Every migration is applied once, however often a start is cut off: the schema is
\* always the one user_version says.
SchemaIsVersion ==
  \A v \in 1 .. Versions : applied[v] = IF v <= version THEN 1 ELSE 0

\* What an earlier process encrypted or signed, the running one can read and verify,
\* as long as the operator keeps the environment as it is.  A JWT key file that a crash
\* left empty is a key to it like any other, as to the code.
KeysOutliveRestarts ==
  phase = "serving" => /\ rotations = 0 => sealed \subseteq {key["master"]}
                       /\ signed \subseteq {key["jwt"]}
==============================================================================
