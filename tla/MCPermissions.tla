---------------------------- MODULE MCPermissions ----------------------------
(***************************************************************************)
(* Permissions for TLC: four small instances over the same variables, of   *)
(* which one is chosen at the start.                                       *)
(*   serial   every operation, one request at a time;                      *)
(*   races    two requests that overlap: what is deleted, granted and made *)
(*            again;                                                       *)
(*   rules    one user and its group under every table that grants and     *)
(*            revocations build, a directory and a file below it;          *)
(*   local    two storages in which the same paths exist, one of them a    *)
(*            pattern for the other.                                       *)
(***************************************************************************)
EXTENDS Naturals, FiniteSets

CONSTANTS
  Alone,      \* the slot of requests one at a time
  Slots,      \* of requests that overlap
  Actions,
  MaxUsers, MaxGroups, MaxStorages,
  MaxRows,    \* permission rows
  FewRows     \* where requests overlap or storages are compared

ASSUME IdsAssumption ==
  /\ MaxUsers \in Nat /\ MaxGroups \in Nat /\ MaxStorages \in Nat
  /\ MaxRows \in Nat \ {0} /\ FewRows \in Nat \ {0}

VARIABLES part, users, groups, storages, members, files, permissions, logins, calls

vars == <<part, users, groups, storages, members, files, permissions, logins, calls>>

\* An instance for each set of bounds.
Perms(b) == INSTANCE Permissions
          WITH UserIds <- 1 .. MaxUsers, GroupIds <- 1 .. MaxGroups,
               StorageIds <- 1 .. b.storages, FileIds <- 1 .. b.files,
               PermIds <- 1 .. b.rows, Paths <- b.paths, GrantSets <- b.grants,
               Grantees <- b.grantees, Ops <- b.ops, Calls <- b.slots

Everything == {"grant", "revoke", "createUser", "deleteUser", "createGroup", "deleteGroup",
               "createStorage", "deleteStorage", "addMember", "removeMember"}

Serial == [storages |-> 1, files |-> 1, rows |-> MaxRows, paths |-> {<<"b">>},
           grants |-> {{"admin"}}, slots |-> {Alone}, ops |-> Everything,
           grantees |-> {"user", "group"} \X (1 .. MaxUsers)]

Races == [storages |-> 1, files |-> 1, rows |-> FewRows, paths |-> {<<"b">>},
          grants |-> {{"admin"}}, slots |-> Slots, grantees |-> {"group"} \X (1 .. MaxGroups),
          ops |-> Everything \ {"revoke", "removeMember", "createUser", "createStorage"}]

Rules == [storages |-> 1, files |-> 2, rows |-> MaxRows,
          paths |-> {<<"a", "/">>, <<"a", "/", "b">>}, grants |-> {{"read"}, {"admin"}},
          slots |-> {Alone}, ops |-> {"grant", "revoke"}, grantees |-> {<<"user", 2>>}]

Local == [storages |-> MaxStorages, files |-> 2, rows |-> FewRows,
          paths |-> {<<"_", "/">>, <<"A", "/", "b">>}, grants |-> {{"read"}},
          slots |-> {Alone}, ops |-> {"grant", "revoke", "createStorage"},
          grantees |-> {<<"user", 2>>}]

Init ==
  \/ part = "serial" /\ Perms(Serial)!Init
  \/ part = "races" /\ Perms(Races)!Init
  \/ part = "rules" /\ Perms(Rules)!Init
  \/ part = "local" /\ Perms(Local)!Init

Next ==
  /\ UNCHANGED part
  /\ \/ part = "serial" /\ Perms(Serial)!Next
     \/ part = "races" /\ Perms(Races)!Next
     \/ part = "rules" /\ Perms(Rules)!Next
     \/ part = "local" /\ Perms(Local)!Next

Spec == Init /\ [][Next]_vars

-----------------------------------------------------------------------------
(* The properties of Permissions, each for the instance that strains it *)

\* However requests overlap, a deletion takes every row that names what it deletes; one
\* request after the other, no row outlives what it names.
DeletionsLeaveNoRows ==
  [][/\ part = "serial" => Perms(Serial)!NoOrphanRows'
     /\ part = "races" => Perms(Races)!TakesItsRows]_vars

\* The walk over sorted levels decides as section 6.3.4 of the design says.
RulesAreNearest == part = "rules" => Perms(Rules)!RulesAreNearest

\* Rows about one storage change nothing in another.
RowsStayLocal == [][part = "local" => Perms(Local)!StaysLocal]_vars
==============================================================================
