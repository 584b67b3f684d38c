----------------------------- MODULE Permissions -----------------------------
(***************************************************************************)
(* Accounts, groups and permission rows under concurrent requests          *)
(* (server/internal/auth/service.go, perm/admin.go, catalog/catalog.go and *)
(* api/handlers_admin.go, handlers_storage.go, middleware.go).             *)
(*                                                                         *)
(* A request reads the groups of its user, then the permission rows, and   *)
(* writes in a later step.  A transaction or a single statement of the one *)
(* write connection is one step.  Rows have no foreign key, and ids are    *)
(* given out again.  Lists are reads and leave no trace here.              *)
(***************************************************************************)
EXTENDS PermRules, FiniteSetsExt, Functions

CONSTANTS
  UserIds, GroupIds, StorageIds, FileIds, PermIds, \* bounds: 1 .. n
  Paths,      \* paths of files
  GrantSets,  \* sets of actions that requests grant or deny
  Grantees,   \* principals that requests grant to or deny
  Ops,        \* operations that clients ask for
  Calls       \* bound: requests in flight

VARIABLES
  users, groups, storages,  \* ids that exist
  members,      \* user_groups: <<user, group>>
  files,        \* id |-> [storage, path]
  permissions,  \* id |-> [principal, resource, id, set, deny]
  logins,       \* ids of users that may hold an access token
  calls         \* requests in flight

tables == <<users, groups, storages, members, files, permissions>>
vars == <<tables, logins, calls>>

NoCall == [phase |-> "none"]

Principals == ({"user"} \X users) \cup ({"group"} \X groups)
Resources  == {<<"system", 0>>} \cup ({"storage"} \X storages) \cup ({"file"} \X DOMAIN files)

\* The rowid SQLite gives a new row: one more than the largest.
IsNextId(id, ids) == id = 1 + Max({0} \cup ids)

Without(table, ids) == [i \in DOMAIN table \ ids |-> table[i]]
With(table, id, row) == [i \in DOMAIN table \cup {id} |-> IF i = id THEN row ELSE table[i]]

\* Rows whose principal or resource is p.
RowsOf(p) ==
  {i \in DOMAIN permissions : p \in {permissions[i].principal,
                                     <<permissions[i].resource, permissions[i].id>>}}

GroupsOf(user) == {g \in GroupIds : <<user, g>> \in members}

\* The first administrator, as Bootstrap leaves it, another user and a storage.
Init ==
  /\ users = {1, 2} /\ groups = {1} /\ storages = {1}
  /\ members = {}
  /\ \E path \in Paths : files = [f \in {1} |-> [storage |-> 1, path |-> path]]
  /\ permissions = [i \in {1} |-> [principal |-> <<"user", 1>>, resource |-> "system", id |-> 0,
                                   set |-> {"admin"}, deny |-> FALSE]]
  /\ logins = {1, 2}
  /\ calls = [c \in Calls |-> NoCall]

-----------------------------------------------------------------------------
(* Requests *)

\* What clients ask for names what exists when they ask.
Wanted ==
  {w \in {[op |-> "createUser"], [op |-> "createGroup"], [op |-> "createStorage"]}
         \cup [op : {"deleteUser"}, id : users]
         \cup [op : {"deleteGroup"}, id : groups]
         \cup [op : {"deleteStorage"}, id : storages]
         \cup [op : {"addMember", "removeMember"}, group : groups, user : users]
         \cup [op : {"revoke"}, id : DOMAIN permissions]
         \cup {[op |-> "grant", row |-> [principal |-> p, resource |-> r[1], id |-> r[2],
                                         set |-> s, deny |-> d]] :
                 p \in Principals \cap Grantees, r \in Resources, s \in GrantSets, d \in BOOLEAN} :
     w.op \in Ops}

\* An access token names its user by id and is valid until it expires, whatever
\* happens to the account.
Send(c, user) ==
  /\ calls[c] = NoCall
  /\ user \in logins
  /\ \E w \in Wanted :
       calls' = [calls EXCEPT ![c] = [phase |-> "sent", by |-> user, want |-> w]]
  /\ UNCHANGED <<tables, logins>>

Done(c) == calls' = [calls EXCEPT ![c] = NoCall]

\* requireAuth: the groups are read once, at the start of the request.
RequireAuth(c) ==
  /\ calls[c].phase = "sent"
  /\ calls' = [calls EXCEPT ![c] = [phase |-> "authed", by |-> @.by, want |-> @.want,
                                    groups |-> GroupsOf(@.by)]]
  /\ UNCHANGED <<tables, logins>>

\* Where each handler asks for which action.
Needs(want) ==
  CASE want.op = "createStorage" -> <<0, "manage">>
    [] want.op = "deleteStorage" -> <<want.id, "admin">>
    [] OTHER -> <<0, "admin">>

\* can, canSystem, requireSystemAdmin.
Authorize(c) ==
  /\ calls[c].phase = "authed" /\ calls[c].want.op # "grant"
  /\ LET needs == Needs(calls[c].want)
     IN  IF Resolve(Range(permissions), files, calls[c].by, calls[c].groups,
                    needs[1], <<>>, needs[2])
         THEN calls' = [calls EXCEPT ![c].phase = "allowed"]
         ELSE Done(c)
  /\ UNCHANGED <<tables, logins>>

\* resourceContext: where the rights of the granter are looked up.
ResourceContext(c) ==
  /\ calls[c].phase = "authed" /\ calls[c].want.op = "grant"
  /\ LET row == calls[c].want.row
         At(storage, path) ==
           [phase |-> "located", by |-> calls[c].by, want |-> calls[c].want,
            groups |-> calls[c].groups, storage |-> storage, path |-> path]
     IN  \/ /\ row.resource # "file"
            /\ calls' = [calls EXCEPT ![c] = At(row.id, <<>>)]
         \/ /\ row.resource = "file" /\ row.id \in DOMAIN files
            /\ calls' = [calls EXCEPT ![c] = At(files[row.id].storage, files[row.id].path)]
         \/ /\ row.resource = "file" /\ row.id \notin DOMAIN files   \* ErrBadResource
            /\ Done(c)
  /\ UNCHANGED <<tables, logins>>

\* Grant, up to the insert: admin on the resource, and no more than one's own.
AuthorizeGrant(c) ==
  /\ calls[c].phase = "located"
  /\ LET row == calls[c].want.row
         own == ResolveEffective(Range(permissions), files, calls[c].by, calls[c].groups,
                                 calls[c].storage, calls[c].path)
     IN  IF "admin" \in own /\ (row.deny \/ row.set \subseteq own)
         THEN calls' = [calls EXCEPT ![c].phase = "allowed"]
         ELSE Done(c)
  /\ UNCHANGED <<tables, logins>>

\* The request is allowed and about to write.
Ready(c, op) == calls[c].phase = "allowed" /\ calls[c].want.op = op /\ Done(c)

\* A statement fails, or a row of that id is out of the bounds: the handler answers
\* with an error and its transaction is rolled back.
ServerError(c) ==
  /\ calls[c] # NoCall
  /\ Done(c)
  /\ UNCHANGED <<tables, logins>>

-----------------------------------------------------------------------------
(* Writes *)

InsertPermission(c) ==
  /\ Ready(c, "grant")
  /\ \E id \in PermIds :
       /\ IsNextId(id, DOMAIN permissions)
       /\ permissions' = With(permissions, id, calls[c].want.row)
  /\ UNCHANGED <<users, groups, storages, members, files, logins>>

DeletePermission(c) ==
  /\ Ready(c, "revoke")
  /\ permissions' = Without(permissions, {calls[c].want.id})
  /\ UNCHANGED <<users, groups, storages, members, files, logins>>

CreateUser(c) ==
  /\ Ready(c, "createUser")
  /\ \E id \in UserIds : /\ IsNextId(id, users)
                         /\ users' = users \cup {id}
                         /\ logins' = logins \cup {id}
  /\ UNCHANGED <<groups, storages, members, files, permissions>>

\* deletePrincipal: rows and principal go in one transaction, with the memberships
\* by cascade.
DeletePrincipalRows(p) == permissions' = Without(permissions, RowsOf(p))

\* Not oneself; a user that is gone is not found, and the transaction rolls back.
DeleteUser(c) ==
  /\ Ready(c, "deleteUser")
  /\ LET id == calls[c].want.id
     IN  \/ /\ id # calls[c].by /\ id \in users
            /\ users' = users \ {id}
            /\ members' = {m \in members : m[1] # id}
            /\ DeletePrincipalRows(<<"user", id>>)
         \/ /\ id = calls[c].by \/ id \notin users
            /\ UNCHANGED <<users, members, permissions>>
  /\ UNCHANGED <<groups, storages, files, logins>>

CreateGroup(c) ==
  /\ Ready(c, "createGroup")
  /\ \E id \in GroupIds : IsNextId(id, groups) /\ groups' = groups \cup {id}
  /\ UNCHANGED <<users, storages, members, files, permissions, logins>>

DeleteGroup(c) ==
  /\ Ready(c, "deleteGroup")
  /\ LET id == calls[c].want.id
     IN  \/ /\ id \in groups
            /\ groups' = groups \ {id}
            /\ members' = {m \in members : m[2] # id}
            /\ DeletePrincipalRows(<<"group", id>>)
         \/ id \notin groups /\ UNCHANGED <<groups, members, permissions>>
  /\ UNCHANGED <<users, storages, files, logins>>

\* The foreign keys refuse a user or a group that is gone; a member stays one.
AddMember(c) ==
  /\ Ready(c, "addMember")
  /\ LET w == calls[c].want
     IN  members' = members \cup (({w.user} \cap users) \X ({w.group} \cap groups))
  /\ UNCHANGED <<users, groups, storages, files, permissions, logins>>

RemoveMember(c) ==
  /\ Ready(c, "removeMember")
  /\ members' = members \ {<<calls[c].want.user, calls[c].want.group>>}
  /\ UNCHANGED <<users, groups, storages, files, permissions, logins>>

CreateStorage(c) ==
  /\ Ready(c, "createStorage")
  /\ \E id \in StorageIds : IsNextId(id, storages) /\ storages' = storages \cup {id}
  /\ UNCHANGED <<users, groups, members, files, permissions, logins>>

FilesOf(storage) == {f \in DOMAIN files : files[f].storage = storage}

\* Mutant of StorageRows: the rows of the files are forgotten.
StorageRowsOnly(id) == RowsOf(<<"storage", id>>)

StorageRows(id) ==
  RowsOf(<<"storage", id>>) \cup UNION {RowsOf(<<"file", f>>) : f \in FilesOf(id)}

\* Rows of the files, rows of the storage and the storage in one transaction; the
\* files follow by cascade.
DeleteStorage(c) ==
  /\ Ready(c, "deleteStorage")
  /\ LET id == calls[c].want.id
     IN  \/ /\ id \in storages
            /\ permissions' = Without(permissions, StorageRows(id))
            /\ storages' = storages \ {id}
            /\ files' = Without(files, FilesOf(id))
         \/ id \notin storages /\ UNCHANGED <<storages, files, permissions>>
  /\ UNCHANGED <<users, groups, members, logins>>

\* A scan, a tag or a thumbnail makes a row for a path.
Materialize(storage, path) ==
  /\ storage \in storages
  /\ [storage |-> storage, path |-> path] \notin Range(files)
  /\ \E id \in FileIds :
       /\ IsNextId(id, DOMAIN files)
       /\ files' = With(files, id, [storage |-> storage, path |-> path])
  /\ UNCHANGED <<users, groups, storages, members, permissions, logins, calls>>

-----------------------------------------------------------------------------
Next ==
  \/ \E c \in Calls :
       \/ \E user \in UserIds : Send(c, user)
       \/ ServerError(c)
       \/ RequireAuth(c) \/ Authorize(c) \/ ResourceContext(c) \/ AuthorizeGrant(c)
       \/ InsertPermission(c) \/ DeletePermission(c)
       \/ CreateUser(c) \/ DeleteUser(c) \/ CreateGroup(c) \/ DeleteGroup(c)
       \/ AddMember(c) \/ RemoveMember(c)
       \/ CreateStorage(c) \/ DeleteStorage(c)
  \/ \E storage \in StorageIds, path \in Paths : Materialize(storage, path)

Spec == Init /\ [][Next]_vars

-----------------------------------------------------------------------------
(* What must hold *)

Row == [principal : {"user", "group"} \X (UserIds \cup GroupIds),
        resource : {"system", "storage", "file"}, id : Nat, set : GrantSets \cup {{"admin"}},
        deny : BOOLEAN]

\* Type invariant of the tables and the requests.
TypeOK ==
  /\ users \subseteq UserIds /\ groups \subseteq GroupIds /\ storages \subseteq StorageIds
  /\ members \subseteq users \X groups
  /\ DOMAIN files \subseteq FileIds
  /\ Range(files) \subseteq [storage : storages, path : Paths]
  /\ DOMAIN permissions \subseteq PermIds /\ Range(permissions) \subseteq Row
  /\ logins \subseteq UserIds
  /\ \A c \in Calls : calls[c].phase \in {"none", "sent", "authed", "located", "allowed"}

\* What a user may do at a place now.
Places == (StorageIds \cup {0}) \X (Paths \cup {<<>>})
May(user, place) ==
  ResolveEffective(Range(permissions), files, user, GroupsOf(user), place[1], place[2])

\* The walk over sorted levels with its admin fallback decides as section 6.3.4
\* says, for every table requests can build.
RulesAreNearest ==
  \A user \in users, place \in Places :
    May(user, place) =
      LET rows == FetchRows(Range(permissions), files, user, GroupsOf(user), place[1], place[2])
      IN  {action \in Actions : NearestDecides(rows, action)}

Gone  == DOMAIN permissions \ DOMAIN permissions'
Added == DOMAIN permissions' \ DOMAIN permissions

\* Where a row is about a storage or one of its files.
About(row, storage) ==
  \/ row.resource = "system"
  \/ row.resource = "storage" /\ row.id = storage
  \/ row.resource = "file" /\ row.id \in FilesOf(storage)

\* Rows about one storage change nothing in another.
StaysLocal ==
  Gone \cup Added # {} /\ UNCHANGED <<members, files>> =>
    \A storage \in StorageIds :
      (/\ \A i \in Gone  : ~About(permissions[i], storage)
       /\ \A i \in Added : ~About(permissions'[i], storage))
      => \A user \in users, path \in Paths \cup {<<>>} :
           May(user, <<storage, path>>)' = May(user, <<storage, path>>)
RowsStayLocal == [][StaysLocal]_vars

\* Deleting a user, group or storage leaves no row that names it or one of its
\* files: the next holder of the id starts without rights.
NoOrphanRows ==
  \A i \in DOMAIN permissions :
    /\ permissions[i].principal \in Principals
    /\ <<permissions[i].resource, permissions[i].id>> \in Resources

\* However requests overlap, a deletion takes every row that names what it deletes,
\* the files of a storage included, in the same step.
TakesItsRows ==
  /\ \A p \in Principals \ Principals' : RowsOf(p)' = {}
  /\ \A r \in Resources \ Resources' : RowsOf(r)' = {}
==============================================================================
