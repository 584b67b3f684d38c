# FileTagSystem: TLA+ models, checks and proofs

FileTagSystem indexes the files of registered storages, attaches tags to them and
serves search, previews and administration over HTTP. It is a Go server on SQLite
(`src/server`), a Rust scanner started by the server (`src/scanner`) and a React
client (`src/web`). The modules here are translated from that source; the design
document (`src/docs/design-v0.5.md`) is quoted only where it makes a promise the code
can be held to.

## 1. The system

### Components

| component | state it keeps | operations | correct when |
|---|---|---|---|
| tags (`internal/tags`, `api/handlers_tags.go`, `handlers_governance.go`) | tables `field_types`, `field_values` (a forest, stored as `parent_id` *and* as a materialized path), `field_value_aliases`, `file_fields` | create / update / delete types and values, move, merge, apply, remove, batch | the path column agrees with `parent_id`; a prefix selects a subtree; a single-value type is single on every file; no application dangles; a merge loses no tag |
| ingest (`internal/ingest`) | `JobManager.jobs` in memory, one goroutine per scan, rows of `files` | start, cancel, status, ingest, missing-sweep | one goroutine per storage, settled in its own job; the write connection always comes back; only what a scan did not see is marked missing; every scan ends |
| scanner (`src/scanner`) | none between runs; a sorted list of records during one | walk, write lines to a pipe | every readable path is written once, in order |
| sessions (`auth/refresh.go`, `login.go`, `api/handlers_auth.go`) | table `refresh_tokens`; the cookie jars of browsers | login, refresh (rotate, detect replay), logout | one live token per family; what is over stays over; an honest client is not taken for a thief |
| two-factor (`auth/twofa.go`) | `user_2fa`, `user_2fa_backup` | setup, enable, disable, verify, use a backup code | only a confirmed secret is active; a backup code works once |
| login limiter (`auth/limiter.go`) | failures and lock times per key | allowed, fail, reset | a key is locked after the threshold |
| accounts, groups (`auth/service.go`, `api/handlers_admin.go`) | `users`, `groups`, `user_groups` | create, delete, (de)activate, membership | deleting a principal removes its permissions |
| OAuth (`auth/oauth.go`) | `user_oauth`; state and verifier cookies | start, callback, link or create | one account per identity |
| JWT, keys (`auth/jwt.go`, `internal/crypto`) | key files | sign, verify, encrypt | library cryptography |
| permissions (`internal/perm`) | `permissions` | resolve, grant, revoke | deny wins, nobody grants more than they hold |
| catalog (`internal/catalog`, `api/handlers_storage.go`) | `storage_providers`, `files` | create, update, delete, list, materialize | deletion leaves nothing behind |
| search (`internal/search`, `0002_fts.sql`) | FTS tables, kept by triggers | index, query, page | the index equals the tables; pages neither skip nor repeat |
| database (`internal/db`) | one write connection, four readers, `user_version` | open, migrate | write transactions never overlap |
| start (`api/server.go`) | none | bootstrap, routes | a fresh install has an administrator |
| audit (`internal/audit`) | `audit_log` | append, list | what was done left a trace |
| rate limiter (`internal/ratelimit`) | token buckets | allow, sweep | the burst and the rate hold |
| local storage, previews, thumbnails | files on disk | stat, list, open, resize | input/output |
| web client (`src/web`) | component state, requests in flight | browse, tag, search | answers are shown for what they were asked for |

### How they interact

All writers share **one** SQLite write connection (`db/db.go:38`,
`SetMaxOpenConns(1)`): a write transaction, or a single statement, is atomic with
respect to every other. Readers use another pool under WAL, so what a handler reads
there may be stale by the time it writes. A scan holds the write connection from
`BeginTx` until its batch is committed, which includes the time the scanner takes to
walk the tree. Primary keys are `INTEGER PRIMARY KEY` without `AUTOINCREMENT`, so the
id of a deleted last row is given out again. Job state lives in memory and is lost on
restart; the scanner is a child process behind a pipe of limited size. Browsers send
requests that overlap, get lost or are answered late.

### What is hard here

Reads on one pool used for writes on the other; redundant columns kept in step by
several statements; early returns with the only connection in hand; a child process
that fails after its output was believed; cancellation at any step; rotation of tokens
with answers in flight. `PROJECT.json` lists every such place under `hazards`, with the
property that covers it or the reason why none does yet.

## 2. The modules

| module | models | state |
|---|---|---|
| `Tags` | tags, with files and storages as far as applications depend on them | `types`, `values`, `files`, `fields`, `deleting` |
| `TagForest` | abstract specification: a forest of values in which a subtree moves, and leaves, whole | `forest` |
| `EffectiveFields` [extends `Tags`] | the tags a path shows, its own and the inherited ones, with their chains of labels | that of `Tags` |
| `TagsProofs` | theorems about `Tags` and `EffectiveFields` | |
| `ScanJobs` | `JobManager`, `RunScanner`, `Ingest`, the scanner process, the write connection, storages and disks | `jobs`, `run`, `conn`, `rows`, `rootOf`, `disk` |
| `ScanJobsProofs` | theorems about `ScanJobs`, and about the walks that are parts of `MCScanJobs` | |
| `ScanWalk` | the walk of the scanner over one file system with symbolic links | `parent`, `kind`, `target`, `name`, `skip`, `stack`, `visited`, `records`, `failed` |
| `ScanWalkProofs` | theorems about `ScanWalk`, for any file system and limits | |
| `FtsIndex` | the full-text index and its triggers under every statement on labels and aliases | `label`, `aliases`, `index`, `work`, `committed` |
| `SearchPages` | a search by filters, from its expansion to its last page, while others write and the user edits the filters | `parent`, `tags`, `request`, `filters`, `query`, `results`, `cursor`, `pages`, ... |
| `RefreshTokens` | refresh tokens, the three handlers, browsers with requests in flight | `users`, `tokens`, `issued`, `cookie`, `calls` |
| `RefreshTokensProofs` | theorems about `RefreshTokens` | |
| `TwoFactor` | the second factor of one account, requests side by side | `row`, `codes`, `secrets`, `batches`, `calls`, ... |
| `LoginLimiter` | the lockout of failed logins and the two procedures that use it | `fails`, `until`, `calls` |
| `OAuthLink` | a login through a provider, from its start to the session | `users`, `links`, `cookies`, `flows`, `codes`, `calls`, ... |
| `ServerStart` | keys, migrations and the first administrator, with a crash between any two steps | `env`, `files`, `applied`, `version`, `users`, `phase`, `key`, ... |
| `RateLimit` | the throttle of requests, with the sweep of idle clients | `now`, `buckets`, `lastSweep`, `granted` |
| `TokenBucket` | abstract specification: a bucket for every client, forgotten only after it has been idle for long | `level`, `idle`, `granted` |
| `PermRules` | how permission rows decide: the rules in memory, the query, and the reference they are compared with | none |
| `Permissions` [uses `PermRules`] | accounts, groups, storages and permission rows under requests in steps | `users`, `groups`, `storages`, `members`, `files`, `permissions`, `logins`, `calls` |
| `FileRequests` | listings, requests by id, thumbnails, changes of a storage, audit entries | `storages`, `files`, `cache`, `shown`, `calls`, ... |
| `BrowserPage` | the file browser of the web client, with answers in any order | `storage`, `nav`, `lists`, `loading`, `shown`, `selected`, `panel`, `tagging`, ... |
| `MCTags`, `MCScanJobs`, `MCSearch`, `MCPermissions`, `MCAccounts`, `MCRequests` | instances for TLC | |
| `SearchProofs` | theorems about `FtsIndex`, and about `SearchPages` and `EffectiveFields` as the parts of `MCSearch` they are | |
| `PermissionsProofs` | theorems about the parts of `MCPermissions`, and about `Permissions` under any bounds | |
| `AccountsProofs` | theorems about the parts of `MCAccounts` | |
| `RequestsProofs` | theorems about the parts of `MCRequests` | |

`map` in `PROJECT.json` names the source lines of every definition. In short:

**Tags.** Each method of `tags.Store` that writes is one action, because it is one
transaction or one statement on the write connection; its guards are the method's
checks and the foreign keys. `DeleteFieldValue` is the exception: it reads the path on
the read pool and deletes by it later, so it is `BeginDeleteFieldValue` and
`FinishDeleteFieldValue` with a slot per request in between. A path `/1/3/` is the
sequence `<<1, 3>>`. That keeps `LIKE path || '%'` exact: ids contain no wildcard and
every id is closed by `/`, so string prefixes of whole paths are sequence prefixes.
`Cascade` is the `ON DELETE CASCADE` on `parent_id`, defined as the least set closed
under children, independently of the paths. `IsNextId` gives ids out again.
A file is named by its path; `DeleteStorage` takes the rows of a storage away. `Tag` is
`applyTx`, which accepts a value of one type under another (nothing in the schema or
the code relates the two columns), and so does `Refs`.

**EffectiveFields.** `EffectiveFields` is one query: the rows on the file and on every
directory above it, nearest first, of which the loop keeps the first of each type. It has no
state of its own and is evaluated over every table `Tags` reaches, against `Inherited`, which
says what inheritance from the nearest directory means by recursion over the segments. A
directory need not have a row, and another storage may hold the same path.

**ScanJobs.** A `run` slot is a scan from the request to the end of the goroutine, with
its scanner and pipe; `pc` names the step of `triggerScan`, `Start`, `RunScanner` and
`Ingest` it is at. The transaction is `conn = r` and `batch`; `Commit` moves `batch`
into `rows`, `Quit` stands for every early return. `RollbackOnCancel` is the watcher
`database/sql` starts for a transaction with a context. The scanner walks, then writes
into a pipe of `PipeCap` records, then exits, and may die in between, also within a
line (`Torn`). The ghost fields `always` and `ever` of a run say which paths were on disk
throughout the walk, and which at some time of it; `saved` which were committed. Row
states stand for `path_status` together with how `last_scanned` compares with the start
of the latest scan (see the module's header).

**ScanWalk.** The recursive `scan_dir` is a stack of directories. An entry is taken in any
order, since the list is sorted at the end. A link is followed unless its target is the root
or in `visited`, which grows for the way down and shrinks on return. `Path` rebuilds
paths from names the way the code does: full-width slashes become separators in every
name, backslashes only in the directories above an entry.

**FtsIndex.** The same methods as in `Tags`, seen from the labels. `Tags` has no labels
and `FtsIndex` no tree: which values a deletion takes is any set here, and what is left
out of one module is what the other is about. The grain is finer than a statement,
because every trigger reads the tables as they are when it fires: a deletion takes a
row (`DeleteRow`), its aliases by the cascade, each with its trigger (`CascadeAlias`), and
then fires its own (`AfterDelete`); a merge moves aliases one by one (`MoveAlias`), adds the
label (`AddLabel`) and deletes. `committed` is what readers on other connections see, and
`Rollback` may end a transaction after any step. `Rebuild` is the text all the triggers
on aliases and the one on renames share: delete the rows of some ids and select those that
still exist back.

**SearchPages.** Expanding a filter reads the value's path and then its subtree, statement by
statement, before the page is read by `id > cursor`. `EditFilters` is the filter bar, at any
time: it leaves results and cursor alone, so `LoadMore` asks with the filters as they stand
and the cursor of the last answer, as `runSearch(true)` does. `query` remembers the filters
the last page was asked with; the history variables `stable` and `ever` hold the files that
matched throughout the search, and at some time of it, what its pages asked for. `Path` is
read off the parents, which `PathMatchesParent` of `Tags` justifies. A value that is moved
while a search with a fuzzy filter is read disturbs it (section 3).

**RefreshTokens.** `Refresh` is one transaction, `Logout` one statement. A login checks
the password in one step and issues in a later one, so the account may vanish between
them. Requests and answers sit in `calls` until they are handled, received or lost. Tokens
are numbered in order of issue (they are random and never repeat), and a family is named
by its first token. The third way a refresh can end, an error of the database, clears
the cookies and rolls the table back, as the handler does for any error; a logout whose
statement fails still clears the cookies (`handleLogout` drops the error).

**TwoFactor.** Every method loads the secret on the read pool, decides by it and writes in a
later transaction, so a request is a slot in `calls` that holds what it has read. A code of
the authenticator stands for the secret it was made from; `confirmed` and `uses` are
history.

**LoginLimiter.** `Allowed`, `Fail` and `Reset` are one action each, with the slow check of
the password between them. A lock has a time at which it ends: it is "locked" until then
and "over" after it.

**OAuthLink.** A browser has one pair of cookies; flow `n` has state, verifier and code `n`. The
callback checks the cookies, exchanges the code, reads link and account on the read pool and
writes in a later step. Unique keys and ids given out again are part of the
writes; `ChecksPKCE` says whether the provider checks the verifier, and the runs take the
weaker one that does not.

**ServerStart.** Each file is opened and then filled, each migration and its version are one
transaction, and count, create and grant of the first administrator are three statements.
`Crash` may come between any two steps. `sealed` and `signed` say which keys earlier
processes used.

**RateLimit.** `Allow` first drops idle buckets when it is time to (`Swept`, `Remembered`), then
refills the client's bucket by the time since its last use. A request takes `Token` units, so that
a tick may add a fraction of a token. The refinement maps a bucket that is not there to a full one
that has been idle for more than `Idle` ticks. `TokenBucket` forgets such clients, and no others,
whenever somebody asks; its `StrictSpec` forgets nobody. `New` sees to positive rates and to
bursts of a token at least, and `Settings` asks no more.

**PermRules, Permissions.** `PermRules` holds the walk over sorted levels with its fallback to
the admin permission, the `LIKE` query over the chain of a target with its wildcards, and
`RefAllowed`, which is section 6.3.4 of the design. In `Permissions` a request reads the
memberships of its user, then the rows, and writes in a later step.

**FileRequests.** A listing joins the directory with the rows, the page sends an id back, and the
handler loads the row, checks it and acts by id. Storages and rows carry a birth, a ghost
that tells two rows of one id apart. The audit entry is a step of its own.

**BrowserPage.** A click, with the state it sets and the effects it triggers, is one action; every
call sits in a set until it is answered or fails. Which answers are dropped is what the code
does: listings are guarded by their effect's `cancelled`, the panel of tags is not guarded.

## 3. The runs

A run may check several small instances of a module, or instances of independent
modules. They are its *parts*: one is chosen at the start and the others stand still, so
the state spaces add up and do not multiply. The MC module's header lists them.

| run | parts and bounds | shows |
|---|---|---|
| `tags` | forest: 3 values of 2 types, 2 deletions in flight; rows: 2 files in 2 storages, 2 values, 1 deletion | `TypeOK`, `PathMatchesParent`, `SingleValued`, `NoDanglingRows`, `MergeKeepsTags`, and that `Tags` implements `TagForest` |
| `tags_delete_race` | 1 type, 2 values | **violated**: `DeleteRemovesValue` (finding 1) |
| `scan_jobs` | jobs: 2 storages, 2 scans, crashes and restarts; loops: every file system of 4 entries with links; names: 3 entries with separators in their names | `JobTracksRun`, `ConnectionFollowsTx`, `WalkIsReach`, `OnlySeparatorsCollide` |
| `scan_ends` | 2 storages, 2 scans, 2 paths, statements that fail at any step | `ScanEnds` (liveness) |
| `scan_sweep` | 1 storage that may be deleted, 2 roots, 3 paths, one volatile and unreadable | `SweepMarksOnlyUnseen`, `DoneMeansIngested`, `CancelSettles` (liveness) |
| `scan_crash_sweep` | 1 storage, a scanner that dies | **violated**: `MissingMeansGone` (finding 2) |
| `search` | index: 3 values, 3 aliases, 2 names; search: 2 values, 3 files, pages of one; fields: a file two levels below a tagged directory, 2 types, 2 values | `IndexMirrorsTables`, `MergeKeepsNames`, `Complete`, `OnlyHits`, `NearestWins` |
| `refresh` | 1 user, a careful and a careless browser, 2 calls, 4 tokens | `OnlyNewestLive`, `NoFalseReplay`, `OverIsOver` |
| `permissions` | serial: all operations one by one; races: two overlapping requests; rules: a user and its group, a directory and a file; local: two storages with like paths | `DeletionsLeaveNoRows`, `RulesAreNearest`, `RowsStayLocal` |
| `accounts` | limiter, twofa, setup, links, logins, start, throttle (see `MCAccounts`) | `FailuresBounded`, `BackupCodeOnce`, `EnabledIsConfirmed`, `NoOrphanAccount`, `LinkMatchesEmail`, `SessionFromOwnStart`, `SchemaIsVersion`, `KeysOutliveRestarts`, and that `RateLimit` implements `TokenBucket` |
| `twofa_enable_race` | 2 requests | **violated**: `EnabledIsConfirmed` (finding 3) |
| `requests` | files, thumbs, deletes, clicks, patient (see `MCRequests`) | `WritesReachShown`, `ThumbnailIsOwn`, `AuditIsTrue`, `TaggedAsShown`, `PanelShowsItsFile`, `NoStaleListing` |

Each property of a passing run comes with a mutant of the code in `PROJECT.json` that
breaks it: a missing cycle check, descendants left behind by a move, a dropped
exit status, a rotation that keeps the old token, a visited link that is never forgotten, a page cursor one
too far, a migration marked in a second step, and so on.

**What a part leaves out on purpose.** Some properties hold only without a hazard the code does
have, and the part says so: `EnabledIsConfirmed` and `LinkMatchesEmail` for requests one after
the other, `NoOrphanRows` (in `DeletionsLeaveNoRows`) likewise, `WritesReachShown` and
`ThumbnailIsOwn` while no storage is deleted, `TaggedAsShown` and `PanelShowsItsFile` for a
user who waits for answers. `ScanEnds` lets a scan be whose ingest has failed and whose scanner
waits for a reader (`Blocked`). `Complete` and `OnlyHits` take a search as it was asked for, page by
page: a file matches if it matches the filters the last page was asked with, so after an edit
the results are those of two searches, and what only the edited filters match below the cursor
is nobody's. Both ask nothing of a search with a fuzzy filter
once a value has moved under it: the filter's subtree is expanded for each page, by a path
that is read a statement earlier. With a move in between, files below the value are skipped,
and a value that has left the subtree after it was expanded still counts as part of it for a
file that is tagged with it before the page is read. What happens otherwise is listed in section 5.

**Bounds and why they are enough.** Three values are a chain, or a value beside another and
one below it: enough for a stale path to meet a moved value, a child of it and a reused id.
Two types are needed for values of different types and for a value applied under
a type that is not its own; two files for a batch that treats one of them differently. Two
runs compete for the connection and for a storage; three paths and a batch of two give a
batch boundary, an end of file with a batch that is not full and a full pipe; a second scan of
the same storage meets the rows of the first. Four entries are the smallest walk in which a
link leads to a directory that holds a link back, next to a plain one. Three values and
three aliases in the index are a merge that moves two aliases beside a value it must not
touch, a deletion of several values with aliases each, and an id of either table given out
again. Three files in pages of one are a page before, at and after a change. Four
tokens are two families with a rotation each, or one with three; two calls in flight are
enough for a replay and a crossing logout. Three attempts side by side exceed a threshold of two.
Two codes of a set tell a code that is used from the set being used up. Two flows of one browser replace each
other's cookies. Four starts are two crashes with a repair between them. Two migrations
tell a step skipped from a step repeated. Three permission rows are a grant and a denial on
a file and a third one on the directory above. Two births of a storage id are the storage
the page showed and the one that took its id. Every bound is a named constant of its module,
given its value in the cfg or in the MC module; a batch applies at most two pairs
(`Applies`). A search starts over any set of files with any values, and sees one move and one
other change: a move before the search puts a value below another, and one under a fuzzy search
takes it out of the two properties. A token of two units in buckets of four, refilled by one a
tick and idle after two, makes an emptied bucket be forgotten before it is full again. The MC modules whose parts are proved about take the sizes of
their parts as constants, so the theorems do not depend on them.

**Symmetry.** Requests, files, names, browsers of one kind, users, calls and domains of emails are
interchangeable model values; the liveness runs use none.

**Fairness** (`ScanJobs!Fairness`). Weak fairness on each goroutine and on each scanner
process: the Go scheduler and the operating system run them. Strong fairness on the two
steps that acquire the write connection (`Begin`, `Sweep`): `database/sql` hands a
returned connection to one of the waiters, chosen at random, so a waiter is not passed
over for ever. Nobody is obliged to crash, cancel, restart, change the disk or send a
request; statements fail or not as they like (`StatementFails`; a failed commit is taken to
have written nothing). `ScanEnds` says that every scan ends, unless its ingest has failed, because the storage went or because of a statement, while
its scanner had more to write than the pipe takes: such a scan stays "scanning" until it is
cancelled (the run deletes no storage: to the ingest that is one more failing statement), and `CancelSettles`, checked by `scan_sweep` with both kinds of failure, says that
cancelling always helps. The other modules state no fairness: their requests end by themselves, or are
lost, and none waits for another.

### Findings

1. *A deletion that removes nothing* (`tags.go:255`, run `tags_delete_race`). Delete reads
   the path of a value, a move commits, delete runs by the old path: no row matches, the
   answer is 204 and an audit entry is written, and the value is still there, although
   `tags.go:252` says the method "removes a value and its whole subtree". The harm is
   bounded: `ImplementsForest` holds, so a stale path never takes part of a subtree or
   a value outside one.
2. *The sweep trusts the end of the pipe* (`ingest.go:108`, run `scan_crash_sweep`). A
   scanner that dies between two lines looks like one that is done; the sweep marks what
   it had not listed yet as missing, and only then is the exit status read. The design
   (`design-v0.5.md:238`) says missing means that the entity no longer exists. The job does
   end as an error (`DoneMeansIngested` holds), and the next good scan repairs the rows.
3. *An activation of another secret* (`twofa.go:73`, run `twofa_enable_race`). `Enable2FA`
   validates the code against the secret it loaded and later enables whatever row the account
   has. A setup in between replaces the secret, and one that nobody has entered a code of
   becomes active, although `twofa.go:16` says it is not enabled until `Enable2FA` succeeds
   with a valid code. One request after the other `EnabledIsConfirmed` holds.

## 4. What is proved

The theorems hold for every value of the constants that satisfies the named assumptions.

| assumption | asks |
|---|---|
| `BoundsAssumption` (`Tags`, `FtsIndex`), `TokensAssumption` (`RefreshTokens`), `SizesAssumption` (`ScanJobs`) | bounds are natural numbers, those of a pipe and of a batch at least one |
| `StoragesAssumption` (`Tags`), `CarefulAssumption` (`RefreshTokens`), `PathsAssumption`, `NobodyAssumption` (`ScanJobs`) | storages are sets of files, careful browsers are browsers, volatile paths and those others tag are paths, no request has the name of none |
| `SlotsAssumption` (`MCAccounts`, `MCRequests`) | finitely many requests side by side |
| `FailsAssumption`, `CodesAssumption`, `FlowsAssumption`, `StartsAssumption` (`MCAccounts`) | bounds are natural; at least one failure locks (`LOGIN_MAX_FAILS` 0 turns the lockout off) and there is a key |
| `ThrottleAssumption` (`MCAccounts`) | the rate is positive and a bucket holds a token at least, as `ratelimit.New` sees to; the times are natural |
| `Burst <= Rate * Idle` (hypothesis of `ThrottleNeverForgets` alone) | a bucket is full again before it counts as idle: so with the defaults, but nothing asks it of a configuration |
| `PagesAssumption` (`MCSearch`) | a page holds at least one file |
| `IsPath` of every file (hypothesis of `NearestTagWins`) | a path has at least one segment, as `AncestorPaths` takes it apart |
| `Settings` of `ScanWalk` (hypothesis of its theorems) | limits are natural; a name has components, no fewer below a directory of that name than in its own path, and a name without separators is the same in both (`build_relative_path`) |
| `IdsAssumption` (`MCPermissions`) | bounds are natural, and a row can be granted |

**Tags** (`TagsProofs`): `TypeCorrect`, `PathsFollowParents`, `SingleValuedAlways`,
`RowsNeverDangle`. The inductive invariant `IndInv` is the conjunction of the four. None is
inductive alone: that a move keeps the paths of descendants right needs that every path
*is* its parent's path plus an id (so that a value below the moved one keeps the rest of
its path, and one that is not below it is not touched), and that a deletion by a stale path
leaves no orphan needs that a child's path has its parent's path as a prefix, so a prefix
that selects the parent selects the child. `SingleValued` needs `NoDanglingRows`: a type
created with the id of a deleted one must find no rows. The lemmas on `IsPrefix`,
`Append` and concatenation come first; then one lemma per group of actions (`TypeStep`,
`PathStep`, `RowStep`), where `RowStep` uses that `Tag`, the fold of a batch and the
replacement of a merge keep a table `Sound`. On the same invariant rest `MergeLosesNoTag`
(`MergeKeepsTags`) and the refinement, `PathsImplementForest` (`ImplementsForest`). The forest
defines a subtree as the least set closed under children, `Tags` selects by a prefix of a path; the
two are equal because every value's path passes through its ancestors, so the values with a
prefix are closed, and none of them can be left out: the one with the shortest path would
have its parent in the set. A path read before others moved or deleted selects a whole subtree or
nothing, which is why a late deletion is a step of the forest as well, and
`PathsRead` keeps it from being empty, which would select every value.

**EffectiveFields** (`TagsProofs`, `SearchProofs`): `NearestTagWins` states `NearestWins` for any files,
types and values, and `NearestTagsWin` for the part of `MCSearch`. The property compares the one
query over all ancestors, ordered by length, and the labels read off the path column with a
walk up the directories and up the parents. Both walks are recursive functions, which the
proof follows one step at a time: were there a segment at which the walk and the query differ
there would be a first one (`NearestStep`, `Nearest`), and its own equation rules it out. What
the query adds is that the rows of maximal length are those of the nearest directory that has
any (`FirstRows`); `BreadcrumbIs` and `ChainIs` say that both chains are the value's path, which needs
`PathMatchesParent` and that no row names a value that is gone. So the same `IndInv` carries it.

**ScanJobs** (`ScanJobsProofs`): `TypesKept`, `OneScanPerStorage` (`JobTracksRun`),
`ConnectionNotLeaked` (`ConnectionFollowsTx`), `SweepIsSound` (`SweepMarksOnlyUnseen`) and
`DoneIsIngested` (`DoneMeansIngested`), for any number of requests, storages, paths and any
size of pipe and batch. The first three follow from `TypeOK`, `JobTracksRun`,
`ConnectionFollowsTx` and `SlotHasStorage` (a request that has looked up its storage knows it
and its root). The last two need to know where a path is on its way from the disk to the
table: `Flow` says that whatever the scanner was bound to find and could read is still to be
written, in the pipe, in the batch or committed, unless the scan has failed or was
cancelled; `SavedFresh` says that a committed row is neither stale nor missing while
its scan is under way, which rests on there being one scan per storage.

**ScanWalk** (`ScanWalkProofs`, `ScanJobsProofs`): `WalkFindsAll` states `WalkIsReach` and
`PathsTellApart` states `OnlySeparatorsCollide` for every file system, any number of entries, names
and limits, links followed or not; `WalksFindAll` and `WalksTellApart` state them for the two walks
of the run, whose settings `LoopsSettings` and `NamesSettings` show to be sound. `WalkIsReach` is about
the end of a walk, so the invariant (`WalkInv`) has to say at every moment what is still to
come: what has been listed is all that may be below the directories read so far, except for the
entries that a call on the stack has not come to (`AllListed`). Four parts make that inductive:
the calls on the stack are for the ways from the root down to the innermost one, each called by the
one before it (`Stacked`); `visited` is the root and what the links on the innermost way have led to, and
nothing else, also after a return (`LeaveStep`: no link may lead where an earlier one on its way has
led, so the directory that is taken out of `visited` is not needed by a call further up); the base
of a call's paths is the flattened names of its way; and what could not be read has been listed
(`failed`). At the end nothing waits, and the set of ways on which "listed" and "should be listed"
agree contains the empty way and with each way those one entry longer, so it is the set
of all (`ListedIsGoal`). `SeqInduction` proves that principle from a least counterexample, for a set
rather than a predicate; `FlattenAppend` does the same for the flattening of paths. For
`OnlySeparatorsCollide`, ways without separators have one component per entry, so equal paths have
equal last names, in one directory by induction, where no name occurs twice (`PlainWays`).
From the same invariant follow `WalkListsNoMore`, that nothing is listed at any moment that
should not be, and `NoWayTwice`, that every entry listed is on a way not listed before.

**FtsIndex** (`SearchProofs`): `TypesKept`, `IndexInStep` (`IndexMirrorsTables`),
`NoOrphanAlias` (`AliasesHaveOwners`) and `MergeLosesNoName` (`MergeKeepsNames`). What readers
see is right only because what the writer has is right in the middle of a transaction as
well, up to the values that are being deleted: `Synced` says that the entry of every value
that has a row is its label and aliases, and that any other entry or alias belongs to a value
in `gone`. `RebuildSyncs` shows that rebuilding the entries of the ids a statement touches
keeps that. `Merging` says how far a merge has come: between them the two values have the
aliases they started with, and later the label too.

**RefreshTokens** (`RefreshTokensProofs`): `TypeCorrect`, `NeverForks`
(`OnlyNewestLive`), `StaysOver` (`OverIsOver`) and `NeverTakenForThief` (`NoFalseReplay`).
`IndInv` is `TypeOK`, `OnlyNewestLive` and `FamiliesIssued`, that a family is named by a token
already issued, so a new login cannot join an old family. One lemma, `TableStep`, says what any
step can do to the table: keep rows or drop them, only ever mark them revoked, and issue at most
one token, in a new family or after a live one that the same step revokes. The last theorem is
about one browser among others and needs more, `SessionInv`: no family is in the hands of two
browsers (`Apart`), a careful browser has one request under way (`OneCall`), and the token it
goes on with, from its jar or from the answer that will replace it, is live or its row is gone
(`Fresh`). `Acts` says in the same terms what a step of one browser can do to another: nothing.

**Search** (`SearchProofs`): `NothingIsSkipped` (`Complete`) and `NothingIsMadeUp` (`OnlyHits`),
from `SearchStaysInOrder`. `SearchInv` says that the results ascend and end at the cursor, that every
stable file up to the cursor is listed (`Covers`), that a request in flight continues the page
on screen (`Continues`) and that the sets it has expanded are what its filters ask for
(`Expands`). The last is false while a fuzzy filter's subtree moves, hence `Disturbed`: a value
that leaves the subtree after it was expanded still counts, also for a file that gets it only then.
Edits disturb nothing: a request in flight carries the filters it was sent with, and asking for
the next page only takes files out of `stable` and adds some to `ever` (`EditKeeps`,
`LoadMoreKeeps`).

**Permissions** (`PermissionsProofs`): `NearestRowsDecide` (`RulesAreNearest`),
`DeletionsTakeRows` (`DeletionsLeaveNoRows`) and `OtherStoragesStay` (`RowsStayLocal`), from
`PermissionsKeep`; `NearestRowsDecideAnywhere` states the first for `Permissions` itself. The
walk over sorted levels is a recursive function, and what such a function computes cannot be
proved by induction over the rows. Instead `Verdict` says in closed form what it returns from a
place on (the deepest level at or behind it that mentions the action, denials first), and
a place where the function differed from it would have a last one, which its own equation
contradicts (`WalkIs`): behind it the two agree, and from one level to the next
`VerdictStep` says they do the same. For deletions, a request holds rows it read earlier, so `NoOrphanRows` is inductive
only with `AloneInv`: what a request names is there until it is done, as long as requests come one
after the other. That deletions take their rows also when requests overlap needs no invariant, only
what each step does. `OthersStay` compares the rows fetched before and after a step.

**Accounts** (`AccountsProofs`). Each part of `MCAccounts` has its own invariant, and the other
parts stand still.
- `LockoutHolds` (`FailuresBounded`): for every key, failures plus the attempts that may still fail
  are below the threshold plus the slots (`Bounded`); a key that has reached the threshold is locked
  until its failures are forgotten (`LockedAtThreshold`), so no further attempt joins.
- `CodesOpenOneLogin` (`BackupCodeOnce`): a code that has opened a login is marked or gone
  (`CodesInv`); two requests may both hold it, but marking looks for one that is not marked.
- `ActiveIsConfirmed` (`EnabledIsConfirmed`): what an activation under way will enable has been
  confirmed (`SetupInv`), for one request after the other.
- `MigrationsApplyOnce` (`SchemaIsVersion`) and `RestartsKeepKeys` (`KeysOutliveRestarts`), from
  `StartInv`: at which step which key is held, and that nothing was sealed under another, with a crash
  at any step. A key file cut short is told apart, as the two keys treat it differently.
- `ThrottleImplementsBucket` (`ImplementsTokenBucket`), for any rate, burst, idle time and interval:
  what `Allow` finds is what the client has once those it drops are full again (`FoundIsLevel`),
  and those are idle for more than `Idle` ticks (`IdleTyped`). `ThrottleNeverForgets` adds the
  hypothesis that a bucket is full by then (`ForgottenAreFull`): no sweep can be seen.
- `MadeAccountsAreLinked` (`NoOrphanAccount`), `SessionsAreOwn` (`SessionFromOwnStart`) and
  `LinksAreVouchedFor` (`LinkMatchesEmail`): the account and its link are one transaction;
  `FlowInv` and `LinkInv` say what a callback that has passed a check may still rely on later.

**Requests** (`RequestsProofs`): `WritesReachTheirFile` (`WritesReachShown`), `ThumbnailsAreOwn`
(`ThumbnailIsOwn`), `AuditTellsTrue` (`AuditIsTrue`), `ListingIsAskedFor` (`NoStaleListing`),
`TagsGoWhereShown` (`TaggedAsShown`) and `PanelIsOfItsFile` (`PanelShowsItsFile`), all from
`RequestsKeep`. While no storage is deleted ids are given out in order, so the tables only
grow, and what a request has read of an id stays true of it (`KnowsTables`), also across the steps
at which it waits. For the audit log, what was done is what was logged plus what the requests owe
(`AuditInv`), and crashes only forget debts. For the page, an answer that may still be taken is
about the directory asked for last (`ListsAtNav`), what is selected or open was listed from
that storage (`ChosenFromNav`), and of a user who waits at most one answer about tags is to come
(`OneAnswer`).

**Only model-checked.**
- Liveness under fairness (`ScanEnds`, `CancelSettles`): out of the prover's reach.
- That a walk ends is not stated: `ScanWalk` has no fairness. What rules out a walk without end
  is proved, as `WalkListsNoMore` and `NoWayTwice`: there are finitely many ways of at most
  `MaxLength` entries, and none is listed twice.
- The violated runs show a counterexample; there is nothing to prove of them.

Type correctness is checked by a run for `Tags` and proved for `Tags`, `ScanJobs`, `FtsIndex`,
`RefreshTokens` and, where an invariant needs it, for the parts of `MCAccounts`; the other modules'
`TypeOK` document their state.

## 5. What is not modelled

Listed per component in `PROJECT.json`.

- **Tags:** names of types; the counts of usage and of a deletion's influence, which are reads;
  that a rename and a move sent in one request are two transactions, so that a refused move
  leaves the rename (`handlers_tags.go:184`).
- **Scans:** progress numbers; a scan with a path prefix (the server always passes `""`); the
  times of records (two scans of one storage are taken to compare in order); the scanner's
  config file and interactive mode.
- **Local storage and previews:** containment of paths, opening, archives, text previews.
- **Search:** the storage a search may be limited to, one more condition on a file, which the page
  sends and edits like the filters.
- **Web client:** the pages other than the browser and the search, the preview drawer, the
  context that holds the session.
- **Reads** that leave no trace: lists of users, groups, permissions, missing files, audit
  entries; the lookup of values by text is one query on the index `FtsIndex` is about.
- Cryptography, password hashing, image decoding and file-system calls are libraries or
  input/output; HTTP routing, JSON and configuration keep no state of their own.

### Behaviour the models show that no document rules out, or only in general terms

These were met while modelling. Each is what the code does when the hazard that a part
leaves out is put in; none has a run of its own.

- A grant whose checks came before the deletion of its principal and whose insert comes after it
  leaves a row, which the next holder of the id inherits (`perm/admin.go:54`;
  `design-v0.5.md:437` asks that the rows be removed).
- The pattern of `perm/resolve.go:44` makes a row about the file `a` decide about `ab` beside it
  as well, ignores case, and takes `_` and `%` in names as wildcards.
- Two administrators who delete each other in requests that overlap leave nobody
  (`handlers_admin.go:79`).
- An account deleted between the read of its email and the insert of the link, whose id is
  given out again, leads a link astray (`oauth.go:276`).
- A crash between the creation of the first user and its grant leaves an installation without
  an administrator for good (`server.go:194`).
- A crash between the opening and the filling of the master key's file stops every later
  start until the file is removed; after the rotation of the key what was sealed before is
  unreadable. The file of the key that signs tokens is not looked at: left empty by a crash, it
  is an empty key to every later start (`cmd/server/main.go:81`). `KeysOutliveRestarts` cannot see
  that, since the key is the same each time.
- Any statement of an ingest that fails, and a line beyond the scanner's limit, leaves the pipe
  unread (`ingest.go:78`, `:86`, `:92`, `:98`, `:102`, `:108`): a scanner with more to write than the
  pipe takes blocks, `cmd.Wait` (`ingest.go:132`) waits for it, and the job stays "scanning" until
  somebody cancels it.
- "Load more" sends the filters and the storage as they stand with the old cursor
  (`SearchPage.tsx:33`, `:150`), and editing them clears neither results nor cursor: the list then
  mixes files of the earlier and the edited filters, and files below the cursor that only the
  edited ones match are not listed.
- A client of the throttle that has not asked for more than ten minutes may be forgotten, and its
  bucket is full again (`ratelimit.go:78`). With a rate below burst / 10 minutes, which the
  configuration allows (0.05 a second and a burst of 40), that is sooner than by waiting.
- Of several values of a type with multiple values a path shows one, and which is open
  (`tagging.go:117`); `NearestWins` is about the set of rows that may come first.
- A thumbnail is compared by the path it was made from (`ThumbnailIsOwn`), not by the root or the
  content of the file; one made before the file changed is still served.
- The last page of a search has the cursor 0, and "load more" would start again from the first
  page (`SearchPage.tsx:146`).
- Thumbnails are cached by ids that are given out again, so a deleted storage's thumbnail is
  served for a file that takes over its ids (`handlers_preview.go:31`).
- The audit entry is a statement of its own after the operation and may be missing after a
  crash (`design-v0.5.md:1027` wants one transaction).
- A directory whose name holds a backslash is listed with it, and the entries below it under a
  slash, so they inherit nothing from it (`scan.rs:236`).
- The panel of tags shows the answer that arrives last, not the file opened last
  (`BrowserPage.tsx:117`).

## 6. Plan

1. `Tags`, `TagForest`, `TagsProofs` — done.
2. `ScanJobs`, `ScanJobsProofs` — done; `ScanWalk`, `ScanWalkProofs` — done.
3. `RefreshTokens`, `RefreshTokensProofs` — done.
4. `FtsIndex` — done; `SearchPages`, `EffectiveFields` — done.
5. `PermRules`, `Permissions` — done.
6. `TwoFactor`, `LoginLimiter`, `OAuthLink`, `ServerStart`, `RateLimit` with `TokenBucket` — done.
7. `FileRequests`, `BrowserPage` — done.
8. `SearchProofs`, `PermissionsProofs`, `AccountsProofs`, `RequestsProofs` and the refinement of
   `TagForest` — done.
9. `NearestWins` and the two properties of `ScanWalk` — done: every invariant and action property
   of a passing run is stated by a theorem, and liveness is what stays with TLC.

Abstract specifications: a forest, a bucket that is full again after a long rest. Runs stay within two or three
actors, two resources and three or four ids.
