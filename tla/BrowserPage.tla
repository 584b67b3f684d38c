----------------------------- MODULE BrowserPage -----------------------------
(***************************************************************************)
(* The file browser of the web client (web/src/pages/BrowserPage.tsx): the *)
(* component's state, the user's clicks, and the answers of the calls it   *)
(* makes, which arrive in any order and meet whatever is then selected.    *)
(*                                                                         *)
(* A click is offered only when it is on the screen: the listing is hidden *)
(* while a directory loads, the tag panel is not, and the open batch       *)
(* picker covers everything else.  A state update, the render and the      *)
(* effects it triggers are one step: React runs them before the next       *)
(* event.  An entry is known by its storage, its path and whether it has   *)
(* an id; the storage is not in the code's entry, which is what can go     *)
(* wrong.  Which field is applied, and previews, play no part.             *)
(***************************************************************************)
EXTENDS Naturals, FiniteSets

CONSTANTS
  Storages,    \* the storages to choose from
  Contents,    \* [directories -> the paths of their entries], in every storage
  Top,         \* the directory '' of a storage
  Nothing,     \* null
  Failures,    \* may calls fail
  Patient,     \* does the user wait for the answers about tags
  MaxTagging   \* bound: tagging requests in flight

Dirs  == DOMAIN Contents
Files == UNION {Contents[d] : d \in Dirs}

Place == [storage : Storages, dir : Dirs]
Entry == [storage : Storages, path : Files, id : BOOLEAN]

VARIABLES
  storage,   \* selectedStorage
  nav,       \* navRef: the directory asked for last
  lists,     \* list calls in flight: [at : Place, cancelled : BOOLEAN]
  loading,   \* loadingList
  shown,     \* currentPath, with the storage it was listed from
  entries,   \* the listing
  selected,  \* the paths ticked
  picker,    \* showBatchPicker
  panel,     \* tagFile
  asked,     \* the entries whose getFields calls are in flight
  waiting,   \* loadingFields
  fieldsOf,  \* the entry whose fields are in fileFields
  tagging    \* requests that tag: [kind, to, from, entry]

listing == <<nav, lists, loading, shown, entries>>
tags    == <<panel, asked, waiting, fieldsOf, tagging>>
vars    == <<storage, listing, selected, picker, tags>>

Init ==
  /\ storage = Nothing /\ nav = Nothing /\ lists = {} /\ loading = FALSE
  /\ shown = Nothing /\ entries = {} /\ selected = {} /\ picker = FALSE
  /\ panel = Nothing /\ asked = {} /\ waiting = FALSE /\ fieldsOf = Nothing
  /\ tagging = {}

-----------------------------------------------------------------------------
(* Directories *)

\* The effect of a new navKey: the running effect is cleaned up, its call goes
\* on but is cancelled; a new call is sent.
List(at) ==
  /\ lists' = {[c EXCEPT !.cancelled = TRUE] : c \in lists}
                \cup {[at |-> at, cancelled |-> FALSE]}
  /\ loading' = TRUE
  /\ UNCHANGED <<shown, entries>>

\* Mutant of LoadDir: the tag panel stays open.
LoadDirOnly(at) ==
  /\ nav' = at
  /\ List(at)
  /\ selected' = {}
  /\ UNCHANGED tags

LoadDir(at) ==
  /\ nav' = at
  /\ List(at)
  /\ selected' = {}
  /\ panel' = Nothing
  /\ UNCHANGED <<asked, waiting, fieldsOf, tagging>>

\* A patient user leaves a directory when the answers about tags have come.
MayLeave == ~picker /\ (Patient => asked = {} /\ tagging = {})

\* prevStorageRef is the storage of navRef: only a change of it loads anything.
ChooseStorage(s) ==
  /\ MayLeave
  /\ s # storage
  /\ storage' = s
  /\ UNCHANGED picker
  /\ IF s # Nothing /\ (nav = Nothing \/ nav.storage # s)
     THEN LoadDir([storage |-> s, dir |-> Top])
     ELSE UNCHANGED <<listing, selected, tags>>

\* A directory of the listing, or one of the breadcrumbs above it.
Navigate(d) ==
  /\ MayLeave
  /\ storage # Nothing
  /\ \/ d = Top
     \/ shown # Nothing /\ d = shown.dir
     \/ ~loading /\ d \in {e.path : e \in entries}
  /\ LoadDir([storage |-> storage, dir |-> d])
  /\ UNCHANGED <<storage, picker>>

\* Mutant of TakeListing: the answers of earlier effects are taken as well.
TakeAnyListing(c, indexed) ==
  /\ shown' = c.at
  /\ entries' = {[storage |-> c.at.storage, path |-> p, id |-> p \in indexed] :
                   p \in Contents[c.at.dir]}

\* if (cancelled) return
TakeListing(c, indexed) ==
  IF c.cancelled
  THEN UNCHANGED <<shown, entries>>
  ELSE /\ shown' = c.at
       /\ entries' = {[storage |-> c.at.storage, path |-> p, id |-> p \in indexed] :
                        p \in Contents[c.at.dir]}

\* finally: if (!cancelled) setLoadingList(false)
Settle(c) == loading' = (loading /\ c.cancelled)

ListAnswered(c, indexed) ==
  /\ indexed \subseteq Contents[c.at.dir]
  /\ c.cancelled => indexed = {}      \* the answer is not looked at
  /\ lists' = lists \ {c}
  /\ TakeListing(c, indexed)
  /\ Settle(c)
  /\ UNCHANGED <<storage, nav, selected, picker, tags>>

\* The listing on the screen stays the one of the directory before.
ListFails(c) ==
  /\ Failures
  /\ lists' = lists \ {c}
  /\ Settle(c)
  /\ UNCHANGED <<storage, nav, shown, entries, selected, picker, tags>>

-----------------------------------------------------------------------------
(* Selection and batches *)

Visible == ~picker /\ ~loading

Toggle(e) ==
  /\ Visible
  /\ selected' = IF e.path \in selected THEN selected \ {e.path}
                                        ELSE selected \cup {e.path}
  /\ UNCHANGED <<storage, listing, picker, tags>>

OpenPicker ==
  /\ ~picker
  /\ selected # {}
  /\ picker' = TRUE
  /\ UNCHANGED <<storage, listing, selected, tags>>

ClosePicker ==
  /\ picker
  /\ picker' = FALSE
  /\ UNCHANGED <<storage, listing, selected, tags>>

MayTag ==
  /\ storage # Nothing
  /\ Cardinality(tagging) < MaxTagging
  /\ Patient => tagging = {}

Batch(from) == [kind |-> "batch", to |-> storage, from |-> from, entry |-> Nothing]

\* Every ticked path is sent with selectedStorage.
BatchApply ==
  /\ picker
  /\ MayTag
  /\ tagging' = tagging \cup {Batch(shown.storage)}
  /\ UNCHANGED <<storage, listing, selected, picker, panel, asked, waiting, fieldsOf>>

BatchAnswered(t) ==
  /\ t.kind = "batch"
  /\ tagging' = tagging \ {t}
  /\ picker' = FALSE
  /\ selected' = {}
  /\ UNCHANGED <<storage, listing, panel, asked, waiting, fieldsOf>>

-----------------------------------------------------------------------------
(* The tag panel *)

\* Mutant of OpenTagPanel: an entry with an id shows what is there already.
OpenWithoutAsking(e) ==
  /\ panel' = e
  /\ fieldsOf' = IF e.id THEN fieldsOf ELSE Nothing
  /\ UNCHANGED <<asked, waiting>>

OpenTagPanel(e) ==
  /\ panel' = e
  /\ IF e.id
     THEN asked' = asked \cup {e} /\ waiting' = TRUE /\ UNCHANGED fieldsOf
     ELSE fieldsOf' = Nothing /\ UNCHANGED <<asked, waiting>>

Open(e) ==
  /\ Visible
  /\ Patient => asked = {} /\ tagging = {}
  /\ OpenTagPanel(e)
  /\ UNCHANGED <<storage, listing, selected, picker, tagging>>

Close ==
  /\ ~picker
  /\ panel # Nothing
  /\ panel' = Nothing
  /\ UNCHANGED <<storage, listing, selected, picker, asked, waiting, fieldsOf, tagging>>

\* Nothing compares the file the answer is about with the panel.
FieldsAnswered(e) ==
  /\ asked' = asked \ {e}
  /\ fieldsOf' = e
  /\ waiting' = FALSE
  /\ UNCHANGED <<storage, listing, selected, picker, panel, tagging>>

FieldsFail(e) ==
  /\ Failures
  /\ asked' = asked \ {e}
  /\ waiting' = FALSE
  /\ UNCHANGED <<storage, listing, selected, picker, panel, fieldsOf, tagging>>

\* addField by id reaches the entry's own file; tagByPath goes to the same path
\* in selectedStorage.
TargetOf(e) == IF e.id THEN e.storage ELSE storage

Request(e) == [kind |-> "panel", to |-> TargetOf(e), from |-> e.storage, entry |-> e]

ApplyTag ==
  /\ ~picker
  /\ panel # Nothing
  /\ MayTag
  /\ tagging' = tagging \cup {Request(panel)}
  /\ UNCHANGED <<storage, listing, selected, picker, panel, asked, waiting, fieldsOf>>

\* removeField(tagFile.id, ...): the fields are on the screen, the panel has an id.
RemoveTag ==
  /\ ~picker /\ ~waiting
  /\ panel # Nothing /\ panel.id
  /\ MayTag
  /\ tagging' = tagging \cup {Request(panel)}
  /\ UNCHANGED <<storage, listing, selected, picker, panel, asked, waiting, fieldsOf>>

\* The handler goes on with the tagFile it was called with.
TagAnswered(t) ==
  /\ t.kind = "panel"
  /\ tagging' = tagging \ {t}
  /\ OpenTagPanel(t.entry)
  /\ UNCHANGED <<storage, listing, selected, picker>>

\* The exception ends the handler.
TagFails(t) ==
  /\ Failures
  /\ tagging' = tagging \ {t}
  /\ UNCHANGED <<storage, listing, selected, picker, panel, asked, waiting, fieldsOf>>

-----------------------------------------------------------------------------
Next ==
  \/ \E s \in Storages \cup {Nothing} : ChooseStorage(s)
  \/ \E d \in Dirs : Navigate(d)
  \/ \E c \in lists, indexed \in SUBSET Files : ListAnswered(c, indexed)
  \/ \E c \in lists : ListFails(c)
  \/ \E e \in entries : Toggle(e) \/ Open(e)
  \/ OpenPicker \/ ClosePicker \/ BatchApply \/ Close \/ ApplyTag \/ RemoveTag
  \/ \E e \in asked : FieldsAnswered(e) \/ FieldsFail(e)
  \/ \E t \in tagging : BatchAnswered(t) \/ TagAnswered(t) \/ TagFails(t)

Spec == Init /\ [][Next]_vars

-----------------------------------------------------------------------------
(* What must hold *)

\* Type invariant of the component's state and of the calls in flight.
TypeOK ==
  /\ storage \in Storages \cup {Nothing}
  /\ nav \in Place \cup {Nothing} /\ shown \in Place \cup {Nothing}
  /\ lists \subseteq [at : Place, cancelled : BOOLEAN]
  /\ {loading, picker, waiting} \subseteq BOOLEAN
  /\ entries \subseteq Entry /\ asked \subseteq Entry
  /\ selected \subseteq Files
  /\ panel \in Entry \cup {Nothing} /\ fieldsOf \in Entry \cup {Nothing}
  /\ \A t \in tagging : t.to \in Storages /\ t.from \in Storages

\* However the answers of the directories asked for overtake each other, the
\* listing only ever changes to the directory asked for last, and then the page
\* stops loading: the cancelled flag of the effect and the flag in finally.
ListsAnew == shown' # shown \/ entries' # entries => shown' = nav' /\ ~loading'

NoStaleListing == [][ListsAnew]_vars

\* For a user who waits for the answers about tags, and while no call fails,
\* every tag goes to the storage its entry was listed from, although neither an
\* entry nor the selection says which one that is.
TaggedAsShown == \A t \in tagging : t.to = t.from

\* Under the same conditions the panel of a file shows that file's fields, so
\* that what is removed there is what was seen there.
PanelShowsItsFile ==
  panel # Nothing /\ panel.id /\ ~waiting => fieldsOf = panel
=============================================================================
