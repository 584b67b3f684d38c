---------------------------- MODULE RequestsProofs ----------------------------
(***************************************************************************)
(* Proofs about requests for files and about the browser page, for every   *)
(* number of requests, any paths, roots and storages, and every bound of   *)
(* MCRequests.                                                             *)
(***************************************************************************)
EXTENDS MCRequests, FiniteSetTheorems, TLAPS

-----------------------------------------------------------------------------
(* The listing: an answer that may still be taken is about the directory   *)
(* asked for last.                                                         *)

ListsAtNav(b) ==
  /\ storage \in b.storages \cup {Nothing}
  /\ lists \subseteq [at : Page(b)!Place, cancelled : BOOLEAN]
  /\ \A c \in lists : ~c.cancelled => c.at = nav

\* Asking for a directory cancels the answers that are still to come.
LEMMA ListCancels ==
  ASSUME NEW b, NEW at, ListsAtNav(b), Page(b)!List(at), at \in Page(b)!Place, nav' = at,
         storage' \in b.storages \cup {Nothing}
  PROVE  ListsAtNav(b)' /\ UNCHANGED <<shown, entries>>
<1>1. lists' = {[c EXCEPT !.cancelled = TRUE] : c \in lists}
                 \cup {[at |-> at, cancelled |-> FALSE]}
  BY DEF Page!List
<1>2. ASSUME NEW d \in lists'
      PROVE  d \in [at : Page(b)!Place, cancelled : BOOLEAN] /\ (~d.cancelled => d.at = at)
  <2>1. CASE d = [at |-> at, cancelled |-> FALSE]
    BY <2>1
  <2>2. CASE d \in {[c EXCEPT !.cancelled = TRUE] : c \in lists}
    <3>1. PICK c \in lists : d = [c EXCEPT !.cancelled = TRUE]
      BY <2>2
    <3>2. c \in [at : Page(b)!Place, cancelled : BOOLEAN]
      BY DEF ListsAtNav
    <3> QED BY <3>1, <3>2
  <2> QED BY <1>1, <2>1, <2>2
<1> QED BY <1>2 DEF ListsAtNav, Page!List, Page!Place, Page!Dirs

\* Whatever the page does, the listing changes to the directory asked for last only.
LEMMA PageLists ==
  ASSUME NEW b, ListsAtNav(b), Page(b)!Next
  PROVE  ListsAtNav(b)' /\ Page(b)!ListsAnew
<1> USE DEF Page!listing, Page!tags
<1>1. ASSUME NEW at, at \in Page(b)!Place, Page(b)!LoadDir(at),
             storage' \in b.storages \cup {Nothing}
      PROVE  ListsAtNav(b)' /\ Page(b)!ListsAnew
  <2>1. Page(b)!List(at) /\ nav' = at
    BY <1>1 DEF Page!LoadDir
  <2> QED BY <1>1, <2>1, ListCancels DEF Page!ListsAnew
<1>2. ASSUME storage' \in b.storages \cup {Nothing}, lists' \subseteq lists, nav' = nav,
             UNCHANGED <<shown, entries>>
      PROVE  ListsAtNav(b)' /\ Page(b)!ListsAnew
  BY <1>2 DEF ListsAtNav, Page!ListsAnew, Page!Place, Page!Dirs
<1>3. storage \in b.storages \cup {Nothing}
  BY DEF ListsAtNav
<1>4. ASSUME NEW s \in b.storages \cup {Nothing}, Page(b)!ChooseStorage(s)
      PROVE  ListsAtNav(b)' /\ Page(b)!ListsAnew
  <2>1. storage' \in b.storages \cup {Nothing}
    BY <1>4 DEF Page!ChooseStorage
  <2>2. CASE s # Nothing /\ (nav = Nothing \/ nav.storage # s)
    <3>1. Page(b)!LoadDir([storage |-> s, dir |-> Top])
      BY <1>4, <2>2 DEF Page!ChooseStorage
    <3>2. [storage |-> s, dir |-> Top] \in Page(b)!Place
      BY <2>2 DEF Page!Place, Page!Dirs, TwoDirs
    <3> QED BY <1>1, <2>1, <3>1, <3>2
  <2>3. CASE ~(s # Nothing /\ (nav = Nothing \/ nav.storage # s))
    BY <1>2, <1>4, <2>1, <2>3 DEF Page!ChooseStorage
  <2> QED BY <2>2, <2>3
<1>5. ASSUME NEW d \in Page(b)!Dirs, Page(b)!Navigate(d)
      PROVE  ListsAtNav(b)' /\ Page(b)!ListsAnew
  <2>1. Page(b)!LoadDir([storage |-> storage, dir |-> d]) /\ storage' = storage
    BY <1>5 DEF Page!Navigate
  <2>2. [storage |-> storage, dir |-> d] \in Page(b)!Place
    BY <1>3, <1>5 DEF Page!Navigate, Page!Place
  <2> QED BY <1>1, <1>3, <2>1, <2>2
<1>6. ASSUME NEW c \in lists, NEW indexed, Page(b)!ListAnswered(c, indexed)
      PROVE  ListsAtNav(b)' /\ Page(b)!ListsAnew
  <2>1. lists' \subseteq lists /\ nav' = nav /\ storage' = storage
    BY <1>6 DEF Page!ListAnswered
  <2>2. CASE c.cancelled
    <3>1. UNCHANGED <<shown, entries>>
      BY <1>6, <2>2 DEF Page!ListAnswered, Page!TakeListing
    <3> QED BY <1>2, <1>3, <2>1, <3>1
  <2>3. CASE ~c.cancelled
    <3>1. shown' = c.at /\ ~loading'
      BY <1>6, <2>3 DEF Page!ListAnswered, Page!TakeListing, Page!Settle
    <3>2. c.at = nav
      BY <2>3 DEF ListsAtNav
    <3>3. Page(b)!ListsAnew
      BY <2>1, <3>1, <3>2 DEF Page!ListsAnew
    <3> QED BY <2>1, <3>3 DEF ListsAtNav, Page!Place, Page!Dirs
  <2> QED BY <2>2, <2>3
<1>7. ASSUME NEW c \in lists, Page(b)!ListFails(c)
      PROVE  ListsAtNav(b)' /\ Page(b)!ListsAnew
  BY <1>2, <1>3, <1>7 DEF Page!ListFails
<1>8. ASSUME UNCHANGED <<storage, nav, lists, loading, shown, entries>>
      PROVE  ListsAtNav(b)' /\ Page(b)!ListsAnew
  BY <1>2, <1>3, <1>8
<1>9. CASE \E e \in entries : Page(b)!Toggle(e) \/ Page(b)!Open(e)
  BY <1>8, <1>9 DEF Page!Toggle, Page!Open
<1>10. CASE \/ Page(b)!OpenPicker \/ Page(b)!ClosePicker \/ Page(b)!BatchApply
            \/ Page(b)!Close \/ Page(b)!ApplyTag \/ Page(b)!RemoveTag
  BY <1>8, <1>10 DEF Page!OpenPicker, Page!ClosePicker, Page!BatchApply, Page!Close,
                     Page!ApplyTag, Page!RemoveTag
<1>11. CASE \E e \in asked : Page(b)!FieldsAnswered(e) \/ Page(b)!FieldsFail(e)
  BY <1>8, <1>11 DEF Page!FieldsAnswered, Page!FieldsFail
<1>12. CASE \E t \in tagging : \/ Page(b)!BatchAnswered(t) \/ Page(b)!TagAnswered(t)
                               \/ Page(b)!TagFails(t)
  BY <1>8, <1>12 DEF Page!BatchAnswered, Page!TagAnswered, Page!TagFails
<1> QED BY <1>4, <1>5, <1>6, <1>7, <1>9, <1>10, <1>11, <1>12 DEF Page!Next


-----------------------------------------------------------------------------
(* Tags: of a user who waits, and while no call fails, what is selected or *)
(* open belongs to the storage asked for last, and at most one answer      *)
(* about tags is to come.                                                  *)

\* The listing on the screen is the one of the storage asked for last.
ShowsNav ==
  /\ storage # Nothing => nav.storage = storage
  /\ ~loading => shown = nav /\ \A e \in entries : e.storage = nav.storage

\* What is selected or open was listed from that storage.
ChosenFromNav ==
  /\ selected # {} => ~loading
  /\ picker => selected # {}
  /\ panel # Nothing => panel.storage = nav.storage
  /\ \A t \in tagging : t.kind = "panel" => t.entry.storage = nav.storage

\* The answers to come are about one file, the one that is open unless none is.
OneAnswer ==
  /\ \A a, e \in asked : a = e
  /\ \A t, u \in tagging : t = u
  /\ \A a \in asked : a.id /\ panel \in {Nothing, a}
  /\ \A t \in tagging :
       t.kind = "panel" => panel \in {Nothing, t.entry} /\ \A a \in asked : t.entry = a

Waits(b) ==
  /\ ListsAtNav(b) /\ ShowsNav /\ ChosenFromNav /\ OneAnswer
  /\ Page(b)!TaggedAsShown /\ Page(b)!PanelShowsItsFile

\* Leaving a directory closes the panel and clears the selection.
LEMMA LoadDirWaits ==
  ASSUME NEW b, NEW at, Waits(b), Page(b)!LoadDir(at), ListsAtNav(b)',
         asked = {}, tagging = {}, ~picker, picker' = picker,
         storage' # Nothing => at.storage = storage'
  PROVE  Waits(b)'
<1> USE DEF Page!LoadDir, Page!List, Waits
<1>1. ShowsNav'
  BY DEF ShowsNav
<1>2. ChosenFromNav' /\ OneAnswer'
  BY DEF ChosenFromNav, OneAnswer
<1>3. Page(b)!TaggedAsShown' /\ Page(b)!PanelShowsItsFile'
  BY DEF Page!TaggedAsShown, Page!PanelShowsItsFile
<1> QED BY <1>1, <1>2, <1>3

\* A page whose user waits, step by step.
LEMMA PageWaits ==
  ASSUME NEW b, b.patient, ~b.failures, Waits(b), Page(b)!Next
  PROVE  Waits(b)'
<1> USE DEF Page!listing, Page!tags
<1>0. ListsAtNav(b)'
  BY PageLists DEF Waits
<1>1. ASSUME NEW s \in b.storages \cup {Nothing}, Page(b)!ChooseStorage(s)
      PROVE  Waits(b)'
  <2>1. asked = {} /\ tagging = {} /\ ~picker /\ picker' = picker /\ storage' = s
    BY <1>1 DEF Page!ChooseStorage, Page!MayLeave
  <2>2. CASE s # Nothing /\ (nav = Nothing \/ nav.storage # s)
    <3>1. Page(b)!LoadDir([storage |-> s, dir |-> Top])
      BY <1>1, <2>2 DEF Page!ChooseStorage
    <3> QED BY <1>0, <2>1, <3>1, LoadDirWaits
  <2>3. CASE ~(s # Nothing /\ (nav = Nothing \/ nav.storage # s))
    <3>1. UNCHANGED <<nav, lists, loading, shown, entries, selected, panel, asked, waiting,
                      fieldsOf, tagging>>
      BY <1>1, <2>3 DEF Page!ChooseStorage
    <3> QED BY <1>0, <2>1, <2>3, <3>1
            DEF Waits, ShowsNav, ChosenFromNav, OneAnswer, Page!TaggedAsShown,
                Page!PanelShowsItsFile
  <2> QED BY <2>2, <2>3
<1>2. ASSUME NEW d \in Page(b)!Dirs, Page(b)!Navigate(d)
      PROVE  Waits(b)'
  <2>1. /\ asked = {} /\ tagging = {} /\ ~picker /\ picker' = picker
        /\ storage # Nothing /\ storage' = storage
        /\ Page(b)!LoadDir([storage |-> storage, dir |-> d])
    BY <1>2 DEF Page!Navigate, Page!MayLeave
  <2> QED BY <1>0, <2>1, LoadDirWaits
<1>3. ASSUME NEW c \in lists, NEW indexed, Page(b)!ListAnswered(c, indexed)
      PROVE  Waits(b)'
  <2>1. UNCHANGED <<storage, nav, selected, picker, panel, asked, waiting, fieldsOf, tagging>>
    BY <1>3 DEF Page!ListAnswered
  <2>2. /\ c.cancelled => UNCHANGED <<shown, entries>>
        /\ ~c.cancelled => shown' = nav /\ \A e \in entries' : e.storage = nav.storage
    BY <1>3 DEF Page!ListAnswered, Page!TakeListing, Waits, ListsAtNav
  <2>3. ~loading' => ~loading \/ ~c.cancelled
    BY <1>3 DEF Page!ListAnswered, Page!Settle
  <2>4. ~loading => ~loading'
    BY <1>3 DEF Page!ListAnswered, Page!Settle
  <2>5. ShowsNav'
    BY <2>1, <2>2, <2>3 DEF Waits, ShowsNav
  <2> QED BY <1>0, <2>1, <2>4, <2>5
          DEF Waits, ChosenFromNav, OneAnswer, Page!TaggedAsShown, Page!PanelShowsItsFile
<1>4. ASSUME NEW c \in lists, Page(b)!ListFails(c)
      PROVE  Waits(b)'
  BY <1>4 DEF Page!ListFails
<1>5. ASSUME NEW e \in entries, Page(b)!Toggle(e)
      PROVE  Waits(b)'
  BY <1>0, <1>5 DEF Page!Toggle, Page!Visible, Waits, ShowsNav, ChosenFromNav, OneAnswer,
                    Page!TaggedAsShown, Page!PanelShowsItsFile
<1>6. ASSUME NEW e \in entries, Page(b)!Open(e)
      PROVE  Waits(b)'
  <2>1. /\ asked = {} /\ tagging = {} /\ ~loading /\ panel' = e
        /\ UNCHANGED <<storage, nav, lists, loading, shown, entries, selected, picker, tagging>>
        /\ e.id => asked' = {e} /\ waiting'
        /\ ~e.id => asked' = {}
    BY <1>6 DEF Page!Open, Page!OpenTagPanel, Page!Visible
  <2>2. e.storage = nav.storage
    BY <2>1 DEF Waits, ShowsNav
  <2> QED BY <1>0, <2>1, <2>2
          DEF Waits, ShowsNav, ChosenFromNav, OneAnswer, Page!TaggedAsShown,
              Page!PanelShowsItsFile
<1>7. CASE Page(b)!OpenPicker \/ Page(b)!ClosePicker \/ Page(b)!Close
  BY <1>0, <1>7 DEF Page!OpenPicker, Page!ClosePicker, Page!Close, Waits, ShowsNav,
                    ChosenFromNav, OneAnswer, Page!TaggedAsShown, Page!PanelShowsItsFile
<1>8. CASE Page(b)!BatchApply
  <2>1. /\ tagging = {} /\ picker /\ storage # Nothing
        /\ tagging' = {[kind |-> "batch", to |-> storage, from |-> shown.storage,
                        entry |-> Nothing]}
        /\ UNCHANGED <<storage, nav, lists, loading, shown, entries, selected, picker, panel,
                       asked, waiting, fieldsOf>>
    BY <1>8 DEF Page!BatchApply, Page!MayTag, Page!Batch
  <2>2. shown.storage = storage
    BY <2>1 DEF Waits, ShowsNav, ChosenFromNav
  <2> QED BY <1>0, <2>1, <2>2
          DEF Waits, ShowsNav, ChosenFromNav, OneAnswer, Page!TaggedAsShown,
              Page!PanelShowsItsFile
<1>9. CASE Page(b)!ApplyTag \/ Page(b)!RemoveTag
  <2>1. /\ tagging = {} /\ panel # Nothing /\ storage # Nothing
        /\ tagging' = {[kind |-> "panel", to |-> IF panel.id THEN panel.storage ELSE storage,
                        from |-> panel.storage, entry |-> panel]}
        /\ UNCHANGED <<storage, nav, lists, loading, shown, entries, selected, picker, panel,
                       asked, waiting, fieldsOf>>
    BY <1>9 DEF Page!ApplyTag, Page!RemoveTag, Page!MayTag, Page!Request, Page!TargetOf
  <2>2. panel.storage = storage
    BY <2>1 DEF Waits, ShowsNav, ChosenFromNav
  <2> QED BY <1>0, <2>1, <2>2
          DEF Waits, ShowsNav, ChosenFromNav, OneAnswer, Page!TaggedAsShown,
              Page!PanelShowsItsFile
<1>10. ASSUME NEW e \in asked, Page(b)!FieldsAnswered(e)
       PROVE  Waits(b)'
  <2>1. /\ asked' = {} /\ fieldsOf' = e
        /\ UNCHANGED <<storage, nav, lists, loading, shown, entries, selected, picker, panel,
                       tagging>>
    BY <1>10 DEF Page!FieldsAnswered, Waits, OneAnswer
  <2>2. panel \in {Nothing, e}
    BY DEF Waits, OneAnswer
  <2> QED BY <1>0, <2>1, <2>2
          DEF Waits, ShowsNav, ChosenFromNav, OneAnswer, Page!TaggedAsShown,
              Page!PanelShowsItsFile
<1>11. ASSUME NEW e \in asked, Page(b)!FieldsFail(e)
       PROVE  Waits(b)'
  BY <1>11 DEF Page!FieldsFail
<1>12. ASSUME NEW t \in tagging, Page(b)!BatchAnswered(t)
       PROVE  Waits(b)'
  BY <1>0, <1>12 DEF Page!BatchAnswered, Waits, ShowsNav, ChosenFromNav, OneAnswer,
                     Page!TaggedAsShown, Page!PanelShowsItsFile
<1>13. ASSUME NEW t \in tagging, Page(b)!TagAnswered(t)
       PROVE  Waits(b)'
  <2>1. /\ tagging' = {} /\ panel' = t.entry /\ t.kind = "panel"
        /\ UNCHANGED <<storage, nav, lists, loading, shown, entries, selected, picker>>
        /\ t.entry.id => asked' = asked \cup {t.entry} /\ waiting'
        /\ ~t.entry.id => asked' = asked
    BY <1>13 DEF Page!TagAnswered, Page!OpenTagPanel, Waits, OneAnswer
  <2>2. t.entry.storage = nav.storage /\ \A a \in asked : t.entry = a
    BY <2>1 DEF Waits, OneAnswer, ChosenFromNav
  <2>3. ShowsNav' /\ ChosenFromNav' /\ OneAnswer'
    BY <2>1, <2>2 DEF Waits, ShowsNav, ChosenFromNav, OneAnswer
  <2>4. Page(b)!TaggedAsShown' /\ Page(b)!PanelShowsItsFile'
    BY <2>1 DEF Page!TaggedAsShown, Page!PanelShowsItsFile
  <2> QED BY <1>0, <2>3, <2>4 DEF Waits
<1>14. ASSUME NEW t \in tagging, Page(b)!TagFails(t)
       PROVE  Waits(b)'
  BY <1>14 DEF Page!TagFails
<1> QED BY <1>1, <1>2, <1>3, <1>4, <1>5, <1>6, <1>7, <1>8, <1>9, <1>10, <1>11, <1>12, <1>13,
           <1>14 DEF Page!Next

-----------------------------------------------------------------------------
(* The audit log: a request between its operation and its entry owes one.  *)

Owing == {c \in Slots : calls[c].phase = "written"}

AuditInv ==
  /\ DOMAIN calls = Slots
  /\ done \in Nat /\ logged \in Nat
  /\ logged + Cardinality(Owing) <= done

LEMMA OwingCount == Owing \subseteq Slots /\ IsFiniteSet(Owing) /\ Cardinality(Owing) \in Nat
<1>1. Owing \subseteq Slots
  BY DEF Owing
<1> QED BY <1>1, SlotsAssumption, FS_Subset, FS_CardinalityType

\* An operation is counted as its request comes to owe the entry; an entry is written by
\* a request that owes it; a crash forgets what is owed.
LEMMA StepAudits ==
  ASSUME NEW b, AuditInv, Server(b)!Next
  PROVE  AuditInv'
<1> USE DEF Server!Become, Server!NoCall, Server!counters, Server!history, Server!audit
<1>1. IsFiniteSet(Owing) /\ Cardinality(Owing) \in Nat /\ done \in Nat /\ logged \in Nat
  BY OwingCount DEF AuditInv
<1>2. ASSUME DOMAIN calls' = Slots, UNCHANGED <<done, logged>>, Owing' \subseteq Owing
      PROVE  AuditInv'
  <2>1. Cardinality(Owing') \in Nat /\ Cardinality(Owing') <= Cardinality(Owing)
    BY <1>1, <1>2, FS_Subset, FS_CardinalityType
  <2> QED BY <1>1, <1>2, <2>1 DEF AuditInv
<1>3. ASSUME NEW c \in Slots, DOMAIN calls' = Slots, done' = done + 1, UNCHANGED logged,
             Owing' \subseteq Owing \cup {c}
      PROVE  AuditInv'
  <2>1. IsFiniteSet(Owing \cup {c}) /\ Cardinality(Owing \cup {c}) <= Cardinality(Owing) + 1
    <3>1. Cardinality(Owing \cup {c})
            = IF c \in Owing THEN Cardinality(Owing) ELSE Cardinality(Owing) + 1
      BY <1>1, FS_AddElement
    <3>2. IsFiniteSet(Owing \cup {c})
      BY <1>1, FS_AddElement
    <3> QED BY <1>1, <3>1, <3>2
  <2>2. Cardinality(Owing') \in Nat /\ Cardinality(Owing') <= Cardinality(Owing \cup {c})
        /\ Cardinality(Owing \cup {c}) \in Nat
    BY <1>3, <2>1, FS_Subset, FS_CardinalityType
  <2> QED BY <1>1, <1>3, <2>1, <2>2 DEF AuditInv
<1>4. ASSUME NEW c \in Slots, NEW call, calls' = [calls EXCEPT ![c] = call],
             call.phase # "written"
      PROVE  DOMAIN calls' = Slots /\ Owing' \subseteq Owing
  BY <1>4 DEF AuditInv, Owing
<1>5. ASSUME NEW c \in Slots, NEW call, calls' = [calls EXCEPT ![c] = call]
      PROVE  DOMAIN calls' = Slots /\ Owing' \subseteq Owing \cup {c}
  BY <1>5 DEF AuditInv, Owing
<1>6. ASSUME UNCHANGED <<calls, done, logged>>
      PROVE  AuditInv'
  BY <1>6 DEF AuditInv, Owing
<1>7. ASSUME NEW c \in Slots, NEW call, calls' = [calls EXCEPT ![c] = call],
             call.phase # "written", UNCHANGED <<done, logged>>
      PROVE  AuditInv'
  BY <1>2, <1>4, <1>7
<1>8. ASSUME NEW c \in Slots, NEW call, calls' = [calls EXCEPT ![c] = call], done' = done + 1,
             UNCHANGED logged
      PROVE  AuditInv'
  BY <1>3, <1>5, <1>8
<1>9. CASE Server(b)!Crash
  <2>1. Owing' = {} /\ DOMAIN calls' = Slots /\ UNCHANGED <<done, logged>>
    BY <1>9 DEF Server!Crash, Owing
  <2> QED BY <1>2, <2>1
<1>10. ASSUME NEW c \in Slots, NEW r \in Roots, Server(b)!CreateStorage(c, r)
       PROVE  AuditInv'
  BY <1>6, <1>10 DEF Server!CreateStorage
<1>11. ASSUME NEW c \in Slots, NEW s \in DOMAIN storages,
              \/ Server(b)!DeleteStorage(c, s) \/ Server(b)!BeginUpdateStorage(c, s)
              \/ \E r \in Roots : Server(b)!UpdateStorageRoot(c, s, r)
              \/ \E p \in b.paths : Server(b)!ListDir(c, s, p)
       PROVE  AuditInv'
  <2>1. CASE Server(b)!DeleteStorage(c, s)
    BY <1>8, <2>1 DEF Server!DeleteStorage
  <2>2. CASE Server(b)!BeginUpdateStorage(c, s)
    <3>1. DOMAIN calls' = Slots /\ Owing' \subseteq Owing /\ UNCHANGED <<done, logged>>
      BY <2>2 DEF Server!BeginUpdateStorage, AuditInv, Owing
    <3> QED BY <1>2, <3>1
  <2>3. CASE \E r \in Roots : Server(b)!UpdateStorageRoot(c, s, r)
    BY <1>6, <2>3 DEF Server!UpdateStorageRoot
  <2>4. CASE \E p \in b.paths : Server(b)!ListDir(c, s, p)
    <3>1. DOMAIN calls' = Slots /\ Owing' \subseteq Owing /\ UNCHANGED <<done, logged>>
      BY <2>4 DEF Server!ListDir, AuditInv, Owing
    <3> QED BY <1>2, <3>1
  <2> QED BY <1>11, <2>1, <2>2, <2>3, <2>4
<1>12. ASSUME NEW c \in Slots, Server(b)!UpdateStorage(c) \/ Server(b)!JoinRows(c)
       PROVE  AuditInv'
  BY <1>7, <1>12 DEF Server!UpdateStorage, Server!JoinRows
<1>13. ASSUME NEW c \in Slots, NEW act \in Server(b)!Acts, Server(b)!FileForAction(c, act)
       PROVE  AuditInv'
  <2>1. act # "written"
    BY DEF Server!Acts
  <2>2. DOMAIN calls' = Slots /\ Owing' \subseteq Owing /\ UNCHANGED <<done, logged>>
    BY <1>13, <2>1 DEF Server!FileForAction, AuditInv, Owing
  <2> QED BY <1>2, <2>2
<1>14. ASSUME NEW c \in Slots, Server(b)!WriteField(c)
       PROVE  AuditInv'
  BY <1>7, <1>8, <1>14 DEF Server!WriteField, Server!Perform
<1>15. ASSUME NEW c \in Slots, Server(b)!SetThumbnail(c) \/ Server(b)!StatPath(c)
       PROVE  AuditInv'
  BY <1>7, <1>15 DEF Server!SetThumbnail, Server!StatPath
<1>16. ASSUME NEW c \in Slots, Server(b)!ApplyByPath(c)
       PROVE  AuditInv'
  BY <1>7, <1>8, <1>16 DEF Server!ApplyByPath, Server!Perform
<1>17. ASSUME NEW c \in Slots, Server(b)!Log(c)
       PROVE  AuditInv'
  <2>1. /\ c \in Owing /\ DOMAIN calls' = Slots /\ Owing' = Owing \ {c}
        /\ logged' = logged + 1 /\ done' = done
    BY <1>17 DEF Server!Log, AuditInv, Owing
  <2>2. Cardinality(Owing') = Cardinality(Owing) - 1 /\ Cardinality(Owing') \in Nat
    BY <1>1, <2>1, FS_RemoveElement, FS_CardinalityType
  <2> QED BY <1>1, <2>1, <2>2 DEF AuditInv
<1>18. ASSUME NEW c \in Slots, Server(b)!ServeCached(c) \/ Server(b)!Generate(c)
       PROVE  AuditInv'
  BY <1>7, <1>18 DEF Server!ServeCached, Server!Generate
<1>19. ASSUME NEW c \in Slots, Server(b)!StoreThumbnail(c) \/ Server(b)!RecordThumbnail(c)
       PROVE  AuditInv'
  <2>1. CASE Server(b)!StoreThumbnail(c)
    <3>1. DOMAIN calls' = Slots /\ Owing' \subseteq Owing /\ UNCHANGED <<done, logged>>
      BY <2>1 DEF Server!StoreThumbnail, AuditInv, Owing
    <3> QED BY <1>2, <3>1
  <2>2. CASE Server(b)!RecordThumbnail(c)
    <3>1. DOMAIN calls' = Slots /\ Owing' \subseteq Owing /\ UNCHANGED <<done, logged>>
      BY <2>2 DEF Server!RecordThumbnail, AuditInv, Owing
    <3> QED BY <1>2, <3>1
  <2> QED BY <1>19, <2>1, <2>2
<1> QED BY <1>9, <1>10, <1>11, <1>12, <1>13, <1>14, <1>15, <1>16, <1>17, <1>18, <1>19
        DEF Server!Next

-----------------------------------------------------------------------------
(* Files: while no storage is deleted, ids are given out in order and      *)
(* never again, so that what a request has read stays true of its id.      *)

Kinds == {"none", "manual", "cache"}

Row(b, st) == [storage : DOMAIN st, birth : Nat, path : b.paths, thumb : Kinds]

\* The tables st of storages and fs of files: every file carries its storage's birth.
Tables(b, st, fs) ==
  /\ births \in Nat /\ DOMAIN st = 1 .. births
  /\ \A s \in DOMAIN st : st[s] \in [root : Roots, birth : Nat]
  /\ \E n \in Nat : DOMAIN fs = 1 .. n
  /\ \A i \in DOMAIN fs : fs[i] \in Row(b, st) /\ fs[i].birth = st[fs[i].storage].birth

\* The entry on the page is of a live storage, and has the id of its own file or none.
KnowsEntry(e, b, st, fs) ==
  e # [id |-> 0] =>
    /\ e.storage \in DOMAIN st /\ e.birth = st[e.storage].birth /\ e.path \in b.paths
    /\ e.id # 0 => e.id \in DOMAIN fs /\ fs[e.id].storage = e.storage /\ fs[e.id].path = e.path

ById == {"apply", "remove", "thumbnail", "show", "made", "stored"}

IsMade(k) ==
  k = [phase |-> k.phase, want |-> k.want, id |-> k.id, row |-> k.row, image |-> k.image]

\* What a request has read of the tables is still so.
KnowsTables(k, b, st, fs) ==
  /\ k.phase = "updating" => k.root \in Roots
  /\ k.phase \in {"listed", "stat"} => k.storage \in DOMAIN st /\ k.path \in b.paths
  /\ k.phase = "listed" => k.birth = st[k.storage].birth
  /\ k.phase = "stat" => k.want = <<st[k.storage].birth, k.path>>
  /\ k.phase \in ById =>
       /\ k.id \in DOMAIN fs /\ k.want = <<fs[k.id].birth, fs[k.id].path>>
       /\ k.row.storage = fs[k.id].storage /\ k.row.path = fs[k.id].path
  /\ k.phase = "made" => IsMade(k)
  /\ k.phase \in {"made", "stored"} => k.image[2] = k.row.path

\* Every thumbnail that is kept shows the file it is named by.
KnowsImages(images, fs) ==
  \A k \in DOMAIN images : k[2] \in DOMAIN fs /\ images[k][2] = fs[k[2]].path

FilesInv(b) ==
  /\ deletes = 0
  /\ Tables(b, storages, files)
  /\ KnowsEntry(open, b, storages, files)
  /\ DOMAIN calls = Slots /\ \A c \in Slots : KnowsTables(calls[c], b, storages, files)
  /\ KnowsImages(cache, files)
  /\ Server(b)!WritesReachShown
  /\ Server(b)!ThumbnailIsOwn

\* Tables that have grown: every row is there as before, but for a root or a thumbnail.
Grown(st, fs, st2, fs2) ==
  /\ \A s \in DOMAIN st : s \in DOMAIN st2 /\ st2[s].birth = st[s].birth
  /\ \A i \in DOMAIN fs : /\ i \in DOMAIN fs2 /\ fs2[i].storage = fs[i].storage
                          /\ fs2[i].birth = fs[i].birth /\ fs2[i].path = fs[i].path

\* What was read before is still so.
LEMMA GrownKeeps ==
  ASSUME NEW b, NEW st, NEW fs, NEW st2, NEW fs2, Grown(st, fs, st2, fs2),
         Tables(b, st, fs)
  PROVE  /\ \A e : KnowsEntry(e, b, st, fs) => KnowsEntry(e, b, st2, fs2)
         /\ \A k : KnowsTables(k, b, st, fs) => KnowsTables(k, b, st2, fs2)
         /\ \A images : KnowsImages(images, fs) => KnowsImages(images, fs2)
<1>1. ASSUME NEW e, KnowsEntry(e, b, st, fs)
      PROVE  KnowsEntry(e, b, st2, fs2)
  BY <1>1 DEF KnowsEntry, Grown
<1>2. ASSUME NEW k, KnowsTables(k, b, st, fs)
      PROVE  KnowsTables(k, b, st2, fs2)
  <2>1. k.phase \in {"listed", "stat"} =>
          k.storage \in DOMAIN st2 /\ k.path \in b.paths /\ st2[k.storage].birth = st[k.storage].birth
    BY <1>2 DEF KnowsTables, Grown
  <2>2. k.phase \in ById =>
          /\ k.id \in DOMAIN fs2 /\ fs2[k.id].storage = fs[k.id].storage
          /\ fs2[k.id].birth = fs[k.id].birth /\ fs2[k.id].path = fs[k.id].path
    BY <1>2 DEF KnowsTables, Grown
  <2> QED BY <1>2, <2>1, <2>2 DEF KnowsTables
<1>3. ASSUME NEW images, KnowsImages(images, fs)
      PROVE  KnowsImages(images, fs2)
  BY <1>3 DEF KnowsImages, Grown
<1> QED BY <1>1, <1>2, <1>3

\* Ids that are given out in order.
LEMMA NextIdIs ==
  ASSUME NEW b, NEW table, NEW n \in Nat, DOMAIN table = 1 .. n
  PROVE  Server(b)!NextId(table) = n + 1
<1>1. Server(b)!Max(DOMAIN table \cup {0}) = n
  BY DEF Server!Max
<1> QED BY <1>1 DEF Server!NextId

LEMMA WithIs ==
  ASSUME NEW b, NEW f, NEW n \in Nat, NEW v, DOMAIN f = 1 .. n
  PROVE  /\ DOMAIN Server(b)!With(f, n + 1, v) = 1 .. (n + 1)
         /\ Server(b)!With(f, n + 1, v)[n + 1] = v
         /\ \A x \in DOMAIN f : Server(b)!With(f, n + 1, v)[x] = f[x]
BY DEF Server!With

\* A changed root changes nothing else.
LEMMA RootIsAll ==
  ASSUME NEW b, NEW st, NEW fs, Tables(b, st, fs), NEW s \in DOMAIN st, NEW r \in Roots,
         NEW st2, st2 = [st EXCEPT ![s].root = r]
  PROVE  Tables(b, st2, fs) /\ Grown(st, fs, st2, fs)
<1>1. PICK row : row = [st[s] EXCEPT !.root = r]
  OBVIOUS
<1>2. st2 = [st EXCEPT ![s] = row]
  BY <1>1
<1>3. st[s] \in [root : Roots, birth : Nat]
  BY DEF Tables
<1>4. row \in [root : Roots, birth : Nat] /\ row.birth = st[s].birth
  BY <1>1, <1>3
<1>5. DOMAIN st2 = DOMAIN st /\ \A x \in DOMAIN st : st2[x] = IF x = s THEN row ELSE st[x]
  BY <1>2
<1>6. \A x \in DOMAIN st : st2[x].birth = st[x].birth
  BY <1>4, <1>5
<1>7. Tables(b, st2, fs)
  BY <1>4, <1>5, <1>6 DEF Tables, Row
<1> QED BY <1>5, <1>6, <1>7 DEF Grown

\* And so does a changed thumbnail_path.
LEMMA ThumbIsAll ==
  ASSUME NEW b, NEW st, NEW fs, Tables(b, st, fs), NEW i \in DOMAIN fs, NEW kind \in Kinds,
         NEW fs2, fs2 = [fs EXCEPT ![i].thumb = kind]
  PROVE  Tables(b, st, fs2) /\ Grown(st, fs, st, fs2)
<1>1. PICK row : row = [fs[i] EXCEPT !.thumb = kind]
  OBVIOUS
<1>2. fs2 = [fs EXCEPT ![i] = row]
  BY <1>1
<1>3. fs[i] \in Row(b, st)
  BY DEF Tables
<1>4. /\ row \in Row(b, st) /\ row.storage = fs[i].storage /\ row.birth = fs[i].birth
      /\ row.path = fs[i].path
  BY <1>1, <1>3 DEF Row
<1>5. DOMAIN fs2 = DOMAIN fs /\ \A x \in DOMAIN fs : fs2[x] = IF x = i THEN row ELSE fs[x]
  BY <1>2
<1>6. /\ \A x \in DOMAIN fs : fs2[x] \in Row(b, st)
      /\ \A x \in DOMAIN fs : /\ fs2[x].storage = fs[x].storage /\ fs2[x].birth = fs[x].birth
                              /\ fs2[x].path = fs[x].path
  BY <1>4, <1>5 DEF Tables
<1>7. Tables(b, st, fs2)
  BY <1>5, <1>6 DEF Tables
<1> QED BY <1>5, <1>6, <1>7 DEF Grown

\* A new storage takes the next id.
LEMMA NewStorage ==
  ASSUME NEW b, FilesInv(b), NEW c \in Slots, NEW r \in Roots, Server(b)!CreateStorage(c, r)
  PROVE  Tables(b, storages, files)' /\ Grown(storages, files, storages', files')
<1>1. PICK row : row = [root |-> r, birth |-> births + 1]
  OBVIOUS
<1>2. births \in Nat /\ DOMAIN storages = 1 .. births
  BY DEF FilesInv, Tables
<1>3. storages' = Server(b)!With(storages, births + 1, row) /\ files' = files
      /\ births' = births + 1
  BY <1>1, <1>2, NextIdIs DEF Server!CreateStorage
<1>4. /\ DOMAIN storages' = 1 .. (births + 1) /\ storages'[births + 1] = row
      /\ \A s \in DOMAIN storages : storages'[s] = storages[s]
  BY <1>2, <1>3, WithIs
<1>5. row \in [root : Roots, birth : Nat]
  BY <1>1, <1>2
<1>6. DOMAIN storages \subseteq DOMAIN storages'
      /\ \A s \in DOMAIN storages' : storages'[s] \in [root : Roots, birth : Nat]
  BY <1>2, <1>4, <1>5 DEF FilesInv, Tables
<1>7. Row(b, storages) \subseteq Row(b, storages')
  BY <1>6 DEF Row
<1>8. \A i \in DOMAIN files : files[i].storage \in DOMAIN storages
  BY DEF FilesInv, Tables, Row
<1>9. Tables(b, storages, files)'
  BY <1>2, <1>3, <1>4, <1>6, <1>7, <1>8 DEF FilesInv, Tables
<1> QED BY <1>3, <1>4, <1>6, <1>9 DEF Grown

\* A new row takes the next id and its storage's birth.
LEMMA NewRow ==
  ASSUME NEW b, FilesInv(b), NEW s \in DOMAIN storages, NEW path \in b.paths,
         Server(b)!Materialize(s, path), UNCHANGED <<storages, births>>
  PROVE  Tables(b, storages, files)' /\ Grown(storages, files, storages', files')
<1>1. CASE files' = files
  BY <1>1 DEF FilesInv, Tables, Grown
<1>2. CASE files' # files
  <2>1. PICK n \in Nat : DOMAIN files = 1 .. n
    BY DEF FilesInv, Tables
  <2>2. PICK row : row = [storage |-> s, birth |-> storages[s].birth, path |-> path,
                          thumb |-> "none"]
    OBVIOUS
  <2>3. files' = Server(b)!With(files, n + 1, row)
    BY <1>2, <2>1, <2>2, NextIdIs DEF Server!Materialize
  <2>4. /\ DOMAIN files' = 1 .. (n + 1) /\ files'[n + 1] = row
        /\ \A i \in DOMAIN files : files'[i] = files[i]
    BY <2>1, <2>3, WithIs
  <2>5. row \in Row(b, storages) /\ row.birth = storages[row.storage].birth
    BY <2>2 DEF Row, Kinds, FilesInv, Tables
  <2>6. DOMAIN files \subseteq DOMAIN files' /\ n + 1 \in Nat
        /\ \A i \in DOMAIN files' : i \in DOMAIN files \/ i = n + 1
    BY <2>1, <2>4
  <2>7. \A i \in DOMAIN files' : /\ files'[i] \in Row(b, storages)
                                 /\ files'[i].birth = storages[files'[i].storage].birth
    BY <2>4, <2>5, <2>6 DEF FilesInv, Tables
  <2>8. Tables(b, storages, files)'
    BY <2>4, <2>6, <2>7 DEF FilesInv, Tables
  <2> QED BY <2>4, <2>6, <2>8 DEF Grown
<1> QED BY <1>1, <1>2

\* Every step of every request keeps what the others have read, and hits the file it means.
LEMMA StepFiles ==
  ASSUME NEW b, b.deletes = 0, FilesInv(b), Server(b)!Next
  PROVE  FilesInv(b)'
<1> USE DEF Server!Become, Server!NoCall, Server!NoFile, Server!counters, Server!history,
            Server!audit
<1>1. /\ deletes = 0 /\ Tables(b, storages, files) /\ KnowsEntry(open, b, storages, files)
      /\ DOMAIN calls = Slots /\ \A c \in Slots : KnowsTables(calls[c], b, storages, files)
      /\ KnowsImages(cache, files)
      /\ (\A h \in hits : h[1] = h[2]) /\ (\A t \in served : t[2][2] = t[1][2])
  BY DEF FilesInv, Server!WritesReachShown, Server!ThumbnailIsOwn
<1> DEFINE Others(c) == /\ DOMAIN calls' = Slots
                        /\ \A d \in Slots : d # c => calls'[d] = calls[d]
           TablesKept == Tables(b, storages, files)' /\ Grown(storages, files, storages', files')
           EntryKept == KnowsEntry(open', b, storages, files)
           HitsKept == deletes' = deletes /\ \A h \in hits' : h[1] = h[2]
           ServedKept == \A t \in served' : t[2][2] = t[1][2]
           CallKept(c) == Others(c) /\ KnowsTables(calls'[c], b, storages, files)
           ImagesKept == KnowsImages(cache', files)
\* What a step must show.
<1>2. ASSUME TablesKept, EntryKept, ImagesKept, HitsKept, ServedKept,
             NEW c \in Slots, CallKept(c)
      PROVE  FilesInv(b)'
  <2>1. \A d \in Slots : KnowsTables(calls'[d], b, storages, files)
    BY <1>1, <1>2
  <2>2. /\ KnowsEntry(open', b, storages', files')
        /\ \A d \in Slots : KnowsTables(calls'[d], b, storages', files')
        /\ KnowsImages(cache', files')
    BY <1>1, <1>2, <2>1, GrownKeeps
  <2> QED BY <1>1, <1>2, <2>2 DEF FilesInv, Server!WritesReachShown, Server!ThumbnailIsOwn
<1>3. ASSUME UNCHANGED <<storages, files, births>>
      PROVE  TablesKept
  BY <1>1, <1>3 DEF Tables, Row, Grown
<1>4. ASSUME UNCHANGED open
      PROVE  EntryKept
  BY <1>1, <1>4
<1>5. ASSUME UNCHANGED cache
      PROVE  ImagesKept
  BY <1>1, <1>5
<1>6. ASSUME UNCHANGED <<deletes, hits>>
      PROVE  HitsKept
  BY <1>1, <1>6
<1>7. ASSUME UNCHANGED served
      PROVE  ServedKept
  BY <1>1, <1>7
<1>8. ASSUME NEW c \in Slots, calls' = [calls EXCEPT ![c] = [phase |-> "none"]]
      PROVE  CallKept(c)
  BY <1>1, <1>8 DEF KnowsTables, ById
<1>9. ASSUME NEW c \in Slots, calls' = [calls EXCEPT ![c] = [phase |-> "written"]]
      PROVE  CallKept(c)
  BY <1>1, <1>9 DEF KnowsTables, ById
<1>10. ASSUME NEW c \in Slots, UNCHANGED calls
       PROVE  CallKept(c)
  BY <1>1, <1>10
<1> HIDE DEF TablesKept, EntryKept, HitsKept, ServedKept, CallKept, ImagesKept
<1>11. CASE Server(b)!Crash
  <2>1. UNCHANGED <<storages, files, births, deletes, open, cache, hits, served>>
    BY <1>11 DEF Server!Crash
  <2>2. PICK c \in Slots : calls[c] # [phase |-> "none"]
    BY <1>11 DEF Server!Crash
  <2>3. DOMAIN calls' = Slots /\ \A d \in Slots : KnowsTables(calls'[d], b, storages, files)
    BY <1>11 DEF Server!Crash, KnowsTables, ById
  <2> QED BY <2>1, <2>3 DEF FilesInv, Tables, Row, Server!WritesReachShown, Server!ThumbnailIsOwn
<1>12. ASSUME NEW c \in Slots, NEW r \in Roots, Server(b)!CreateStorage(c, r)
       PROVE  FilesInv(b)'
  <2>1. TablesKept
    BY <1>12, NewStorage DEF TablesKept
  <2>2. UNCHANGED <<cache, open, calls, deletes, hits, served>>
    BY <1>12 DEF Server!CreateStorage
  <2> QED BY <1>2, <1>4, <1>5, <1>6, <1>7, <1>10, <2>1, <2>2
<1>13. ASSUME NEW c \in Slots, NEW s \in DOMAIN storages, Server(b)!DeleteStorage(c, s)
       PROVE  FALSE
  BY <1>1, <1>13 DEF Server!DeleteStorage
<1>14. ASSUME NEW c \in Slots, NEW s \in DOMAIN storages, Server(b)!BeginUpdateStorage(c, s)
       PROVE  FilesInv(b)'
  <2>1. UNCHANGED <<storages, files, births, open, cache, deletes, hits, served>>
    BY <1>14 DEF Server!BeginUpdateStorage
  <2>2. storages[s].root \in Roots
    BY <1>1 DEF Tables
  <2>3. CallKept(c)
    BY <1>1, <1>14, <2>2 DEF Server!BeginUpdateStorage, KnowsTables, ById, CallKept
  <2> QED BY <1>2, <1>3, <1>4, <1>5, <1>6, <1>7, <2>1, <2>3
<1>15. ASSUME NEW c \in Slots, NEW s \in DOMAIN storages, NEW r \in Roots,
              Server(b)!UpdateStorageRoot(c, s, r)
       PROVE  FilesInv(b)'
  <2>1. /\ storages' = [storages EXCEPT ![s].root = r]
        /\ UNCHANGED <<files, births, cache, open, calls, deletes, hits, served>>
    BY <1>15 DEF Server!UpdateStorageRoot, Server!SetRoot
  <2>2. Tables(b, storages', files) /\ Grown(storages, files, storages', files)
    BY <1>1, <2>1, RootIsAll
  <2>3. TablesKept
    BY <2>1, <2>2 DEF TablesKept, Tables
  <2> QED BY <1>2, <1>4, <1>5, <1>6, <1>7, <1>10, <2>1, <2>3
<1>16. ASSUME NEW c \in Slots, NEW s \in DOMAIN storages, NEW p \in b.paths,
              Server(b)!ListDir(c, s, p)
       PROVE  FilesInv(b)'
  <2>1. UNCHANGED <<storages, files, births, open, cache, deletes, hits, served>>
    BY <1>16 DEF Server!ListDir
  <2>2. CallKept(c)
    BY <1>1, <1>16 DEF Server!ListDir, KnowsTables, ById, CallKept
  <2> QED BY <1>2, <1>3, <1>4, <1>5, <1>6, <1>7, <2>1, <2>2
<1>17. ASSUME NEW c \in Slots, Server(b)!UpdateStorage(c)
       PROVE  FilesInv(b)'
  <2>1. /\ UNCHANGED <<files, births, cache, open, deletes, hits, served>>
        /\ calls' = [calls EXCEPT ![c] = [phase |-> "none"]]
    BY <1>17 DEF Server!UpdateStorage
  <2>2. calls[c].root \in Roots
    BY <1>1, <1>17 DEF Server!UpdateStorage, KnowsTables
  <2>3. CASE storages' = storages
    BY <1>2, <1>3, <1>4, <1>5, <1>6, <1>7, <1>8, <2>1, <2>3
  <2>4. CASE \E s \in DOMAIN storages, r \in Roots : storages' = [storages EXCEPT ![s].root = r]
    <3>1. PICK s \in DOMAIN storages, r \in Roots : storages' = [storages EXCEPT ![s].root = r]
      BY <2>4
    <3>2. Tables(b, storages', files) /\ Grown(storages, files, storages', files)
      BY <1>1, <3>1, RootIsAll
    <3>3. TablesKept
      BY <2>1, <3>2 DEF TablesKept, Tables
    <3> QED BY <1>2, <1>4, <1>5, <1>6, <1>7, <1>8, <2>1, <3>3
  <2>5. \/ storages' = storages
        \/ \E s \in DOMAIN storages, r \in Roots : storages' = [storages EXCEPT ![s].root = r]
    BY <1>17, <2>2 DEF Server!UpdateStorage, Server!SetRoot
  <2> QED BY <2>3, <2>4, <2>5
<1>18. ASSUME NEW c \in Slots, Server(b)!JoinRows(c)
       PROVE  FilesInv(b)'
  <2>1. /\ UNCHANGED <<storages, files, births, cache, deletes, hits, served>>
        /\ calls' = [calls EXCEPT ![c] = [phase |-> "none"]]
    BY <1>18 DEF Server!JoinRows
  <2> DEFINE s == calls[c].storage
             path == calls[c].path
             rows == Server(b)!RowsOf(s, path)
             id == IF rows = {} THEN 0 ELSE CHOOSE i \in rows : TRUE
  <2>2. open' = [storage |-> s, birth |-> calls[c].birth, path |-> path, id |-> id]
    BY <1>18 DEF Server!JoinRows
  <2>3. s \in DOMAIN storages /\ path \in b.paths /\ calls[c].birth = storages[s].birth
    BY <1>1, <1>18 DEF Server!JoinRows, KnowsTables
  <2>4. id # 0 => id \in rows
    OBVIOUS
  <2>5. id # 0 => id \in DOMAIN files /\ files[id].storage = s /\ files[id].path = path
    BY <2>4 DEF Server!RowsOf
  <2> HIDE DEF s, path, id
  <2>6. EntryKept
    BY <2>2, <2>3, <2>5 DEF EntryKept, KnowsEntry
  <2> QED BY <1>2, <1>3, <1>5, <1>6, <1>7, <1>8, <2>1, <2>6
<1>19. ASSUME NEW c \in Slots, NEW act \in Server(b)!Acts, Server(b)!FileForAction(c, act)
       PROVE  FilesInv(b)'
  <2>1. UNCHANGED <<storages, files, births, open, cache, deletes, hits, served>>
    BY <1>19 DEF Server!FileForAction
  <2>2. open # [id |-> 0] /\ open.id \in DOMAIN files
    BY <1>19 DEF Server!FileForAction
  <2>3. open.id # 0
    BY <1>1, <2>2 DEF Tables
  <2>4. /\ files[open.id].path = open.path /\ files[open.id].storage = open.storage
        /\ open.birth = storages[open.storage].birth
    BY <1>1, <2>2, <2>3 DEF KnowsEntry
  <2>5. <<open.birth, open.path>> = <<files[open.id].birth, files[open.id].path>>
    BY <1>1, <2>2, <2>4 DEF Tables
  <2>6. PICK call : call = [phase |-> act, want |-> <<open.birth, open.path>>, id |-> open.id,
                            row |-> files[open.id]]
    OBVIOUS
  <2>7. act \notin {"updating", "listed", "stat", "made", "stored"}
    BY DEF Server!Acts
  <2>8. KnowsTables(call, b, storages, files)
    BY <2>2, <2>5, <2>6, <2>7 DEF KnowsTables
  <2>9. calls' = [calls EXCEPT ![c] = call]
    BY <1>19, <2>6 DEF Server!FileForAction
  <2>10. CallKept(c)
    BY <1>1, <2>8, <2>9 DEF CallKept
  <2> QED BY <1>2, <1>3, <1>4, <1>5, <1>6, <1>7, <2>1, <2>10
<1>20. ASSUME NEW c \in Slots, Server(b)!WriteField(c)
       PROVE  FilesInv(b)'
  <2>1. /\ UNCHANGED <<storages, files, births, open, cache, deletes, served>>
        /\ calls[c].phase \in ById
    BY <1>20 DEF Server!WriteField, ById
  <2>2. CallKept(c)
    BY <1>8, <1>9, <1>20 DEF Server!WriteField
  <2>3. calls[c].want = Server(b)!Name(files[calls[c].id])
    BY <1>1, <2>1 DEF KnowsTables, Server!Name
  <2>4. HitsKept
    BY <1>1, <1>20, <2>1, <2>3 DEF Server!WriteField, Server!Hit, HitsKept
  <2> QED BY <1>2, <1>3, <1>4, <1>5, <1>7, <2>1, <2>2, <2>4
<1>21. ASSUME NEW c \in Slots, Server(b)!SetThumbnail(c)
       PROVE  FilesInv(b)'
  <2>1. /\ UNCHANGED <<storages, births, open, cache, deletes, served>>
        /\ calls' = [calls EXCEPT ![c] = [phase |-> "none"]]
        /\ calls[c].phase \in ById
    BY <1>21 DEF Server!SetThumbnail, ById
  <2>2. calls[c].want = Server(b)!Name(files[calls[c].id])
    BY <1>1, <2>1 DEF KnowsTables, Server!Name
  <2>3. HitsKept
    BY <1>1, <1>21, <2>1, <2>2 DEF Server!SetThumbnail, Server!Hit, HitsKept
  <2>4. TablesKept
    <3>1. CASE files' = files
      BY <1>3, <2>1, <3>1
    <3>2. CASE files' # files
      <4>1. /\ calls[c].id \in DOMAIN files
            /\ files' = [files EXCEPT ![calls[c].id].thumb = "manual"]
        BY <1>21, <3>2 DEF Server!SetThumbnail
      <4>2. Tables(b, storages, files') /\ Grown(storages, files, storages, files')
        BY <1>1, <4>1, ThumbIsAll DEF Kinds
      <4> QED BY <2>1, <4>2 DEF TablesKept, Tables, Row
    <3> QED BY <3>1, <3>2
  <2> QED BY <1>2, <1>4, <1>5, <1>7, <1>8, <2>1, <2>3, <2>4
<1>22. ASSUME NEW c \in Slots, Server(b)!StatPath(c)
       PROVE  FilesInv(b)'
  <2>1. UNCHANGED <<storages, files, births, open, cache, deletes, hits, served>>
    BY <1>22 DEF Server!StatPath
  <2>2. /\ open.storage \in DOMAIN storages /\ open.path \in b.paths
        /\ open.birth = storages[open.storage].birth
    BY <1>1, <1>22 DEF Server!StatPath, KnowsEntry
  <2>3. CallKept(c)
    BY <1>1, <1>22, <2>2 DEF Server!StatPath, KnowsTables, ById, CallKept
  <2> QED BY <1>2, <1>3, <1>4, <1>5, <1>6, <1>7, <2>1, <2>3
<1>23. ASSUME NEW c \in Slots, Server(b)!ApplyByPath(c)
       PROVE  FilesInv(b)'
  <2> DEFINE s == calls[c].storage
             path == calls[c].path
  <2>1. UNCHANGED <<storages, births, open, cache, deletes, served>>
    BY <1>23 DEF Server!ApplyByPath
  <2>2. CallKept(c)
    BY <1>8, <1>9, <1>23 DEF Server!ApplyByPath
  <2>3. /\ s \in DOMAIN storages /\ path \in b.paths
        /\ calls[c].want = <<storages[s].birth, path>>
    BY <1>1, <1>23 DEF Server!ApplyByPath, KnowsTables
  <2>4. Server(b)!Materialize(s, path) /\ hits' = hits \cup {<<calls[c].want, calls[c].want>>}
    BY <1>23, <2>3 DEF Server!ApplyByPath, Server!Hit
  <2>5. TablesKept
    BY <2>1, <2>3, <2>4, NewRow DEF TablesKept
  <2>6. HitsKept
    BY <1>1, <2>1, <2>4 DEF HitsKept
  <2> QED BY <1>2, <1>4, <1>5, <1>7, <2>1, <2>2, <2>5, <2>6
<1>24. ASSUME NEW c \in Slots, Server(b)!Log(c)
       PROVE  FilesInv(b)'
  BY <1>2, <1>3, <1>4, <1>5, <1>6, <1>7, <1>8, <1>24 DEF Server!Log
<1>25. ASSUME NEW c \in Slots, Server(b)!ServeCached(c)
       PROVE  FilesInv(b)'
  <2>1. /\ UNCHANGED <<storages, files, births, open, cache, deletes, hits>>
        /\ calls' = [calls EXCEPT ![c] = [phase |-> "none"]]
    BY <1>25 DEF Server!ServeCached
  <2>2. calls[c].want[2] = files[calls[c].id].path
    BY <1>1, <1>25 DEF Server!ServeCached, KnowsTables, ById
  <2>3. <<calls[c].row.storage, calls[c].id>> \in DOMAIN cache
    BY <1>25 DEF Server!ServeCached, Server!Key
  <2>4. cache[<<calls[c].row.storage, calls[c].id>>][2] = files[calls[c].id].path
    BY <1>1, <2>3 DEF KnowsImages
  <2>5. ServedKept
    BY <1>1, <1>25, <2>2, <2>4 DEF Server!ServeCached, Server!Serve, Server!Key, ServedKept
  <2> QED BY <1>2, <1>3, <1>4, <1>5, <1>6, <1>8, <2>1, <2>5
<1>26. ASSUME NEW c \in Slots, Server(b)!Generate(c)
       PROVE  FilesInv(b)'
  <2>1. UNCHANGED <<storages, files, births, open, cache, deletes, hits, served>>
    BY <1>26 DEF Server!Generate
  <2>2. CallKept(c)
    <3>1. CASE calls' = [calls EXCEPT ![c] = [phase |-> "none"]]
      BY <1>8, <3>1
    <3>2. CASE calls' # [calls EXCEPT ![c] = [phase |-> "none"]]
      <4>1. PICK call :
              call = [phase |-> "made", want |-> calls[c].want, id |-> calls[c].id,
                      row |-> calls[c].row,
                      image |-> <<storages[calls[c].row.storage].root, calls[c].row.path>>]
        OBVIOUS
      <4>2. calls' = [calls EXCEPT ![c] = call]
        BY <1>26, <3>2, <4>1 DEF Server!Generate
      <4>3. /\ calls[c].id \in DOMAIN files
            /\ calls[c].want = <<files[calls[c].id].birth, files[calls[c].id].path>>
            /\ calls[c].row.storage = files[calls[c].id].storage
            /\ calls[c].row.path = files[calls[c].id].path
        BY <1>1, <1>26 DEF Server!Generate, KnowsTables, ById
      <4>4. call.image[2] = call.row.path /\ IsMade(call)
        BY <4>1 DEF IsMade
      <4>5. KnowsTables(call, b, storages, files)
        BY <4>1, <4>3, <4>4 DEF KnowsTables, ById
      <4> QED BY <1>1, <4>2, <4>5 DEF CallKept
    <3> QED BY <3>1, <3>2
  <2> QED BY <1>2, <1>3, <1>4, <1>5, <1>6, <1>7, <2>1, <2>2
<1>27. ASSUME NEW c \in Slots, Server(b)!StoreThumbnail(c)
       PROVE  FilesInv(b)'
  <2>1. UNCHANGED <<storages, files, births, open, deletes, hits, served>>
    BY <1>27 DEF Server!StoreThumbnail
  <2>2. KnowsTables(calls[c], b, storages, files) /\ calls[c].phase = "made"
    BY <1>1, <1>27 DEF Server!StoreThumbnail
  <2>3. /\ calls[c].id \in DOMAIN files /\ calls[c].row.path = files[calls[c].id].path
        /\ calls[c].image[2] = calls[c].row.path /\ IsMade(calls[c])
    BY <2>2 DEF KnowsTables, ById
  <2>4. ImagesKept
    BY <1>1, <1>27, <2>3 DEF Server!StoreThumbnail, Server!With, Server!Key, KnowsImages, ImagesKept
  <2>5. PICK call : call = [calls[c] EXCEPT !.phase = "stored"]
    OBVIOUS
  <2>6. calls' = [calls EXCEPT ![c] = call]
    BY <1>27, <2>5 DEF Server!StoreThumbnail
  <2>7. /\ call.phase = "stored" /\ call.want = calls[c].want /\ call.id = calls[c].id
        /\ call.row = calls[c].row /\ call.image = calls[c].image
    BY <2>3, <2>5 DEF IsMade
  <2>8. KnowsTables(call, b, storages, files)
    BY <2>2, <2>7 DEF KnowsTables, ById
  <2>9. CallKept(c)
    BY <1>1, <2>6, <2>8 DEF CallKept
  <2> QED BY <1>2, <1>3, <1>4, <1>6, <1>7, <2>1, <2>4, <2>9
<1>28. ASSUME NEW c \in Slots, Server(b)!RecordThumbnail(c)
       PROVE  FilesInv(b)'
  <2>1. /\ UNCHANGED <<storages, births, open, cache, deletes, hits>>
        /\ calls' = [calls EXCEPT ![c] = [phase |-> "none"]]
    BY <1>28 DEF Server!RecordThumbnail
  <2>2. /\ calls[c].id \in DOMAIN files
        /\ calls[c].image[2] = files[calls[c].id].path
        /\ calls[c].want[2] = files[calls[c].id].path
    BY <1>1, <1>28 DEF Server!RecordThumbnail, KnowsTables, ById
  <2>3. ServedKept
    BY <1>1, <1>28, <2>2 DEF Server!RecordThumbnail, Server!Serve, ServedKept
  <2>4. files' = [files EXCEPT ![calls[c].id].thumb = "cache"]
    BY <1>28, <2>2 DEF Server!RecordThumbnail
  <2>5. Tables(b, storages, files') /\ Grown(storages, files, storages, files')
    BY <1>1, <2>2, <2>4, ThumbIsAll DEF Kinds
  <2>6. TablesKept
    BY <2>1, <2>5 DEF TablesKept, Tables, Row
  <2> QED BY <1>2, <1>4, <1>5, <1>6, <1>8, <2>1, <2>3, <2>6
<1> QED BY <1>11, <1>12, <1>13, <1>14, <1>15, <1>16, <1>17, <1>18, <1>19, <1>20, <1>21, <1>22,
           <1>23, <1>24, <1>25, <1>26, <1>27, <1>28 DEF Server!Next

-----------------------------------------------------------------------------
(* The parts together *)

RequestsInv ==
  /\ AuditInv
  /\ part = "files" => FilesInv(Files)
  /\ part = "thumbs" => FilesInv(Thumbs)
  /\ part = "clicks" => ListsAtNav(Clicks)
  /\ part = "patient" => Waits(Patience)

LEMMA InitFiles ==
  ASSUME NEW b, Server(b)!Init
  PROVE  FilesInv(b) /\ AuditInv
<1> USE DEF Server!Init, Server!NoFile, Server!NoCall
<1>1. DOMAIN storages = 1 .. 1 /\ DOMAIN files = 1 .. 0
  OBVIOUS
<1>2. \A s \in DOMAIN storages : storages[s] \in [root : Roots, birth : Nat]
  OBVIOUS
<1>3. Tables(b, storages, files)
  BY <1>1, <1>2 DEF Tables
<1>4. DOMAIN calls = Slots /\ \A c \in Slots : KnowsTables(calls[c], b, storages, files)
  BY DEF KnowsTables, ById
<1>5. FilesInv(b)
  BY <1>3, <1>4 DEF FilesInv, KnowsEntry, KnowsImages, Server!WritesReachShown,
                    Server!ThumbnailIsOwn
<1>6. Owing = {}
  BY DEF Owing
<1>7. AuditInv
  BY <1>4, <1>6, FS_EmptySet DEF AuditInv
<1> QED BY <1>5, <1>7

LEMMA InitPage ==
  ASSUME NEW b, Page(Clicks)!Init
  PROVE  Waits(b)
BY DEF Page!Init, Waits, ListsAtNav, ShowsNav, ChosenFromNav, OneAnswer, Page!TaggedAsShown,
       Page!PanelShowsItsFile

LEMMA InitRequests == Init => RequestsInv
<1> SUFFICES ASSUME Init PROVE RequestsInv
  OBVIOUS
<1>1. Server(Files)!Init /\ Server(Thumbs)!Init
  BY DEF Init, Server!Init, Server!NoFile, Server!NoCall
<1>2. FilesInv(Files) /\ FilesInv(Thumbs) /\ AuditInv
  BY <1>1, InitFiles
<1>3. Waits(Clicks) /\ Waits(Patience)
  BY InitPage DEF Init
<1> QED BY <1>2, <1>3 DEF RequestsInv, Waits

\* A step of one part keeps its invariant, and the listing's property.
LEMMA NextRequests ==
  ASSUME RequestsInv, Next
  PROVE  RequestsInv' /\ Page(Clicks)!ListsAnew
<1> USE DEF server, browser
<1>1. part' = part
  BY DEF Next
<1>2. ASSUME UNCHANGED browser
      PROVE  Page(Clicks)!ListsAnew
  BY <1>2 DEF Page!ListsAnew
<1>3. ASSUME UNCHANGED server
      PROVE  AuditInv'
  BY <1>3 DEF RequestsInv, AuditInv, Owing
<1>4. CASE part = "files" /\ Server(Files)!Next /\ UNCHANGED browser
  <2>1. FilesInv(Files)'
    BY <1>4, StepFiles DEF RequestsInv, Files
  <2>2. AuditInv'
    BY <1>4, StepAudits DEF RequestsInv
  <2> QED BY <1>1, <1>2, <1>4, <2>1, <2>2 DEF RequestsInv
<1>5. CASE part = "thumbs" /\ Server(Thumbs)!Next /\ UNCHANGED browser
  <2>1. FilesInv(Thumbs)'
    BY <1>5, StepFiles DEF RequestsInv, Thumbs
  <2>2. AuditInv'
    BY <1>5, StepAudits DEF RequestsInv
  <2> QED BY <1>1, <1>2, <1>5, <2>1, <2>2 DEF RequestsInv
<1>6. CASE part = "deletes" /\ Server(Deletes)!Next /\ UNCHANGED browser
  <2>1. AuditInv'
    BY <1>6, StepAudits DEF RequestsInv
  <2> QED BY <1>1, <1>2, <1>6, <2>1 DEF RequestsInv
<1>7. CASE part = "clicks" /\ Page(Clicks)!Next /\ UNCHANGED server
  <2>1. ListsAtNav(Clicks)' /\ Page(Clicks)!ListsAnew
    BY <1>7, PageLists DEF RequestsInv
  <2> QED BY <1>1, <1>3, <1>7, <2>1 DEF RequestsInv
<1>8. CASE part = "patient" /\ Page(Patience)!Next /\ UNCHANGED server
  <2>1. Waits(Patience)'
    BY <1>8, PageWaits DEF RequestsInv, Patience
  <2>2. Page(Patience)!ListsAnew
    BY <1>8, PageLists DEF RequestsInv, Waits
  <2>3. Page(Clicks)!ListsAnew
    BY <2>2 DEF Page!ListsAnew
  <2> QED BY <1>1, <1>3, <1>8, <2>1, <2>3 DEF RequestsInv
<1> QED BY <1>4, <1>5, <1>6, <1>7, <1>8 DEF Next

LEMMA StutterRequests ==
  ASSUME RequestsInv, UNCHANGED vars
  PROVE  RequestsInv' /\ Page(Clicks)!ListsAnew
<1> USE DEF vars, server, browser
<1>1. AuditInv'
  BY DEF RequestsInv, AuditInv, Owing
<1>2. ASSUME NEW b, FilesInv(b)
      PROVE  FilesInv(b)'
  BY <1>2 DEF FilesInv, Tables, Row, Server!WritesReachShown, Server!ThumbnailIsOwn
<1>3. ASSUME NEW b, ListsAtNav(b)
      PROVE  ListsAtNav(b)'
  BY <1>3 DEF ListsAtNav, Page!Place, Page!Dirs
<1>4. ASSUME NEW b, Waits(b)
      PROVE  Waits(b)'
  BY <1>3, <1>4 DEF Waits, ShowsNav, ChosenFromNav, OneAnswer, Page!TaggedAsShown,
                    Page!PanelShowsItsFile
<1>5. UNCHANGED part /\ Page(Clicks)!ListsAnew
  BY DEF Page!ListsAnew
<1> QED BY <1>1, <1>2, <1>3, <1>4, <1>5 DEF RequestsInv

\* Whatever requests and answers are under way: a handler acts by the id of the entry it was
\* sent (handlers_files.go, handlers_preview.go), an audit entry follows what was done
\* (audit.go), and the answers the page may still take are about the directory and the files
\* it shows (BrowserPage.tsx).
THEOREM RequestsKeep == Spec => []RequestsInv
<1>1. RequestsInv /\ [Next]_vars => RequestsInv'
  BY NextRequests, StutterRequests
<1> QED BY InitRequests, <1>1, PTL DEF Spec

\* A tag, a removed value or a thumbnail that is set reaches the file of the entry the page
\* showed, however requests overlap, as long as no storage is deleted (handlers_files.go).
THEOREM WritesReachTheirFile == Spec => []WritesReachShown
<1>1. RequestsInv => WritesReachShown
  BY DEF RequestsInv, FilesInv, WritesReachShown
<1> QED BY RequestsKeep, <1>1, PTL

\* Under the same condition the thumbnail that is served for a file, made now or kept from
\* before, shows that file (handlers_preview.go).
THEOREM ThumbnailsAreOwn == Spec => []ThumbnailIsOwn
<1>1. RequestsInv => ThumbnailIsOwn
  BY DEF RequestsInv, FilesInv, ThumbnailIsOwn, Server!ThumbnailIsOwn
<1> QED BY RequestsKeep, <1>1, PTL

\* The audit log never has more entries than operations were done, with storages deleted
\* and crashes between the operation and its entry (audit.go).
THEOREM AuditTellsTrue == Spec => []AuditIsTrue
<1>1. RequestsInv => AuditIsTrue
  <2> SUFFICES ASSUME RequestsInv PROVE AuditIsTrue
    OBVIOUS
  <2>1. /\ done \in Nat /\ logged \in Nat /\ Cardinality(Owing) \in Nat
        /\ logged + Cardinality(Owing) <= done
    BY OwingCount DEF RequestsInv, AuditInv
  <2> QED BY <2>1 DEF AuditIsTrue, Server!AuditIsTrue
<1> QED BY RequestsKeep, <1>1, PTL

\* However the answers overtake each other, the listing changes to the directory asked for
\* last only (BrowserPage.tsx, the effect of navKey).
THEOREM ListingIsAskedFor == Spec => NoStaleListing
<1>1. RequestsInv /\ [Next]_vars => [Page(Clicks)!ListsAnew]_vars
  BY NextRequests
<1> QED BY RequestsKeep, <1>1, PTL DEF Spec, NoStaleListing

\* Of a user who waits for the answers about tags, every tag goes to the storage its entry
\* was listed from (BrowserPage.tsx, handleBatchApply and the tag panel).
THEOREM TagsGoWhereShown == Spec => []TaggedAsShown
<1>1. RequestsInv => TaggedAsShown
  BY DEF RequestsInv, Waits, TaggedAsShown
<1> QED BY RequestsKeep, <1>1, PTL

\* Of such a user, the panel of a file shows that file's fields (openTagPanel).
THEOREM PanelIsOfItsFile == Spec => []PanelShowsItsFile
<1>1. RequestsInv => PanelShowsItsFile
  BY DEF RequestsInv, Waits, PanelShowsItsFile
<1> QED BY RequestsKeep, <1>1, PTL
===============================================================================
