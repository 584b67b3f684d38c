------------------------------ MODULE MCRequests ------------------------------
(***************************************************************************)
(* Requests about files and the page that sends them, for TLC: small       *)
(* instances of two modules, of which one is chosen at the start and the   *)
(* others stand still.                                                     *)
(*   files    FileRequests: two requests side by side, no storage deleted; *)
(*   thumbs   FileRequests: the same about two files, each with a row;     *)
(*   deletes  FileRequests: storages deleted and made again under them;    *)
(*   clicks   BrowserPage: any order of clicks and answers, calls fail;    *)
(*   patient  BrowserPage: two storages that hold the same paths, a user   *)
(*            who waits for the answers about tags.                        *)
(***************************************************************************)
EXTENDS Naturals, FiniteSets, TLC

CONSTANTS
  Slots,         \* of requests
  Roots, Paths, Images, MaxIds, MaxBirths, MaxRoots,
  DeletedPaths,  \* paths where storages are deleted
  MaxDeletes,
  MaxWrites,     \* where storages and their roots change
  ThumbWrites,   \* where they do not
  Top, Dir, File, Inner,    \* what every storage holds: Top/Dir/Inner and Top/File
  ClickStorages,            \* of any order of clicks
  Storages,                 \* of a user who waits
  Nothing, MaxTagging

ASSUME SlotsAssumption == IsFiniteSet(Slots)

VARIABLES
  part,
  storages, files, cache, open, calls, births, deletes, roots, done, logged, hits, served,
  storage, nav, lists, loading, shown, entries, selected, picker, panel, asked, waiting,
  fieldsOf, tagging

server == <<storages, files, cache, open, calls, births, deletes, roots, done, logged, hits,
            served>>
browser == <<storage, nav, lists, loading, shown, entries, selected, picker, panel, asked,
             waiting, fieldsOf, tagging>>

\* An instance for each set of bounds.
Server(b) == INSTANCE FileRequests
               WITH shown <- open, Calls <- Slots, Paths <- b.paths, MaxBirths <- b.births,
                    MaxDeletes <- b.deletes, MaxWrites <- b.writes, MaxRoots <- b.roots

Files   == [paths |-> Paths, births |-> MaxBirths, deletes |-> 0, writes |-> MaxWrites,
            roots |-> MaxRoots]
Thumbs  == [paths |-> Paths, births |-> 1, deletes |-> 0, writes |-> ThumbWrites, roots |-> 0]
Deletes == [paths |-> DeletedPaths, births |-> MaxBirths, deletes |-> MaxDeletes,
            writes |-> ThumbWrites, roots |-> MaxRoots]

TwoDirs == [d \in {Top, Dir} |-> IF d = Top THEN {Dir, File} ELSE {Inner}]

Page(b) == INSTANCE BrowserPage
             WITH Storages <- b.storages, Contents <- TwoDirs, Failures <- b.failures,
                  Patient <- b.patient

Clicks   == [storages |-> ClickStorages, failures |-> TRUE, patient |-> FALSE]
Patience == [storages |-> Storages, failures |-> FALSE, patient |-> TRUE]

Init ==
  /\ part \in {"files", "thumbs", "deletes", "clicks", "patient"}
  /\ Server(Files)!Init
  /\ Page(Clicks)!Init

Next ==
  /\ UNCHANGED part
  /\ \/ part = "files" /\ Server(Files)!Next /\ UNCHANGED browser
     \/ part = "thumbs" /\ Server(Thumbs)!Next /\ UNCHANGED browser
     \/ part = "deletes" /\ Server(Deletes)!Next /\ UNCHANGED browser
     \/ part = "clicks" /\ Page(Clicks)!Next /\ UNCHANGED server
     \/ part = "patient" /\ Page(Patience)!Next /\ UNCHANGED server

vars == <<part, server, browser>>
Spec == Init /\ [][Next]_vars

-----------------------------------------------------------------------------
(* The properties of the modules *)

\* A write reaches the file of the entry the page showed.
WritesReachShown == part = "files" => Server(Files)!WritesReachShown

\* The thumbnail of a file shows that file.
ThumbnailIsOwn == part \in {"files", "thumbs"} => Server(Files)!ThumbnailIsOwn

\* Nothing is logged that has not been done.
AuditIsTrue == Server(Files)!AuditIsTrue

\* The listing only ever changes to the directory asked for last.
NoStaleListing == [][Page(Clicks)!ListsAnew]_vars

\* Of a user who waits, every tag goes to the storage its entry was listed from.
TaggedAsShown == part = "patient" => Page(Patience)!TaggedAsShown

\* Of a user who waits, the panel of a file shows that file's fields.
PanelShowsItsFile == part = "patient" => Page(Patience)!PanelShowsItsFile

\* For TLC: slots of requests are interchangeable, and directories.
Interchangeable == Permutations(Slots) \cup Permutations(Roots)
===============================================================================
