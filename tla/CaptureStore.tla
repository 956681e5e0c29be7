---------------------------- MODULE CaptureStore ----------------------------
(***************************************************************************)
(* internal/storage/localfs, with the two handlers of captures.go that are *)
(* a thin shell around it: UploadScreenshot (Save) and ListCaptures (List, *)
(* then one Get for each entry).                                           *)
(*                                                                         *)
(* Save writes the bytes to a file, takes the time, and adds the object to *)
(* the in-memory map under the lock, each on its own: saves and listings   *)
(* of other requests come in between, and the process may stop there.  The *)
(* critical sections touch only the map, so each is one step.  The map is  *)
(* not rebuilt on start.                                                   *)
(*                                                                         *)
(* Time: a request takes at least one tick of the wall clock, which is not *)
(* set back; requests that overlap may read the same time.                 *)
(***************************************************************************)
EXTENDS Naturals, SequencesExt

CONSTANTS
  Callers,    \* goroutines that serve requests
  Captures,   \* ids that newID can draw
  NoCapture   \* a caller that saves nothing

ASSUME NoCaptureAssumption == NoCapture \notin Captures

VARIABLES
  up,         \* whether the process runs
  file,       \* dir/<id>: "none", "torn" or "full"
  objects,    \* Store.objects: UploadedAt by id, Absent for no entry
  clock,      \* the wall clock
  pc,         \* where each caller is
  id,         \* the id a Save drew
  stamp,      \* the UploadedAt a Save took
  todo,       \* what a listing has yet to Get, in its order
  page,       \* what a listing has got so far
  drawn,      \* history: the ids drawn so far
  acked,      \* history: the uploads answered 201
  lived,      \* history: those answered since the process started
  seen,       \* history: what was acked and lived when a listing began
  later       \* history: <<j, k>> when k's upload began after j's was answered

vars == <<up, file, objects, clock, pc, id, stamp, todo, page,
          drawn, acked, lived, seen, later>>

history == <<drawn, acked, lived, seen, later>>

\* The clock is past it from the first request on.
Absent == 0

Indexed == {k \in Captures : objects[k] # Absent}

NothingSeen == [acked |-> {}, lived |-> {}]

PcValues == {"idle", "open", "write", "close", "index", "answer",
             "listing", "listed"}

TypeOK ==
  /\ up \in BOOLEAN
  /\ file \in [Captures -> {"none", "torn", "full"}]
  /\ objects \in [Captures -> Nat]
  /\ clock \in Nat
  /\ pc \in [Callers -> PcValues]
  /\ id \in [Callers -> Captures \cup {NoCapture}]
  /\ stamp \in [Callers -> Nat]
  /\ todo \in [Callers -> Seq(Captures)]
  /\ page \in [Callers -> Seq(Captures)]
  /\ drawn \in SUBSET Captures
  /\ acked \in SUBSET Captures
  /\ lived \in SUBSET Captures
  /\ seen \in [Callers -> [acked : SUBSET Captures, lived : SUBSET Captures]]
  /\ later \in SUBSET (Captures \X Captures)

Init ==
  /\ up = FALSE
  /\ file = [k \in Captures |-> "none"]
  /\ objects = [k \in Captures |-> Absent]
  /\ clock = 0
  /\ pc = [c \in Callers |-> "idle"]
  /\ id = [c \in Callers |-> NoCapture]
  /\ stamp = [c \in Callers |-> Absent]
  /\ todo = [c \in Callers |-> <<>>]
  /\ page = [c \in Callers |-> <<>>]
  /\ drawn = {}
  /\ acked = {}
  /\ lived = {}
  /\ seen = [c \in Callers |-> NothingSeen]
  /\ later = {}

-----------------------------------------------------------------------------
Goto(c, l) == pc' = [pc EXCEPT ![c] = l]

\* Save draws a fresh id (8 random bytes).
SaveCall(c, k) ==
  /\ up /\ pc[c] = "idle" /\ k \notin drawn
  /\ Goto(c, "open")
  /\ id' = [id EXCEPT ![c] = k]
  /\ clock' = clock + 1
  /\ drawn' = drawn \cup {k}
  /\ later' = later \cup (acked \X {k})
  /\ UNCHANGED <<up, file, objects, stamp, todo, page, acked, lived, seen>>

\* Broken: the object is in the map from the moment its file is.
CreateAndIndex(c) ==
  /\ pc[c] = "open"
  /\ file' = [file EXCEPT ![id[c]] = "torn"]
  /\ objects' = [objects EXCEPT ![id[c]] = clock]
  /\ Goto(c, "write")
  /\ UNCHANGED <<up, clock, id, stamp, todo, page, history>>

\* os.WriteFile: create, write, close.
Create(c) ==
  /\ pc[c] = "open"
  /\ file' = [file EXCEPT ![id[c]] = "torn"]
  /\ Goto(c, "write")
  /\ UNCHANGED <<up, objects, clock, id, stamp, todo, page, history>>

WriteBytes(c) ==
  /\ pc[c] = "write"
  /\ file' = [file EXCEPT ![id[c]] = "full"]
  /\ Goto(c, "close")
  /\ UNCHANGED <<up, objects, clock, id, stamp, todo, page, history>>

\* Broken: the error is dropped, and an empty id is answered.
SaveErrorAnswered(c) ==
  /\ pc[c] \in {"open", "write", "close"}
  /\ Goto(c, "answer")
  /\ id' = [id EXCEPT ![c] = NoCapture]
  /\ UNCHANGED <<up, file, objects, clock, stamp, todo, page, history>>

\* Any of the three fails: the request ends in an error, the file stays.
SaveFails(c) ==
  /\ pc[c] \in {"open", "write", "close"}
  /\ Goto(c, "idle")
  /\ id' = [id EXCEPT ![c] = NoCapture]
  /\ UNCHANGED <<up, file, objects, clock, stamp, todo, page, history>>

\* obj: UploadedAt is taken before the lock is.
Stamp(c) ==
  /\ pc[c] = "close"
  /\ stamp' = [stamp EXCEPT ![c] = clock]
  /\ Goto(c, "index")
  /\ UNCHANGED <<up, file, objects, clock, id, todo, page, history>>

Index(c) ==
  /\ pc[c] = "index"
  /\ objects' = [objects EXCEPT ![id[c]] = stamp[c]]
  /\ stamp' = [stamp EXCEPT ![c] = Absent]
  /\ Goto(c, "answer")
  /\ UNCHANGED <<up, file, clock, id, todo, page, history>>

\* The student has the capture's id.
AnswerUpload(c) ==
  /\ pc[c] = "answer"
  /\ acked' = acked \cup {id[c]}
  /\ lived' = lived \cup {id[c]}
  /\ id' = [id EXCEPT ![c] = NoCapture]
  /\ Goto(c, "idle")
  /\ UNCHANGED <<up, file, objects, clock, stamp, todo, page, drawn, seen, later>>

-----------------------------------------------------------------------------
\* Broken: the comparison is the wrong way round.
OldestFirst(q) ==
  \A i, j \in DOMAIN q : i < j => objects[q[i]] <= objects[q[j]]

\* sort.Slice by UploadedAt.After is not stable, and ranging over a map starts
\* anywhere: objects of the same time come in any order.
NewestFirst(q) ==
  \A i, j \in DOMAIN q : i < j => objects[q[i]] >= objects[q[j]]

\* Store.List: what the map holds now, in order.
ListCall(c) ==
  /\ up /\ pc[c] = "idle"
  /\ \E q \in SetToSeqs(Indexed) :
       NewestFirst(q) /\ todo' = [todo EXCEPT ![c] = q]
  /\ Goto(c, "listing")
  /\ seen' = [seen EXCEPT ![c] = [acked |-> acked, lived |-> lived]]
  /\ UNCHANGED <<up, file, objects, clock, id, stamp, page, drawn, acked, lived, later>>

\* Store.Get of the next entry: the map first, then the file.
GetNext(c) ==
  /\ pc[c] = "listing" /\ todo[c] # <<>>
  /\ Head(todo[c]) \in Indexed
  /\ page' = [page EXCEPT ![c] = Append(@, Head(todo[c]))]
  /\ todo' = [todo EXCEPT ![c] = Tail(@)]
  /\ UNCHANGED <<up, file, objects, clock, pc, id, stamp, history>>

EndListing(c) ==
  /\ todo' = [todo EXCEPT ![c] = <<>>]
  /\ page' = [page EXCEPT ![c] = <<>>]
  /\ seen' = [seen EXCEPT ![c] = NothingSeen]
  /\ Goto(c, "idle")

\* Broken: an entry that cannot be read is passed over.
GetSkips(c) ==
  /\ pc[c] = "listing" /\ todo[c] # <<>>
  /\ todo' = [todo EXCEPT ![c] = Tail(@)]
  /\ UNCHANGED <<up, file, objects, clock, pc, id, stamp, page, history>>

\* An entry that is not in the map (ErrNotFound) or whose file cannot be read
\* makes the whole listing an error.
GetFails(c) ==
  /\ pc[c] = "listing" /\ todo[c] # <<>>
  /\ EndListing(c)
  /\ UNCHANGED <<up, file, objects, clock, id, stamp, drawn, acked, lived, later>>

ListReady(c) ==
  /\ pc[c] = "listing" /\ todo[c] = <<>>
  /\ Goto(c, "listed")
  /\ UNCHANGED <<up, file, objects, clock, id, stamp, todo, page, history>>

AnswerList(c) ==
  /\ pc[c] = "listed"
  /\ EndListing(c)
  /\ UNCHANGED <<up, file, objects, clock, id, stamp, drawn, acked, lived, later>>

-----------------------------------------------------------------------------
\* The process stops; the files are left, the map is gone.
Crash ==
  /\ up
  /\ up' = FALSE
  /\ objects' = [k \in Captures |-> Absent]
  /\ pc' = [c \in Callers |-> "idle"]
  /\ id' = [c \in Callers |-> NoCapture]
  /\ stamp' = [c \in Callers |-> Absent]
  /\ todo' = [c \in Callers |-> <<>>]
  /\ page' = [c \in Callers |-> <<>>]
  /\ lived' = {}
  /\ seen' = [c \in Callers |-> NothingSeen]
  /\ UNCHANGED <<file, clock, drawn, acked, later>>

\* localfs.New: an empty map, whatever the directory holds.
Start ==
  /\ ~up
  /\ up' = TRUE
  /\ objects' = [k \in Captures |-> Absent]
  /\ UNCHANGED <<file, clock, pc, id, stamp, todo, page, history>>

-----------------------------------------------------------------------------
Request(c) == (\E k \in Captures : SaveCall(c, k)) \/ ListCall(c)

Proceed(c) ==
  \/ Create(c) \/ WriteBytes(c) \/ SaveFails(c)
  \/ Stamp(c) \/ Index(c) \/ AnswerUpload(c)
  \/ GetNext(c) \/ GetFails(c) \/ ListReady(c) \/ AnswerList(c)

Next ==
  \/ \E c \in Callers : Request(c) \/ Proceed(c)
  \/ Crash \/ Start

Spec == Init /\ [][Next]_vars

-----------------------------------------------------------------------------
\* A capture in the map has all its bytes on disk, so that neither a listing
\* nor an analysis reads a file that another request is still writing.
IndexedHasBytes == \A k \in Indexed : file[k] = "full"

\* A listing, however long its reads take and whatever is uploaded meanwhile,
\* holds each capture once and every capture whose upload was answered before
\* the listing began, in this life of the process.
ListsWhatWasAnswered ==
  \A c \in Callers : pc[c] = "listed" =>
    /\ seen[c].lived \subseteq ToSet(page[c])
    /\ IsInjective(page[c])

\* Of two captures in an answer, the one whose upload began after the other
\* was answered comes first, although the time is taken outside the lock.
ListsNewestFirst ==
  \A c \in Callers : \A i, j \in DOMAIN page[c] :
    <<page[c][i], page[c][j]>> \in later => j < i

\* What these three rest on.  A handler holds an id exactly while it saves, and
\* has something to list exactly while it lists.
WorkFits ==
  \A c \in Callers :
    /\ ~up => pc[c] = "idle"
    /\ id[c] # NoCapture <=> pc[c] \in {"open", "write", "close", "index", "answer"}
    /\ pc[c] \notin {"listing", "listed"} => todo[c] = <<>> /\ page[c] = <<>>
    /\ pc[c] = "listed" => todo[c] = <<>>

\* One handler saves a capture, which is in the map only after it has its bytes,
\* and answered only after that.
SavedByOne ==
  /\ \A k \in Captures \ drawn : objects[k] = Absent
  /\ \A c \in Callers : id[c] # NoCapture =>
       /\ id[c] \in drawn \ acked
       /\ \A d \in Callers \ {c} : id[d] # id[c]
       /\ pc[c] \in {"close", "index", "answer"} => file[id[c]] = "full"
       /\ objects[id[c]] # Absent <=> pc[c] = "answer"

\* Times were read from a clock that has started, and are past.
TimesArePast ==
  /\ drawn # {} => clock # 0
  /\ \A k \in Captures : objects[k] <= clock
  /\ \A c \in Callers : /\ stamp[c] <= clock
                        /\ pc[c] = "index" => stamp[c] # Absent

\* The upload that came later has the later time, or will have.
LaterIsNewer ==
  \A j, k \in Captures : <<j, k>> \in later =>
    /\ j \in acked /\ k \in drawn
    /\ {j, k} \subseteq Indexed => objects[j] < objects[k]
    /\ \A c \in Callers : id[c] = k =>
         /\ pc[c] \in {"open", "write", "close"} => objects[j] < clock
         /\ pc[c] = "index" => objects[j] < stamp[c]

\* What was answered in this life of the process is in the map.
AnsweredIsIndexed ==
  lived \subseteq acked \cap Indexed /\ acked \subseteq drawn /\ (~up => lived = {})

\* What a listing has and what it has yet to read make up, in order, the map it
\* started from.
Listing(c) == page[c] \o todo[c]

ListingIsWhole ==
  \A c \in Callers : pc[c] \in {"listing", "listed"} =>
    /\ IsInjective(Listing(c)) /\ NewestFirst(Listing(c))
    /\ seen[c].lived \subseteq ToSet(Listing(c))
    /\ ToSet(Listing(c)) \subseteq Indexed

\* The inductive invariant.
IndInv ==
  /\ TypeOK
  /\ IsFiniteSet(drawn)
  /\ WorkFits
  /\ SavedByOne
  /\ TimesArePast
  /\ LaterIsNewer
  /\ AnsweredIsIndexed
  /\ ListingIsWhole
  /\ IndexedHasBytes

\* What the server may assume of the store.
Stored == {k \in Captures : file[k] = "full"}

Shelf == INSTANCE CaptureShelf WITH stored <- Stored, indexed <- Indexed, serving <- up

ShelfSpec == Shelf!Spec

-----------------------------------------------------------------------------
\* What storage.Store and the RPC promise: List returns "all stored objects'
\* metadata", ListCaptures "all previously uploaded captures".
ListsAllUploads ==
  \A c \in Callers : pc[c] = "listed" => seen[c].acked \subseteq ToSet(page[c])
=============================================================================
