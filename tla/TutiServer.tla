----------------------------- MODULE TutiServer -----------------------------
(***************************************************************************)
(* The server process: the handlers of internal/httpapi that change state  *)
(* or call the model (snap.go, analyze.go, the upload of captures.go), the *)
(* stores they share, and the life of the process (cmd/server/main.go).    *)
(*                                                                         *)
(* The stores appear as their own modules leave them.  A call of the snap  *)
(* session store is one step, which SnapStore's refinement of SnapRecords  *)
(* allows, and what its failures leave behind is kept: a file one step     *)
(* ahead of `view`, or a file in `torn`, which changes nothing while the   *)
(* process runs and keeps every later one from starting.  A capture is     *)
(* bytes on disk first and an entry of the map second, and only the bytes  *)
(* outlive the process (CaptureStore).  ListCaptures, the lesson content,  *)
(* health and developer routes change nothing and are left out.            *)
(* The vision model behind the Analyzer is external: it answers, fails, or *)
(* never returns.                                                          *)
(***************************************************************************)
EXTENDS SnapRecord, Naturals, SequencesExt

CONSTANTS
  Callers,      \* goroutines that serve requests
  SolveIds,     \* ids that newID("sess_") can draw
  MaxAssets     \* bound: the longest asset list of a request

ASSUME MaxAssetsAssumption == MaxAssets \in Nat

VARIABLES
  phase,        \* "up", "draining" (http.Server.Shutdown runs) or "down"
  stored,       \* captures whose bytes are on disk
  indexed,      \* localfs.Store.objects
  view,         \* SnapStore.sessions, as SnapFlow sees it
  durable,      \* dir/snap: the last record that was whole in each file
  torn,         \* the files of dir/snap that are empty or cut short
  solveFiles,   \* dir/solve: the files that are whole
  tornSolve,    \* the files of dir/solve that are empty or cut short
  known,        \* SolveStore.sessions
  pc,           \* where each handler is
  req,          \* the request it handles
  drawn,        \* history: ids drawn so far, of all three kinds
  accepted,     \* history: photos whose SubmitSnap was answered 200, by session
  opened,       \* history: solve sessions answered 200
  analysed      \* history: how often a session's analysis was given a photo

stores == <<stored, indexed, view, durable, torn, solveFiles, tornSolve, known>>

history == <<drawn, accepted, opened, analysed>>

vars == <<phase, stores, pc, req, history>>

AssetLists == SeqOf(Captures, MaxAssets) \ {<<>>}

NoRequest == [op |-> "none"]

Requests ==
  {NoRequest}
  \cup [op : {"upload"}, capture : Captures]
  \cup [op : {"snap"}, session : Sessions, capture : Captures]
  \cup [op : {"init"}, session : Sessions]
  \cup [op : {"response"}, session : Sessions, capture : Captures \cup {NoCapture}]
  \cup [op : {"create"}, solve : SolveIds]
  \cup [op : {"analyze"}, solve : SolveIds, assets : AssetLists \cup {<<>>}]

PcValues == {"idle", "save", "index", "submit", "init", "insert", "respond",
             "load", "analyzing", "create", "know", "check", "assets", "reply"}

TypeOK ==
  /\ phase \in {"up", "draining", "down"}
  /\ stored \in SUBSET Captures
  /\ indexed \in SUBSET Captures
  /\ view \in [Sessions -> Record]
  /\ durable \in [Sessions -> Record]
  /\ torn \in SUBSET Sessions
  /\ solveFiles \in SUBSET SolveIds
  /\ tornSolve \in SUBSET SolveIds
  /\ known \in SUBSET SolveIds
  /\ pc \in [Callers -> PcValues]
  /\ req \in [Callers -> Requests]
  /\ drawn \in SUBSET (Captures \cup Sessions \cup SolveIds)
  /\ accepted \in [Sessions -> SUBSET Captures]
  /\ opened \in SUBSET SolveIds
  /\ analysed \in [Sessions -> [Captures -> Nat]]

Init ==
  /\ phase = "down"
  /\ stored = {} /\ indexed = {}
  /\ view = [s \in Sessions |-> NoSession]
  /\ durable = [s \in Sessions |-> NoSession]
  /\ torn = {} /\ tornSolve = {}
  /\ solveFiles = {} /\ known = {}
  /\ pc = [c \in Callers |-> "idle"]
  /\ req = [c \in Callers |-> NoRequest]
  /\ drawn = {} /\ opened = {}
  /\ accepted = [s \in Sessions |-> {}]
  /\ analysed = [s \in Sessions |-> [k \in Captures |-> 0]]

-----------------------------------------------------------------------------
\* A request arrives, and draws the id it needs, if any.
Arrive(c, r, l) ==
  /\ phase = "up" /\ pc[c] = "idle"
  /\ pc' = [pc EXCEPT ![c] = l]
  /\ req' = [req EXCEPT ![c] = r]
  /\ UNCHANGED <<phase, stores, accepted, opened, analysed>>

Fresh(x) == x \notin drawn /\ drawn' = drawn \cup {x}

UploadCall(c, k) ==
  Fresh(k) /\ Arrive(c, [op |-> "upload", capture |-> k], "save")

SubmitSnapCall(c, s, k) ==
  Fresh(k) /\ Arrive(c, [op |-> "snap", session |-> s, capture |-> k], "save")

InitCall(c, s) ==
  Fresh(s) /\ Arrive(c, [op |-> "init", session |-> s], "init")

SubmitResponseCall(c, s) ==
  /\ Arrive(c, [op |-> "response", session |-> s, capture |-> NoCapture], "respond")
  /\ UNCHANGED drawn

CreateSessionCall(c, z) ==
  Fresh(z) /\ Arrive(c, [op |-> "create", solve |-> z], "create")

AnalyzeAssetsCall(c, z, a) ==
  /\ Arrive(c, [op |-> "analyze", solve |-> z, assets |-> a], "check")
  /\ UNCHANGED drawn

-----------------------------------------------------------------------------
At(c, l) == pc[c] = l

Goto(c, l) == pc' = [pc EXCEPT ![c] = l] /\ UNCHANGED <<phase, req>>

\* The handler writes its answer, a success or an error, and is done.
Done(c) ==
  /\ pc' = [pc EXCEPT ![c] = "idle"]
  /\ req' = [req EXCEPT ![c] = NoRequest]
  /\ UNCHANGED phase

Fails(c) == Done(c) /\ UNCHANGED <<stores, history>>

\* Store.Save of the upload and of SubmitSnap, which comes before the session
\* is looked at: bytes, then the map.
SaveBytes(c) ==
  /\ At(c, "save")
  /\ stored' = stored \cup {req[c].capture}
  /\ Goto(c, "index")
  /\ UNCHANGED <<indexed, view, durable, torn, solveFiles, tornSolve, known, history>>

\* Broken: the error of os.WriteFile is dropped.
SaveErrorDropped(c) ==
  /\ At(c, "save")
  /\ Goto(c, "index")
  /\ UNCHANGED <<stores, history>>

\* A failed write may still have left the bytes; nothing refers to them.
SaveFails(c) ==
  /\ At(c, "save")
  /\ stored' \in {stored, stored \cup {req[c].capture}}
  /\ Done(c)
  /\ UNCHANGED <<indexed, view, durable, torn, solveFiles, tornSolve, known, history>>

AddToIndex(c) ==
  /\ At(c, "index")
  /\ indexed' = indexed \cup {req[c].capture}
  /\ Goto(c, IF req[c].op = "snap" THEN "submit" ELSE "reply")
  /\ UNCHANGED <<stored, view, durable, torn, solveFiles, tornSolve, known, history>>

-----------------------------------------------------------------------------
\* Broken: the move is made in memory only.
MoveInMemory(s, r) ==
  /\ view' = [view EXCEPT ![s] = r]
  /\ UNCHANGED <<stored, indexed, durable, torn, solveFiles, tornSolve, known>>

\* SnapStore.persist: os.WriteFile empties the file and writes r, ...
Persist(s, r) ==
  /\ durable' = [durable EXCEPT ![s] = r]
  /\ torn' = torn \ {s}

\* ... and when one of its system calls fails, or the process stops among them,
\* the file is as it was, or empty or cut short, or holds r all the same.
PersistFails(s, r) ==
  \/ UNCHANGED <<durable, torn>>
  \/ torn' = torn \cup {s} /\ UNCHANGED durable
  \/ Persist(s, r)

\* A call of SnapStore that moves the session to r: on disk, then in memory.
Move(s, r) ==
  /\ Persist(s, r)
  /\ view' = [view EXCEPT ![s] = r]
  /\ UNCHANGED <<stored, indexed, solveFiles, tornSolve, known>>

\* The same call when it fails, or when the process stops before it has
\* returned.
WriteFails(s, r) ==
  /\ PersistFails(s, r)
  /\ UNCHANGED <<stored, indexed, view, solveFiles, tornSolve, known>>

\* Broken: a second photo is taken while the session awaits its response.
SubmitSnapAgain(c) ==
  LET s == req[c].session
      r == Submitted(req[c].capture)
  IN /\ At(c, "submit")
     /\ view[s].step \in {"awaitSnap", "awaitResponse"}
     /\ \/ Move(s, r) /\ Goto(c, "reply")
        \/ WriteFails(s, r) /\ Done(c)
     /\ UNCHANGED history

SubmitSnap(c) ==
  LET s == req[c].session
      r == Submitted(req[c].capture)
  IN /\ At(c, "submit")
     /\ view[s].step = "awaitSnap"
     /\ \/ Move(s, r) /\ Goto(c, "reply")
        \/ WriteFails(s, r) /\ Done(c)
     /\ UNCHANGED history

\* 404 or 409.  The capture stays where it is.
SubmitSnapRefused(c) ==
  /\ At(c, "submit")
  /\ view[req[c].session].step # "awaitSnap"
  /\ Fails(c)

\* Broken: a session that is done may be responded to again.
SubmitResponseAgain(c) ==
  LET s == req[c].session
      r == Finished(view[s])
  IN /\ At(c, "respond")
     /\ view[s].step \in {"awaitResponse", "done"}
     /\ Move(s, r)
     /\ pc' = [pc EXCEPT ![c] = "load"]
     /\ req' = [req EXCEPT ![c].capture = r.capture]
     /\ UNCHANGED <<phase, history>>

\* The capture it returns is the handler's from here on.
SubmitResponse(c) ==
  LET s == req[c].session
      r == Finished(view[s])
  IN /\ At(c, "respond")
     /\ view[s].step = "awaitResponse"
     /\ \/ /\ Move(s, r)
           /\ pc' = [pc EXCEPT ![c] = "load"]
           /\ req' = [req EXCEPT ![c].capture = r.capture]
           /\ UNCHANGED phase
        \/ WriteFails(s, r) /\ Done(c)
     /\ UNCHANGED history

SubmitResponseRefused(c) ==
  /\ At(c, "respond")
  /\ view[req[c].session].step # "awaitResponse"
  /\ Fails(c)

\* Broken: the session is put into the map only.
InitUnsaved(c) ==
  /\ At(c, "init")
  /\ Goto(c, "insert")
  /\ UNCHANGED <<stores, history>>

\* SnapStore.Init: the file, then the map.
InitSave(c) ==
  LET s == req[c].session
  IN /\ At(c, "init")
     /\ \/ Persist(s, Opened) /\ Goto(c, "insert")
        \/ PersistFails(s, Opened) /\ Done(c)
     /\ UNCHANGED <<stored, indexed, view, solveFiles, tornSolve, known, history>>

InitInsert(c) ==
  /\ At(c, "insert")
  /\ view' = [view EXCEPT ![req[c].session] = Opened]
  /\ Goto(c, "reply")
  /\ UNCHANGED <<stored, indexed, durable, torn, solveFiles, tornSolve, known, history>>

-----------------------------------------------------------------------------
\* SubmitSnapResponse, with the session already done: Store.Get, and the photo
\* goes to Evaluate or Extract.
LoadPhoto(c) ==
  LET s == req[c].session
      k == req[c].capture
  IN /\ At(c, "load")
     /\ k \in indexed /\ k \in stored
     /\ analysed' = [analysed EXCEPT ![s][k] = @ + 1]
     /\ Goto(c, "analyzing")
     /\ UNCHANGED <<stores, drawn, accepted, opened>>

\* The map does not hold the capture, or its file cannot be read: 500.
LoadFails(c) == At(c, "load") /\ Fails(c)

\* SolveStore.Create: the file, which is new, then the map.  A write that fails
\* leaves no file, or one that is empty or cut short, or the whole of it.
CreateSave(c) ==
  LET z == req[c].solve
  IN /\ At(c, "create")
     /\ \/ /\ solveFiles' = solveFiles \cup {z} /\ Goto(c, "know")
           /\ UNCHANGED tornSolve
        \/ /\ \/ UNCHANGED <<solveFiles, tornSolve>>
              \/ tornSolve' = tornSolve \cup {z} /\ UNCHANGED solveFiles
              \/ solveFiles' = solveFiles \cup {z} /\ UNCHANGED tornSolve
           /\ Done(c)
     /\ UNCHANGED <<stored, indexed, view, durable, torn, known, history>>

CreateInsert(c) ==
  /\ At(c, "know")
  /\ known' = known \cup {req[c].solve}
  /\ Goto(c, "reply")
  /\ UNCHANGED <<stored, indexed, view, durable, torn, solveFiles, tornSolve, history>>

\* SolveStore.Exists, else 404.
CheckSession(c) ==
  /\ At(c, "check")
  /\ req[c].solve \in known
  /\ Goto(c, "assets")
  /\ UNCHANGED <<stores, history>>

\* Broken: an unknown session is waited for.
CheckWaits(c) == FALSE

CheckFails(c) == At(c, "check") /\ req[c].solve \notin known /\ Fails(c)

\* One Store.Get for each asset, in order.
GetAsset(c) ==
  /\ At(c, "assets") /\ req[c].assets # <<>>
  /\ Head(req[c].assets) \in indexed
  /\ req' = [req EXCEPT ![c].assets = Tail(@)]
  /\ UNCHANGED <<phase, pc, stores, history>>

GetAssetFails(c) == At(c, "assets") /\ req[c].assets # <<>> /\ Fails(c)

AnalyzeAssets(c) ==
  /\ At(c, "assets") /\ req[c].assets = <<>>
  /\ Goto(c, "analyzing")
  /\ UNCHANGED <<stores, history>>

-----------------------------------------------------------------------------
\* The vision model (external).
ModelAnswers(c) ==
  /\ At(c, "analyzing")
  /\ Goto(c, "reply")
  /\ UNCHANGED <<stores, history>>

\* 502.
ModelFails(c) == At(c, "analyzing") /\ Fails(c)

\* The answer is written; the client may or may not get it.
Reply(c) ==
  LET r == req[c]
  IN /\ At(c, "reply")
     /\ accepted' = IF r.op = "snap"
                    THEN [accepted EXCEPT ![r.session] = @ \cup {r.capture}]
                    ELSE accepted
     /\ opened' = IF r.op = "create" THEN opened \cup {r.solve} ELSE opened
     /\ Done(c)
     /\ UNCHANGED <<stores, drawn, analysed>>

-----------------------------------------------------------------------------
\* The process ends, with whatever its handlers were doing.  What it had in
\* memory is out of reach until Start overwrites it; `view` is kept, as what
\* the callers were told.
Exit ==
  /\ phase' = "down"
  /\ indexed' = {}
  /\ known' = {}
  /\ pc' = [c \in Callers |-> "idle"]
  /\ req' = [c \in Callers |-> NoRequest]
  /\ UNCHANGED <<stored, view, durable, torn, solveFiles, tornSolve>>
  /\ UNCHANGED history

Crash == phase # "down" /\ Exit

\* SIGINT or SIGTERM: no new request is taken.
Shutdown ==
  /\ phase = "up"
  /\ phase' = "draining"
  /\ UNCHANGED <<stores, pc, req, history>>

\* Shutdown returns when every handler has, ...
Drained == phase = "draining" /\ (\A c \in Callers : At(c, "idle")) /\ Exit

\* Broken: Shutdown with a context that never ends.
NoDrainTimeout == FALSE

\* ... or after ten seconds, and the process leaves the handlers where they are.
DrainTimeout == phase = "draining" /\ Exit

\* Every file of both directories decodes.
Loadable == torn = {} /\ tornSolve = {}

\* Broken: the solve sessions are not read back.
StartWithoutSolve ==
  /\ phase = "down"
  /\ Loadable
  /\ phase' = "up"
  /\ view' = durable
  /\ known' = {}
  /\ indexed' = {}
  /\ UNCHANGED <<stored, durable, torn, solveFiles, tornSolve, pc, req, history>>

\* NewSnapStore, NewSolveStore and localfs.New, before the server listens.
Start ==
  /\ phase = "down"
  /\ Loadable
  /\ phase' = "up"
  /\ view' = durable
  /\ known' = solveFiles
  /\ indexed' = {}
  /\ UNCHANGED <<stored, durable, torn, solveFiles, tornSolve, pc, req, history>>

\* A file does not decode, or cannot be read: main exits with the error.
StartRefused == phase = "down" /\ UNCHANGED vars

-----------------------------------------------------------------------------
Request(c) ==
  \/ \E k \in Captures : UploadCall(c, k)
  \/ \E s \in Sessions, k \in Captures : SubmitSnapCall(c, s, k)
  \/ \E s \in Sessions : InitCall(c, s)
  \/ \E s \in Sessions : SubmitResponseCall(c, s)
  \/ \E z \in SolveIds : CreateSessionCall(c, z)
  \/ \E z \in SolveIds, a \in AssetLists : AnalyzeAssetsCall(c, z, a)

\* Everything a handler does on its own.
Proceed(c) ==
  \/ SaveBytes(c) \/ SaveFails(c) \/ AddToIndex(c)
  \/ SubmitSnap(c) \/ SubmitSnapRefused(c)
  \/ SubmitResponse(c) \/ SubmitResponseRefused(c)
  \/ InitSave(c) \/ InitInsert(c)
  \/ LoadPhoto(c) \/ LoadFails(c)
  \/ CreateSave(c) \/ CreateInsert(c)
  \/ CheckSession(c) \/ CheckFails(c)
  \/ GetAsset(c) \/ GetAssetFails(c) \/ AnalyzeAssets(c)
  \/ Reply(c)

Model(c) == ModelAnswers(c) \/ ModelFails(c)

Next ==
  \/ \E c \in Callers : Request(c) \/ Proceed(c) \/ Model(c)
  \/ Crash \/ Shutdown \/ Drained \/ DrainTimeout \/ Start \/ StartRefused

Spec == Init /\ [][Next]_vars

\* Handlers run, and so does the ten-second timer of Shutdown.  The model owes
\* no answer, nobody must call or send a signal, and nothing restarts a process.
Fairness ==
  /\ \A c \in Callers : WF_vars(Proceed(c))
  /\ WF_vars(Drained \/ DrainTimeout)

FairSpec == Spec /\ Fairness

-----------------------------------------------------------------------------
\* A session's photo is stored, in this life of the process and the next: its
\* bytes are on disk before a record says so, in memory or in a file, in two
\* stores that know nothing of each other.
SessionPhotoStored ==
  \A s \in Sessions :
    {view[s].capture, durable[s].capture} \ {NoCapture} \subseteq stored

\* A photo whose SubmitSnap was answered 200 is the session's photo from then on:
\* no failed write, retry, duplicate or restart puts another in its place, and no
\* process that serves is without it.  The session's file names it too, unless
\* the write of a response tore it, which leaves the session awaiting one; with a
\* response that went through the file is whole, and stays so.
AcceptedPhotoKept ==
  \A s \in Sessions : \A k \in accepted[s] :
    /\ view[s].capture = k
    /\ IF s \in torn THEN view[s].step = "awaitResponse"
                     ELSE durable[s].capture = k

\* The photo a session's analysis is given is the session's photo, it is given
\* once, and by then the session is finished in a file that is whole and stays
\* so.
AnalysedOnce ==
  \A s \in Sessions : \A k \in Captures :
    analysed[s][k] > 0 =>
      analysed[s][k] = 1 /\ s \notin torn /\ durable[s] = Finished(Submitted(k))

\* A solve session the student was given can be used, now or after a restart, and
\* is not what keeps a process from starting.
OpenedIsKnown ==
  /\ opened \subseteq solveFiles \ tornSolve
  /\ phase # "down" => opened \subseteq known

\* What the invariants above rest on, beginning with what each handler is doing,
\* which fits what it was asked for.
Fits(l, r) ==
  /\ l = "idle" <=> r.op = "none"
  /\ l \in {"save", "index"} => r.op \in {"upload", "snap"}
  /\ l = "submit" => r.op = "snap"
  /\ l \in {"init", "insert"} => r.op = "init"
  /\ l \in {"respond", "load"} => r.op = "response"
  /\ l \in {"create", "know"} => r.op = "create"
  /\ l \in {"check", "assets"} => r.op = "analyze"
  /\ l = "analyzing" => r.op \in {"response", "analyze"}

WorkFits ==
  \A c \in Callers : Fits(pc[c], req[c]) /\ (phase = "down" => pc[c] = "idle")

\* A session is empty, on disk and in memory, until its id is drawn, and one
\* handler opens it.
OpenedByOne ==
  /\ \A s \in Sessions \ drawn : view[s] = NoSession /\ durable[s] = NoSession
  /\ \A c \in Callers : req[c].op = "init" =>
       /\ req[c].session \in drawn
       /\ \A d \in Callers \ {c} :
            req[d].op = "init" => req[d].session # req[c].session
       /\ pc[c] \in {"init", "insert"} => view[req[c].session] = NoSession
       /\ pc[c] = "init" => durable[req[c].session] = NoSession
       /\ pc[c] = "insert" => durable[req[c].session] = Opened

\* A solve session has no file until its id is drawn, and one handler makes it.
CreatedByOne ==
  /\ solveFiles \cup tornSolve \subseteq drawn
  /\ solveFiles \cap tornSolve = {}
  /\ \A c \in Callers : req[c].op = "create" =>
       /\ req[c].solve \in drawn
       /\ \A d \in Callers \ {c} :
            req[d].op = "create" => req[d].solve # req[c].solve
       /\ pc[c] = "create" => req[c].solve \notin solveFiles \cup tornSolve

\* A file is torn by a write on the way to the next record, never after the last
\* one, and is whole again before the session is put into the map.
TornOnTheWay ==
  /\ \A s \in torn : view[s].step # "done"
  /\ \A c \in Callers : pc[c] = "insert" => req[c].session \notin torn

\* A session has a photo from the submission on.
PhotoFromSubmission ==
  \A s \in Sessions :
    /\ view[s].capture = NoCapture <=> view[s].step \in {"none", "awaitSnap"}
    /\ durable[s].capture = NoCapture <=> durable[s].step \in {"none", "awaitSnap"}

\* The last whole record of a file is the one in memory, or one step ahead of it.
WriteAhead ==
  \A s \in Sessions :
    durable[s] = view[s] \/ Advances(view[s], durable[s])

\* A handler comes to the session with a photo that is stored, and has its
\* answer to write only when the session has that photo.
PhotoHandedOver ==
  \A c \in Callers : req[c].op = "snap" =>
    /\ pc[c] \in {"index", "submit"} => req[c].capture \in stored
    /\ pc[c] = "reply" =>
         /\ view[req[c].session].capture = req[c].capture
         /\ durable[req[c].session].capture = req[c].capture

\* The handler that is about to load a photo is the only one to do so for the
\* session, which is finished, and whose photo it is.
LoadsOnce ==
  \A c \in Callers : pc[c] = "load" =>
    LET s == req[c].session
        k == req[c].capture
    IN /\ k \in Captures
       /\ view[s] = Finished(Submitted(k)) /\ durable[s] = view[s]
       /\ analysed[s][k] = 0
       /\ \A d \in Callers \ {c} : pc[d] = "load" => req[d].session # s

AnalysedIsDone ==
  \A s \in Sessions : \A k \in Captures :
    analysed[s][k] > 0 =>
      /\ analysed[s][k] = 1
      /\ view[s] = Finished(Submitted(k)) /\ durable[s] = view[s]

\* An accepted photo is in the last whole record of its session's file.
AcceptedLasts ==
  \A s \in Sessions : \A k \in accepted[s] :
    view[s].capture = k /\ durable[s].capture = k

OpenedLasts ==
  /\ opened \subseteq solveFiles
  /\ phase # "down" => opened \subseteq known

\* A solve session is on disk before it is known, and known before it is
\* answered.
SolveHandedOver ==
  \A c \in Callers : req[c].op = "create" =>
    /\ pc[c] \in {"know", "reply"} => req[c].solve \in solveFiles
    /\ pc[c] = "reply" => req[c].solve \in known

\* The inductive invariant.
IndInv ==
  /\ TypeOK
  /\ WorkFits
  /\ OpenedByOne
  /\ CreatedByOne
  /\ TornOnTheWay
  /\ PhotoFromSubmission
  /\ WriteAhead
  /\ PhotoHandedOver
  /\ LoadsOnce
  /\ AnalysedIsDone
  /\ SolveHandedOver
  /\ SessionPhotoStored
  /\ AcceptedLasts
  /\ OpenedLasts

\* The handlers and the process move sessions as SnapFlow allows.
Flow == INSTANCE SnapFlow WITH flow <- view, serving <- (phase # "down")

FlowSpec == Flow!Spec

\* They use the two stores as the stores behave.
Records == INSTANCE SnapRecords WITH serving <- (phase # "down")

Shelf == INSTANCE CaptureShelf WITH serving <- (phase # "down")

StoresSpec == Records!Spec /\ Shelf!Spec

\* A shutdown ends although the vision model may never answer.
DrainEnds == phase = "draining" ~> phase = "down"

\* A handler ends, or waits for the vision model.
HandlersEnd == \A c \in Callers : pc[c] # "idle" ~> pc[c] \in {"idle", "analyzing"}

\* What of it does not depend on who is run when: a handler is only taken
\* forward, by itself or by the end of the process, in a number of steps that its
\* request bounds.
PlaceLeft ==
  [idle |-> 0, reply |-> 1, analyzing |-> 2, submit |-> 2, insert |-> 2, know |-> 2,
   load |-> 3, index |-> 3, init |-> 3, create |-> 3, assets |-> 3,
   save |-> 4, respond |-> 4, check |-> 4]

StepsLeft(l, r) ==
  PlaceLeft[l] + IF l \in {"check", "assets"} THEN Len(r.assets) ELSE 0

HandlersGoForward ==
  [][\A c \in Callers : pc[c] # "idle" =>
       \/ pc'[c] = pc[c] /\ req'[c] = req[c]
       \/ StepsLeft(pc'[c], req'[c]) < StepsLeft(pc[c], req[c])]_vars

-----------------------------------------------------------------------------
\* What the package comment of internal/session promises of both stores, "so
\* state survives a restart": a session that awaits its response can be given
\* one, that is, its photo can be loaded.
AwaitingCanBeAnswered ==
  \A s \in Sessions :
    phase = "up" /\ view[s].step = "awaitResponse" => view[s].capture \in indexed
=============================================================================
