-------------------------- MODULE TutiServerProofs --------------------------
(***************************************************************************)
(* TutiServer for any number of handlers, sessions, photos and solve       *)
(* sessions: its inductive invariant, what follows from it about photos,   *)
(* analyses and solve sessions, that it implements SnapFlow, and that it   *)
(* uses its two stores as they behave.                                     *)
(***************************************************************************)
EXTENDS TutiServer, SequenceTheorems, TLAPS

\* What the flow's records look like, in the terms the proofs need.
LEMMA RecordShapes ==
  /\ NoSession \in Record /\ Opened \in Record
  /\ \A k \in Captures \cup {NoCapture} : Submitted(k) \in Record
  /\ \A r \in Record : Finished(r) \in Record
  /\ NoSession.step = "none" /\ NoSession.capture = NoCapture
  /\ Opened.step = "awaitSnap" /\ Opened.capture = NoCapture
  /\ \A k : Submitted(k).step = "awaitResponse" /\ Submitted(k).capture = k
  /\ \A r : Finished(r).step = "done" /\ Finished(r).capture = r.capture
  BY DEF Record, Steps, NoSession, Opened, Submitted, Finished

\* A record is known by its step and its capture.
LEMMA RecordEqual ==
  ASSUME NEW r \in Record
  PROVE  /\ r.step = "none" /\ r.capture = NoCapture => r = NoSession
         /\ r.step = "awaitSnap" /\ r.capture = NoCapture => r = Opened
         /\ r.step = "awaitResponse" => r = Submitted(r.capture)
         /\ r.step = "done" => r = Finished(Submitted(r.capture))
         /\ r.step \in {"awaitResponse", "done"} /\ r.capture # NoCapture
              => r.capture \in Captures
         /\ r.step \in Steps /\ r.capture \in Captures \cup {NoCapture}
  BY DEF Record, Steps, NoSession, Opened, Submitted, Finished

\* Of a step of the flow: it keeps the photo, once there is one; it never
\* starts from a finished session and never ends at an empty one.
LEMMA AdvancesFacts ==
  ASSUME NEW old, NEW new, Advances(old, new)
  PROVE  /\ new \in Record /\ old \in Record
         /\ old.step # "done" /\ new # NoSession /\ new # old
         /\ new.capture = NoCapture <=> new.step \in {"none", "awaitSnap"}
         /\ old.capture # NoCapture => new.capture = old.capture
  BY NoCaptureAssumption
     DEF Advances, Record, Steps, NoSession, Opened, Submitted, Finished

\* What a request of each kind carries.
LEMMA RequestFacts ==
  ASSUME NEW r \in Requests
  PROVE  /\ r.op \in {"none", "upload", "snap", "init", "response", "create", "analyze"}
         /\ r.op \in {"upload", "snap"} => r.capture \in Captures
         /\ r.op \in {"snap", "init", "response"} => r.session \in Sessions
         /\ r.op = "response" => r.capture \in Captures \cup {NoCapture}
         /\ r.op \in {"create", "analyze"} => r.solve \in SolveIds
         /\ r.op = "analyze" => r.assets \in AssetLists \cup {<<>>}
  BY DEF Requests, NoRequest

\* A request keeps its kind when a response takes its photo.
LEMMA ResponseRequest ==
  ASSUME NEW r \in Requests, r.op = "response",
         NEW k \in Captures \cup {NoCapture}
  PROVE  /\ [r EXCEPT !.capture = k] \in Requests
         /\ [r EXCEPT !.capture = k].op = "response"
         /\ [r EXCEPT !.capture = k].session = r.session
         /\ [r EXCEPT !.capture = k].capture = k
  BY DEF Requests, NoRequest

\* What is left of a list of assets is one, or empty.
LEMMA TailOfAssets ==
  ASSUME NEW a \in AssetLists
  PROVE  Tail(a) \in AssetLists \cup {<<>>}
  <1>1. PICK n \in 0..MaxAssets : a \in [1..n -> Captures]
    BY DEF AssetLists, SeqOf
  <1>2. a # <<>>
    BY DEF AssetLists
  <1>3. n \in Nat /\ n <= MaxAssets
    BY MaxAssetsAssumption
  <1>4. a \in Seq(Captures) /\ Len(a) = n
    BY <1>1, <1>3
  <1>5. Tail(a) \in Seq(Captures) /\ Len(Tail(a)) = n - 1 /\ n # 0
    BY <1>2, <1>3, <1>4
  <1>6. Tail(a) \in [1..(n - 1) -> Captures]
    BY <1>5, LenProperties
  <1>7. n - 1 \in 0..MaxAssets
    BY <1>3, <1>5, MaxAssetsAssumption
  <1> QED  BY <1>6, <1>7 DEF AssetLists, SeqOf

\* What a request to analyse assets is made of.
LEMMA AssetsRequest ==
  ASSUME NEW r \in Requests, r.op = "analyze", r.assets # <<>>
  PROVE  /\ [r EXCEPT !.assets = Tail(r.assets)] \in Requests
         /\ [r EXCEPT !.assets = Tail(r.assets)].op = "analyze"
  <1>1. /\ r \in [op : {"analyze"}, solve : SolveIds, assets : AssetLists \cup {<<>>}]
    BY DEF Requests, NoRequest
  <1>2. Tail(r.assets) \in AssetLists \cup {<<>>}
    BY <1>1, TailOfAssets
  <1>3. [r EXCEPT !.assets = Tail(r.assets)]
          \in [op : {"analyze"}, solve : SolveIds, assets : AssetLists \cup {<<>>}]
    BY <1>1, <1>2
  <1> QED  BY <1>3 DEF Requests

-----------------------------------------------------------------------------
(***************************************************************************)
(* Where a step takes a handler                                            *)
(***************************************************************************)

\* A step of one handler leaves the others where they are.
LEMMA OthersStay ==
  ASSUME TypeOK, NEW c \in Callers, Request(c) \/ Proceed(c) \/ Model(c)
  PROVE  \A d \in Callers \ {c} : pc'[d] = pc[d] /\ req'[d] = req[d]
  <1>1. CASE Request(c)
    <2>1. \E r, l : pc' = [pc EXCEPT ![c] = l] /\ req' = [req EXCEPT ![c] = r]
      BY <1>1
         DEF Request, UploadCall, SubmitSnapCall, InitCall, SubmitResponseCall,
             CreateSessionCall, AnalyzeAssetsCall, Arrive
    <2> QED  BY <2>1 DEF TypeOK
  <1>2. CASE SubmitResponse(c) \/ GetAsset(c)
    BY <1>2 DEF TypeOK, SubmitResponse, GetAsset, Done
  <1>3. CASE (Proceed(c) \/ Model(c)) /\ ~SubmitResponse(c) /\ ~GetAsset(c)
    <2>1. \E l : pc' = [pc EXCEPT ![c] = l]
      BY <1>3
         DEF Proceed, Model, SaveBytes, SaveFails, AddToIndex, SubmitSnap,
             SubmitSnapRefused, SubmitResponseRefused, InitSave, InitInsert,
             LoadPhoto, LoadFails, CreateSave, CreateInsert, CheckSession,
             CheckFails, GetAssetFails, AnalyzeAssets, Reply, ModelAnswers,
             ModelFails, Fails, Done, Goto
    <2>2. req' = req \/ req' = [req EXCEPT ![c] = NoRequest]
      BY <1>3
         DEF Proceed, Model, SaveBytes, SaveFails, AddToIndex, SubmitSnap,
             SubmitSnapRefused, SubmitResponseRefused, InitSave, InitInsert,
             LoadPhoto, LoadFails, CreateSave, CreateInsert, CheckSession,
             CheckFails, GetAssetFails, AnalyzeAssets, Reply, ModelAnswers,
             ModelFails, Fails, Done, Goto
    <2> QED  BY <2>1, <2>2 DEF TypeOK
  <1> QED  BY <1>1, <1>2, <1>3

\* The places a handler may go to from the one it is at; to the end from each.
Onward ==
  {<<"save", "index">>, <<"index", "submit">>, <<"index", "reply">>,
   <<"submit", "reply">>, <<"init", "insert">>, <<"insert", "reply">>,
   <<"respond", "load">>, <<"load", "analyzing">>, <<"create", "know">>,
   <<"know", "reply">>, <<"check", "assets">>, <<"assets", "analyzing">>,
   <<"analyzing", "reply">>}

\* A handler goes from place to place along those, but for the loop over the
\* assets.
LEMMA PlaceToPlace ==
  ASSUME TypeOK, NEW c \in Callers, Proceed(c) \/ Model(c), ~GetAsset(c)
  PROVE  \/ pc[c] # "idle" /\ pc'[c] = "idle"
         \/ <<pc[c], pc'[c]>> \in Onward
  <1>1. CASE \/ SaveBytes(c) \/ SaveFails(c) \/ AddToIndex(c)
             \/ SubmitSnap(c) \/ SubmitResponse(c)
    BY <1>1
       DEF TypeOK, SaveBytes, SaveFails, AddToIndex, SubmitSnap, SubmitResponse,
           At, Done, Goto, Onward
  <1>2. CASE \/ InitSave(c) \/ InitInsert(c) \/ CreateSave(c) \/ CreateInsert(c)
             \/ LoadPhoto(c) \/ CheckSession(c) \/ AnalyzeAssets(c) \/ ModelAnswers(c)
    BY <1>2
       DEF TypeOK, InitSave, InitInsert, CreateSave, CreateInsert, LoadPhoto,
           CheckSession, AnalyzeAssets, ModelAnswers, At, Done, Goto, Onward
  <1>3. CASE \/ SubmitSnapRefused(c) \/ SubmitResponseRefused(c) \/ LoadFails(c)
             \/ CheckFails(c) \/ GetAssetFails(c) \/ ModelFails(c) \/ Reply(c)
    BY <1>3
       DEF TypeOK, SubmitSnapRefused, SubmitResponseRefused, LoadFails, CheckFails,
           GetAssetFails, ModelFails, Reply, Fails, At, Done
  <1> QED  BY <1>1, <1>2, <1>3 DEF Proceed, Model

-----------------------------------------------------------------------------
(***************************************************************************)
(* The inductive invariant, first without what it says of files that are   *)
(* torn and of solve sessions that are being made.  Every lemma below is   *)
(* about one group of actions and takes the invariant in the state before  *)
(* the step.                                                               *)
(***************************************************************************)

CoreInv ==
  /\ TypeOK
  /\ WorkFits
  /\ OpenedByOne
  /\ PhotoFromSubmission
  /\ WriteAhead
  /\ PhotoHandedOver
  /\ LoadsOnce
  /\ AnalysedIsDone
  /\ SolveHandedOver
  /\ SessionPhotoStored
  /\ AcceptedLasts
  /\ OpenedLasts

\* The server starts with no session and no capture.
LEMMA CoreInit == Init => CoreInv
  <1> SUFFICES ASSUME Init PROVE CoreInv
      OBVIOUS
  <1>1. TypeOK
    BY RecordShapes DEF Init, TypeOK, PcValues, Requests, NoRequest
  <1>2. WorkFits /\ OpenedByOne /\ PhotoHandedOver /\ LoadsOnce /\ SolveHandedOver
    BY DEF Init, WorkFits, Fits, OpenedByOne, PhotoHandedOver, LoadsOnce,
           SolveHandedOver, NoRequest
  <1>3. PhotoFromSubmission /\ WriteAhead /\ AnalysedIsDone
    BY RecordShapes DEF Init, PhotoFromSubmission, WriteAhead, AnalysedIsDone
  <1>4. SessionPhotoStored /\ AcceptedLasts /\ OpenedLasts
    BY RecordShapes
       DEF Init, SessionPhotoStored, AcceptedLasts, OpenedLasts
  <1> QED  BY <1>1, <1>2, <1>3, <1>4 DEF CoreInv

\* A step that leaves every session's record, on disk and in memory, and what
\* was answered and analysed, and takes one handler from one place to another.
LEMMA IndRecordsKept ==
  ASSUME CoreInv, NEW c \in Callers, NEW l \in PcValues, NEW r \in Requests,
         phase # "down", Fits(l, r), l # "load", r.op # "init",
         r.op = "snap" => l # "reply" /\ (l # "save" => r.capture \in stored'),
         r.op = "create" /\ l # "create" => r.solve \in solveFiles',
         r.op = "create" /\ l = "reply" => r.solve \in known',
         pc' = [pc EXCEPT ![c] = l], req' = [req EXCEPT ![c] = r],
         stored' \in SUBSET Captures, stored \subseteq stored',
         indexed' \in SUBSET Captures,
         solveFiles' \in SUBSET SolveIds, solveFiles \subseteq solveFiles',
         known' \in SUBSET SolveIds, known \subseteq known',
         torn' \in SUBSET Sessions, tornSolve' \in SUBSET SolveIds,
         drawn' \in SUBSET (Captures \cup Sessions \cup SolveIds),
         drawn \subseteq drawn',
         UNCHANGED <<phase, view, durable, accepted, opened, analysed>>
  PROVE  CoreInv'
  <1>1. TypeOK'
    BY DEF CoreInv, TypeOK
  <1>2. WorkFits'
    BY DEF CoreInv, TypeOK, WorkFits
  <1>3. OpenedByOne'
    BY DEF CoreInv, TypeOK, OpenedByOne
  <1>4. PhotoFromSubmission' /\ WriteAhead' /\ AnalysedIsDone'
    BY DEF CoreInv, PhotoFromSubmission, WriteAhead, AnalysedIsDone
  <1>5. PhotoHandedOver'
    BY DEF CoreInv, TypeOK, PhotoHandedOver, Fits, PcValues
  <1>6. LoadsOnce'
    BY DEF CoreInv, TypeOK, LoadsOnce
  <1>7. SolveHandedOver'
    BY DEF CoreInv, TypeOK, SolveHandedOver
  <1>8. SessionPhotoStored' /\ AcceptedLasts' /\ OpenedLasts'
    BY DEF CoreInv, SessionPhotoStored, AcceptedLasts, OpenedLasts
  <1> QED
    BY <1>1, <1>2, <1>3, <1>4, <1>5, <1>6, <1>7, <1>8 DEF CoreInv

\* A handler answers an error.
LEMMA IndFails ==
  ASSUME CoreInv, NEW c \in Callers, pc[c] # "idle", Done(c),
         stored' \in SUBSET Captures, stored \subseteq stored',
         solveFiles' \in SUBSET SolveIds, solveFiles \subseteq solveFiles',
         torn' \in SUBSET Sessions, tornSolve' \in SUBSET SolveIds,
         UNCHANGED <<indexed, view, durable, known, history>>
  PROVE  CoreInv'
  <1>1. NoRequest \in Requests /\ NoRequest.op = "none"
    BY DEF Requests, NoRequest
  <1>2. "idle" \in PcValues /\ Fits("idle", NoRequest)
    BY <1>1 DEF PcValues, Fits
  <1>3. phase # "down"
    BY DEF CoreInv, WorkFits
  <1> QED
    BY <1>1, <1>2, <1>3, IndRecordsKept DEF Done, history, CoreInv, TypeOK

\* Every request but the one that opens a session.
LEMMA IndArrive ==
  ASSUME CoreInv, NEW c \in Callers, NEW l \in PcValues, NEW r \in Requests,
         Arrive(c, r, l), l \in {"save", "respond", "create", "check"}, Fits(l, r),
         drawn \subseteq drawn',
         drawn' \in SUBSET (Captures \cup Sessions \cup SolveIds)
  PROVE  CoreInv'
  <1>1. r.op \in {"upload", "snap", "response", "create", "analyze"}
        /\ (r.op = "snap" => l = "save") /\ (r.op = "create" => l = "create")
    BY RequestFacts DEF Fits
  <1> QED
    BY <1>1, IndRecordsKept DEF Arrive, stores, CoreInv, TypeOK

\* InitSnapSession begins with a fresh id.
LEMMA IndInitCall ==
  ASSUME CoreInv, NEW c \in Callers, NEW s \in Sessions, InitCall(c, s)
  PROVE  CoreInv'
  <1> DEFINE r == [op |-> "init", session |-> s]
  <1>1. /\ phase = "up" /\ pc[c] = "idle" /\ s \notin drawn
        /\ pc' = [pc EXCEPT ![c] = "init"]
        /\ req' = [req EXCEPT ![c] = r]
        /\ drawn' = drawn \cup {s}
        /\ UNCHANGED <<phase, stores, accepted, opened, analysed>>
    BY DEF InitCall, Arrive, Fresh
  <1>2. r \in Requests /\ r.op = "init" /\ r.session = s
    BY DEF Requests
  <1> HIDE DEF r
  <1>3. TypeOK'
    BY <1>1, <1>2 DEF CoreInv, TypeOK, stores, PcValues
  <1>4. WorkFits'
    BY <1>1, <1>2 DEF CoreInv, TypeOK, WorkFits, Fits
  <1>5. OpenedByOne'
    BY <1>1, <1>2 DEF CoreInv, TypeOK, OpenedByOne, stores
  <1>6. PhotoFromSubmission' /\ WriteAhead' /\ AnalysedIsDone'
    BY <1>1 DEF CoreInv, PhotoFromSubmission, WriteAhead, AnalysedIsDone, stores
  <1>7. PhotoHandedOver' /\ LoadsOnce' /\ SolveHandedOver'
    BY <1>1, <1>2
       DEF CoreInv, TypeOK, PhotoHandedOver, LoadsOnce, SolveHandedOver, stores
  <1>8. SessionPhotoStored' /\ AcceptedLasts' /\ OpenedLasts'
    BY <1>1
       DEF CoreInv, SessionPhotoStored, AcceptedLasts, OpenedLasts,
           stores
  <1> QED
    BY <1>3, <1>4, <1>5, <1>6, <1>7, <1>8 DEF CoreInv

\* The other requests.
LEMMA IndRequest ==
  ASSUME CoreInv, NEW c \in Callers, Request(c)
  PROVE  CoreInv'
  <1>1. ASSUME NEW k \in Captures, UploadCall(c, k) PROVE CoreInv'
    BY <1>1, IndArrive
       DEF UploadCall, Fresh, Fits, Requests, PcValues, CoreInv, TypeOK
  <1>2. ASSUME NEW s \in Sessions, NEW k \in Captures, SubmitSnapCall(c, s, k)
        PROVE  CoreInv'
    BY <1>2, IndArrive
       DEF SubmitSnapCall, Fresh, Fits, Requests, PcValues, CoreInv, TypeOK
  <1>3. ASSUME NEW s \in Sessions, SubmitResponseCall(c, s) PROVE CoreInv'
    BY <1>3, IndArrive
       DEF SubmitResponseCall, Fits, Requests, PcValues, CoreInv, TypeOK
  <1>4. ASSUME NEW z \in SolveIds, CreateSessionCall(c, z) PROVE CoreInv'
    BY <1>4, IndArrive
       DEF CreateSessionCall, Fresh, Fits, Requests, PcValues, CoreInv, TypeOK
  <1>5. ASSUME NEW z \in SolveIds, NEW a \in AssetLists, AnalyzeAssetsCall(c, z, a)
        PROVE  CoreInv'
    BY <1>5, IndArrive
       DEF AnalyzeAssetsCall, Fits, Requests, PcValues, CoreInv, TypeOK
  <1> QED
    BY <1>1, <1>2, <1>3, <1>4, <1>5, IndInitCall DEF Request

-----------------------------------------------------------------------------
\* The photo is saved before the session is looked at, and whatever becomes of
\* it afterwards its bytes stay.
LEMMA IndSave ==
  ASSUME CoreInv, NEW c \in Callers, SaveBytes(c) \/ SaveFails(c) \/ AddToIndex(c)
  PROVE  CoreInv'
  <1> USE DEF CoreInv, TypeOK
  <1>1. /\ pc[c] \in {"save", "index"} /\ phase # "down"
        /\ req[c] \in Requests /\ req[c].op \in {"upload", "snap"}
        /\ req[c].capture \in Captures
    BY RequestFacts DEF SaveBytes, SaveFails, AddToIndex, At, WorkFits, Fits
  <1>2. CASE SaveBytes(c)
    <2>1. Fits("index", req[c]) /\ "index" \in PcValues
      BY <1>1 DEF Fits, PcValues
    <2> QED
      BY <1>1, <1>2, <2>1, IndRecordsKept DEF SaveBytes, Goto, history
  <1>3. CASE SaveFails(c)
    BY <1>1, <1>3, IndFails DEF SaveFails
  <1>4. CASE AddToIndex(c)
    <2> DEFINE l == IF req[c].op = "snap" THEN "submit" ELSE "reply"
    <2>1. Fits(l, req[c]) /\ l \in PcValues
      BY <1>1 DEF Fits, PcValues
    <2>2. req[c].op = "snap" => req[c].capture \in stored
      BY <1>1, <1>4 DEF AddToIndex, At, PhotoHandedOver
    <2> QED
      BY <1>1, <1>4, <2>1, <2>2, IndRecordsKept DEF AddToIndex, Goto, history
  <1> QED  BY <1>2, <1>3, <1>4

-----------------------------------------------------------------------------
\* A session moves to the record that follows its own: on disk alone, when the
\* write fails and the handler ends, or in memory too, and the handler goes on
\* to its answer or to the photo.
LEMMA IndMove ==
  ASSUME CoreInv, NEW c \in Callers, NEW s \in Sessions, NEW r \in Record,
         NEW l \in PcValues, NEW q \in Requests,
         phase # "down", view[s] # NoSession, Advances(view[s], r),
         r.capture # NoCapture => r.capture \in stored,
         durable' \in {durable, [durable EXCEPT ![s] = r]},
         torn' \in SUBSET Sessions,
         \/ view' = view /\ l = "idle"
         \/ /\ view' = [view EXCEPT ![s] = r]
            /\ durable' = [durable EXCEPT ![s] = r]
            /\ q.session = s
            /\ \/ l = "reply" /\ q.op = "snap" /\ r = Submitted(q.capture)
               \/ l = "load" /\ q.op = "response"
                  /\ r = Finished(view[s]) /\ q.capture = view[s].capture,
         Fits(l, q), q.op \in {"none", "snap", "response"},
         pc' = [pc EXCEPT ![c] = l], req' = [req EXCEPT ![c] = q],
         UNCHANGED <<phase, stored, indexed, solveFiles, tornSolve, known, history>>
  PROVE  CoreInv'
  <1>1. TypeOK'
    <2>1. /\ view \in [Sessions -> Record] /\ durable \in [Sessions -> Record]
          /\ pc \in [Callers -> PcValues] /\ req \in [Callers -> Requests]
      BY DEF CoreInv, TypeOK
    <2>2. /\ view' \in [Sessions -> Record] /\ durable' \in [Sessions -> Record]
          /\ pc' \in [Callers -> PcValues] /\ req' \in [Callers -> Requests]
      BY <2>1
    <2> QED  BY <2>2 DEF CoreInv, TypeOK, history
  <1>2. WorkFits'
    BY DEF CoreInv, TypeOK, WorkFits
  <1>3. /\ \A t \in Sessions : t # s => view'[t] = view[t] /\ durable'[t] = durable[t]
        /\ view'[s] \in {view[s], r} /\ durable'[s] \in {durable[s], r}
        /\ \A d \in Callers : d # c => pc'[d] = pc[d] /\ req'[d] = req[d]
        /\ pc'[c] = l /\ req'[c] = q
    BY DEF CoreInv, TypeOK
  <1>4. \A d \in Callers : req[d].op \in {"snap", "init", "response"}
                            => req[d].session \in Sessions
    BY RequestFacts DEF CoreInv, TypeOK
  <1>5. /\ view[s].step # "done" /\ s \in drawn
        /\ r.capture = NoCapture <=> r.step \in {"none", "awaitSnap"}
        /\ view[s].capture # NoCapture => r.capture = view[s].capture
    BY AdvancesFacts DEF CoreInv, OpenedByOne
  <1>6. \A k \in Captures : analysed[s][k] = 0
    BY <1>5, RecordShapes DEF CoreInv, TypeOK, AnalysedIsDone
  <1>7. OpenedByOne'
    <2>1. \A d \in Callers : req[d].op = "init" /\ pc[d] \in {"init", "insert"}
                                => req[d].session # s
      BY DEF CoreInv, OpenedByOne
    <2> QED
      BY <1>3, <1>4, <1>5, <2>1 DEF CoreInv, OpenedByOne, history
  <1>8. PhotoFromSubmission'
    BY <1>3, <1>5 DEF CoreInv, PhotoFromSubmission
  <1>9. WriteAhead'
    BY DEF CoreInv, TypeOK, WriteAhead
  <1>10. \A k \in Captures : view[s].capture = k =>
            /\ view'[s].capture = k
            /\ durable[s].capture = k => durable'[s].capture = k
    BY <1>3, <1>5, NoCaptureAssumption
  <1>11. PhotoHandedOver'
    <2> SUFFICES ASSUME NEW d \in Callers, req'[d].op = "snap"
                 PROVE  /\ pc'[d] \in {"index", "submit"} => req'[d].capture \in stored'
                        /\ pc'[d] = "reply" =>
                             /\ view'[req'[d].session].capture = req'[d].capture
                             /\ durable'[req'[d].session].capture = req'[d].capture
        BY DEF PhotoHandedOver
    <2>1. CASE d = c
      BY <1>3, <2>1, RecordShapes DEF CoreInv, TypeOK, Fits
    <2>2. CASE d # c
      <3>1. req[d].op = "snap" /\ req'[d] = req[d] /\ pc'[d] = pc[d]
        BY <1>3, <2>2
      <3>2. req[d].capture \in Captures /\ req[d].session \in Sessions
        BY <3>1, RequestFacts DEF CoreInv, TypeOK
      <3> QED
        BY <1>3, <1>10, <3>1, <3>2 DEF CoreInv, PhotoHandedOver
    <2> QED  BY <2>1, <2>2
  <1>12. LoadsOnce'
    <2>1. \A d \in Callers : pc[d] = "load" =>
             req[d].session # s /\ req[d].session \in Sessions
      BY <1>4, <1>5, RecordShapes DEF CoreInv, LoadsOnce, WorkFits, Fits
    <2> SUFFICES ASSUME NEW d \in Callers, pc'[d] = "load"
                 PROVE  LoadsOnce!(d)'
        BY DEF LoadsOnce
    <2>2. CASE d = c
      <3>1. /\ view'[s] = r /\ durable'[s] = r /\ r = Finished(view[s])
            /\ req'[c].capture = view[s].capture /\ req'[c].session = s
        BY <1>3, <2>2 DEF CoreInv, TypeOK
      <3>2. view[s] = Submitted(view[s].capture) /\ view[s].capture \in Captures
        BY <3>1, RecordShapes DEF Advances
      <3> QED
        BY <1>3, <1>6, <2>1, <2>2, <3>1, <3>2 DEF history
    <2>3. CASE d # c
      <3>1. pc[d] = "load" /\ req'[d] = req[d]
        BY <1>3, <2>3
      <3>2. \A e \in Callers \ {d} : pc'[e] = "load" =>
              req'[e].session # req[d].session
        BY <1>3, <2>1, <2>3, <3>1 DEF CoreInv, LoadsOnce
      <3> QED
        BY <1>3, <2>1, <3>1, <3>2 DEF CoreInv, LoadsOnce, history
    <2> QED  BY <2>2, <2>3
  <1>13. AnalysedIsDone'
    BY <1>3, <1>6 DEF CoreInv, AnalysedIsDone, history
  <1>14. SolveHandedOver'
    BY <1>3 DEF CoreInv, SolveHandedOver
  <1>15. SessionPhotoStored'
    BY <1>3 DEF CoreInv, SessionPhotoStored
  <1>16. AcceptedLasts'
    BY <1>3, <1>10 DEF CoreInv, TypeOK, AcceptedLasts, history
  <1>17. OpenedLasts'
    BY DEF CoreInv, OpenedLasts, history
  <1> QED
    BY <1>1, <1>2, <1>7, <1>8, <1>9, <1>11, <1>12, <1>13, <1>14, <1>15, <1>16, <1>17
       DEF CoreInv

\* SnapStore.SubmitSnap is done, fails, or turns the call down.
LEMMA IndSubmitSnap ==
  ASSUME CoreInv, NEW c \in Callers, SubmitSnap(c)
  PROVE  CoreInv'
  <1> DEFINE s == req[c].session
             k == req[c].capture
             r == Submitted(k)
  <1>1. /\ pc[c] = "submit" /\ view[s].step = "awaitSnap"
        /\ \/ Move(s, r) /\ Goto(c, "reply")
           \/ WriteFails(s, r) /\ Done(c)
        /\ UNCHANGED history
    BY DEF SubmitSnap, At
  <1>2. /\ req[c] \in Requests /\ req[c].op = "snap" /\ phase # "down"
        /\ s \in Sessions /\ k \in Captures /\ k \in stored
    BY <1>1, RequestFacts
       DEF CoreInv, TypeOK, WorkFits, Fits, PhotoHandedOver
  <1>3. view[s] = Opened
    BY <1>1, <1>2, RecordEqual DEF CoreInv, TypeOK, PhotoFromSubmission
  <1>4. Advances(view[s], r) /\ r \in Record /\ r.capture = k /\ view[s] # NoSession
    BY <1>2, <1>3, RecordShapes DEF Advances
  <1>5. CASE Move(s, r) /\ Goto(c, "reply")
    <2>1. Fits("reply", req[c]) /\ "reply" \in PcValues
      BY <1>2 DEF Fits, PcValues
    <2>2. req' = [req EXCEPT ![c] = req[c]]
      BY <1>5 DEF Goto, CoreInv, TypeOK
    <2>3. torn' \in SUBSET Sessions
      BY <1>5 DEF Move, Persist, CoreInv, TypeOK
    <2> QED
      BY <1>1, <1>2, <1>4, <1>5, <2>1, <2>2, <2>3, IndMove DEF Move, Persist, Goto
  <1>6. CASE WriteFails(s, r) /\ Done(c)
    <2>1. NoRequest \in Requests /\ NoRequest.op = "none"
      BY DEF Requests, NoRequest
    <2>2. Fits("idle", NoRequest) /\ "idle" \in PcValues
      BY <2>1 DEF Fits, PcValues
    <2>3. torn' \in SUBSET Sessions /\ durable' \in {durable, [durable EXCEPT ![s] = r]}
      BY <1>2, <1>6 DEF WriteFails, PersistFails, Persist, CoreInv, TypeOK
    <2> QED
      BY <1>1, <1>2, <1>4, <1>6, <2>1, <2>2, <2>3, IndMove DEF WriteFails, Done
  <1> QED  BY <1>1, <1>5, <1>6

\* SnapStore.SubmitResponse is done, fails, or turns the call down.
LEMMA IndSubmitResponse ==
  ASSUME CoreInv, NEW c \in Callers, SubmitResponse(c)
  PROVE  CoreInv'
  <1> DEFINE s == req[c].session
             k == view[s].capture
             r == Finished(view[s])
             q == [req[c] EXCEPT !.capture = k]
  <1>1. /\ pc[c] = "respond" /\ view[s].step = "awaitResponse"
        /\ \/ /\ Move(s, r) /\ UNCHANGED phase
              /\ pc' = [pc EXCEPT ![c] = "load"]
              /\ req' = [req EXCEPT ![c].capture = r.capture]
           \/ WriteFails(s, r) /\ Done(c)
        /\ UNCHANGED history
    BY DEF SubmitResponse, At
  <1>2. /\ req[c] \in Requests /\ req[c].op = "response" /\ phase # "down"
        /\ s \in Sessions
    BY <1>1, RequestFacts DEF CoreInv, TypeOK, WorkFits, Fits
  <1>3. k \in Captures /\ k \in stored /\ view[s] = Submitted(k) /\ view[s] # NoSession
    BY <1>1, <1>2, RecordEqual, RecordShapes
       DEF CoreInv, TypeOK, PhotoFromSubmission, SessionPhotoStored
  <1>4. Advances(view[s], r) /\ r \in Record /\ r.capture = k
    BY <1>3, RecordShapes DEF Advances
  <1>5. CASE /\ Move(s, r) /\ UNCHANGED phase
             /\ pc' = [pc EXCEPT ![c] = "load"]
             /\ req' = [req EXCEPT ![c].capture = r.capture]
    <2>1. /\ q \in Requests /\ q.op = "response" /\ q.session = s /\ q.capture = k
      BY <1>2, <1>3, ResponseRequest
    <2>2. Fits("load", q) /\ "load" \in PcValues
      BY <2>1 DEF Fits, PcValues
    <2>3. req' = [req EXCEPT ![c] = q]
      BY <1>4, <1>5
    <2>4. torn' \in SUBSET Sessions
      BY <1>5 DEF Move, Persist, CoreInv, TypeOK
    <2> QED
      BY <1>1, <1>2, <1>3, <1>4, <1>5, <2>1, <2>2, <2>3, <2>4, IndMove
         DEF Move, Persist
  <1>6. CASE WriteFails(s, r) /\ Done(c)
    <2>1. NoRequest \in Requests /\ NoRequest.op = "none"
      BY DEF Requests, NoRequest
    <2>2. Fits("idle", NoRequest) /\ "idle" \in PcValues
      BY <2>1 DEF Fits, PcValues
    <2>3. torn' \in SUBSET Sessions /\ durable' \in {durable, [durable EXCEPT ![s] = r]}
      BY <1>2, <1>6 DEF WriteFails, PersistFails, Persist, CoreInv, TypeOK
    <2> QED
      BY <1>1, <1>2, <1>3, <1>4, <1>6, <2>1, <2>2, <2>3, IndMove DEF WriteFails, Done
  <1> QED  BY <1>1, <1>5, <1>6

\* The session's file, and then its entry in the map.
LEMMA IndOpenSession ==
  ASSUME CoreInv, NEW c \in Callers, InitSave(c) \/ InitInsert(c)
  PROVE  CoreInv'
  <1> DEFINE s == req[c].session
  <1>1. /\ pc[c] \in {"init", "insert"}
        /\ req[c] \in Requests /\ req[c].op = "init" /\ phase # "down"
        /\ s \in Sessions /\ s \in drawn /\ view[s] = NoSession
        /\ pc[c] = "init" => durable[s] = NoSession
        /\ pc[c] = "insert" => durable[s] = Opened
    BY RequestFacts
       DEF InitSave, InitInsert, At, CoreInv, TypeOK, WorkFits, Fits, OpenedByOne
  <1>2. PICK l \in PcValues, q \in Requests :
          /\ pc' = [pc EXCEPT ![c] = l] /\ req' = [req EXCEPT ![c] = q]
          /\ \/ l = "idle" /\ q = NoRequest
             \/ l = "insert" /\ q = req[c] /\ pc[c] = "init" /\ durable'[s] = Opened
             \/ l = "reply" /\ q = req[c] /\ pc[c] = "insert"
    BY <1>1
       DEF InitSave, InitInsert, Persist, At, Goto, Done, PcValues, Requests, CoreInv,
           TypeOK
  <1>3. /\ Fits(l, q) /\ q.op \in {"none", "init"} /\ l # "load"
        /\ q.op = "init" => q = req[c]
    BY <1>1, <1>2, RequestFacts DEF Fits, NoRequest
  <1>4. /\ \A t \in Sessions : t # s => view'[t] = view[t] /\ durable'[t] = durable[t]
        /\ \A d \in Callers : d # c => pc'[d] = pc[d] /\ req'[d] = req[d]
        /\ pc'[c] = l /\ req'[c] = q
        /\ \/ view' = view /\ durable'[s] \in {NoSession, Opened} /\ l # "reply"
           \/ view'[s] = Opened /\ durable' = durable /\ durable[s] = Opened /\ l = "reply"
        /\ view' \in [Sessions -> Record] /\ durable' \in [Sessions -> Record]
        /\ torn' \in SUBSET Sessions
        /\ UNCHANGED <<phase, stored, indexed, solveFiles, tornSolve, known, history>>
    <2>1. /\ view \in [Sessions -> Record] /\ durable \in [Sessions -> Record]
          /\ pc \in [Callers -> PcValues] /\ req \in [Callers -> Requests]
          /\ NoSession \in Record /\ Opened \in Record /\ torn \in SUBSET Sessions
      BY RecordShapes DEF CoreInv, TypeOK
    <2> HIDE DEF s
    <2>2. /\ \A d \in Callers : d # c => pc'[d] = pc[d] /\ req'[d] = req[d]
          /\ pc'[c] = l /\ req'[c] = q
      BY <1>2, <2>1
    <2>3. CASE InitSave(c)
      <3>1. /\ pc[c] = "init" /\ view' = view
            /\ durable' \in {durable, [durable EXCEPT ![s] = Opened]}
            /\ torn' \in {torn, torn \cup {s}, torn \ {s}}
            /\ UNCHANGED <<phase, stored, indexed, solveFiles, tornSolve, known, history>>
        BY <2>3 DEF InitSave, Persist, PersistFails, At, Goto, Done, s
      <3>2. /\ \A t \in Sessions : t # s => durable'[t] = durable[t]
            /\ durable'[s] \in {NoSession, Opened}
            /\ durable' \in [Sessions -> Record] /\ l # "reply"
            /\ torn' \in SUBSET Sessions
        BY <1>1, <1>2, <2>1, <3>1
      <3> QED  BY <2>1, <2>2, <3>1, <3>2
    <2>4. CASE InitInsert(c)
      <3>1. /\ pc[c] = "insert" /\ durable' = durable
            /\ view' = [view EXCEPT ![s] = Opened]
            /\ pc' = [pc EXCEPT ![c] = "reply"]
            /\ UNCHANGED <<phase, stored, indexed, torn, solveFiles, tornSolve, known, history>>
        BY <2>4 DEF InitInsert, At, Goto, s
      <3>2. /\ \A t \in Sessions : t # s => view'[t] = view[t]
            /\ view'[s] = Opened /\ view' \in [Sessions -> Record]
        BY <1>1, <2>1, <3>1
      <3>3. l = "reply"
        BY <2>1, <2>2, <3>1
      <3> QED  BY <1>1, <2>1, <2>2, <3>1, <3>2, <3>3
    <2> QED  BY <2>3, <2>4
  <1>5. \A d \in Callers : req[d].op \in {"snap", "init", "response"}
                            => req[d].session \in Sessions
    BY RequestFacts DEF CoreInv, TypeOK
  <1>6. TypeOK'
    BY <1>2, <1>4 DEF CoreInv, TypeOK, history
  <1>7. WorkFits'
    BY <1>1, <1>3, <1>4 DEF CoreInv, WorkFits
  <1>8. OpenedByOne'
    BY <1>1, <1>2, <1>3, <1>4, <1>5 DEF CoreInv, OpenedByOne, history
  <1>9. PhotoFromSubmission' /\ SessionPhotoStored'
    BY <1>1, <1>4, RecordShapes DEF CoreInv, PhotoFromSubmission, SessionPhotoStored
  <1>10. WriteAhead'
    BY <1>1, <1>4 DEF CoreInv, WriteAhead, Advances
  <1>11. /\ \A d \in Callers : req[d].op = "snap" /\ pc[d] = "reply" => req[d].session # s
         /\ \A d \in Callers : pc[d] = "load" => req[d].session # s
         /\ accepted[s] = {} /\ \A k \in Captures : analysed[s][k] = 0
    <2>1. \A d \in Callers : req[d].op = "snap" => req[d].capture \in Captures
      BY RequestFacts DEF CoreInv, TypeOK
    <2>2. \A k \in Captures : view[s] # Finished(Submitted(k)) /\ view[s].capture # k
      BY <1>1, RecordShapes, NoCaptureAssumption
    <2>3. \A d \in Callers : req[d].op = "snap" /\ pc[d] = "reply" => req[d].session # s
      BY <2>1, <2>2 DEF CoreInv, PhotoHandedOver
    <2>4. \A d \in Callers : pc[d] = "load" => req[d].session # s
      BY <2>2 DEF CoreInv, LoadsOnce
    <2>5. accepted[s] = {}
      BY <1>1, <2>2 DEF CoreInv, TypeOK, AcceptedLasts
    <2>6. \A k \in Captures : analysed[s][k] = 0
      BY <1>1, <2>2 DEF CoreInv, TypeOK, AnalysedIsDone
    <2> QED  BY <2>3, <2>4, <2>5, <2>6
  <1>12. PhotoHandedOver'
    BY <1>3, <1>4, <1>5, <1>11, <1>1 DEF CoreInv, PhotoHandedOver
  <1>13. LoadsOnce'
    BY <1>3, <1>4, <1>5, <1>11 DEF CoreInv, LoadsOnce, WorkFits, Fits, history
  <1>14. AnalysedIsDone' /\ AcceptedLasts'
    BY <1>4, <1>11
       DEF CoreInv, AnalysedIsDone, AcceptedLasts, history
  <1>15. SolveHandedOver' /\ OpenedLasts'
    BY <1>3, <1>4, <1>1 DEF CoreInv, SolveHandedOver, OpenedLasts, history
  <1> QED
    BY <1>6, <1>7, <1>8, <1>9, <1>10, <1>12, <1>13, <1>14, <1>15 DEF CoreInv

-----------------------------------------------------------------------------
\* SubmitSnapResponse loads the photo of the session it has taken.
LEMMA IndLoadPhoto ==
  ASSUME CoreInv, NEW c \in Callers, LoadPhoto(c)
  PROVE  CoreInv'
  <1> DEFINE s == req[c].session
             k == req[c].capture
  <1>1. /\ pc[c] = "load" /\ pc' = [pc EXCEPT ![c] = "analyzing"]
        /\ analysed' = [analysed EXCEPT ![s][k] = analysed[s][k] + 1]
        /\ UNCHANGED <<phase, req, stores, drawn, accepted, opened>>
    BY DEF LoadPhoto, At, Goto
  <1>2. /\ req[c].op = "response" /\ s \in Sessions /\ k \in Captures
        /\ view[s] = Finished(Submitted(k)) /\ durable[s] = view[s]
        /\ analysed[s][k] = 0
        /\ \A d \in Callers \ {c} : pc[d] = "load" => req[d].session # s
    BY <1>1, RequestFacts DEF CoreInv, TypeOK, WorkFits, Fits, LoadsOnce
  <1>3. /\ analysed' \in [Sessions -> [Captures -> Nat]]
        /\ analysed'[s][k] = 1
        /\ \A t \in Sessions, j \in Captures :
             t # s \/ j # k => analysed'[t][j] = analysed[t][j]
    BY <1>1, <1>2 DEF CoreInv, TypeOK
  <1>4. TypeOK'
    BY <1>1, <1>3 DEF CoreInv, TypeOK, stores, PcValues
  <1>5. WorkFits'
    BY <1>1, <1>2 DEF CoreInv, TypeOK, WorkFits, Fits
  <1>6. OpenedByOne' /\ SolveHandedOver' /\ PhotoHandedOver'
    BY <1>1, <1>2
       DEF CoreInv, TypeOK, OpenedByOne, SolveHandedOver, PhotoHandedOver, stores
  <1>7. LoadsOnce'
    <2>1. \A d \in Callers : pc'[d] = "load" =>
            /\ d # c /\ pc[d] = "load" /\ req[d].session # s
            /\ req[d].session \in Sessions
      BY <1>1, <1>2, RequestFacts DEF CoreInv, TypeOK, WorkFits, Fits
    <2>2. UNCHANGED <<req, view, durable>>
      BY <1>1 DEF stores
    <2> SUFFICES ASSUME NEW d \in Callers, pc'[d] = "load"
                 PROVE  LET t == req[d].session
                            j == req[d].capture
                        IN /\ j \in Captures
                           /\ view[t] = Finished(Submitted(j)) /\ durable[t] = view[t]
                           /\ analysed'[t][j] = 0
                           /\ \A e \in Callers \ {d} : pc'[e] = "load" => req[e].session # t
        BY <2>2 DEF LoadsOnce
    <2>3. /\ d # c /\ pc[d] = "load" /\ req[d].session # s
          /\ req[d].session \in Sessions
      BY <2>1
    <2>4. LET t == req[d].session
              j == req[d].capture
          IN /\ j \in Captures
             /\ view[t] = Finished(Submitted(j)) /\ durable[t] = view[t]
             /\ analysed[t][j] = 0
             /\ \A e \in Callers \ {d} : pc[e] = "load" => req[e].session # t
      BY <2>3 DEF CoreInv, LoadsOnce
    <2> HIDE DEF s, k
    <2>5. analysed'[req[d].session][req[d].capture] = analysed[req[d].session][req[d].capture]
      BY <1>3, <2>3, <2>4
    <2> QED
      BY <2>1, <2>4, <2>5
  <1>8. AnalysedIsDone'
    <2>1. UNCHANGED <<view, durable>>
      BY <1>1 DEF stores
    <2> HIDE DEF s, k
    <2> SUFFICES ASSUME NEW t \in Sessions, NEW j \in Captures, analysed'[t][j] > 0
                 PROVE  /\ view[t] = Finished(Submitted(j))
                        /\ analysed'[t][j] = 1 /\ durable[t] = view[t]
        BY <2>1 DEF AnalysedIsDone
    <2>2. CASE t = s /\ j = k
      BY <1>2, <1>3, <2>2
    <2>3. CASE t # s \/ j # k
      BY <1>3, <2>3 DEF CoreInv, AnalysedIsDone
    <2> QED  BY <2>2, <2>3
  <1>9. /\ PhotoFromSubmission' /\ WriteAhead'
        /\ SessionPhotoStored' /\ AcceptedLasts' /\ OpenedLasts'
    BY <1>1
       DEF CoreInv, PhotoFromSubmission, WriteAhead, SessionPhotoStored,
           AcceptedLasts, OpenedLasts, stores
  <1> QED
    BY <1>4, <1>5, <1>6, <1>7, <1>8, <1>9 DEF CoreInv

\* The solve session's file, and then its entry in the map.
LEMMA IndCreate ==
  ASSUME CoreInv, NEW c \in Callers, CreateSave(c) \/ CreateInsert(c)
  PROVE  CoreInv'
  <1> DEFINE z == req[c].solve
  <1>1. /\ pc[c] \in {"create", "know"} /\ phase # "down"
        /\ req[c] \in Requests /\ req[c].op = "create" /\ z \in SolveIds
        /\ pc[c] = "know" => z \in solveFiles
    BY RequestFacts
       DEF CreateSave, CreateInsert, At, CoreInv, TypeOK, WorkFits, Fits, SolveHandedOver
  <1>2. Fits("know", req[c]) /\ Fits("reply", req[c]) /\ {"know", "reply"} \subseteq PcValues
    BY <1>1 DEF Fits, PcValues
  <1>3. req = [req EXCEPT ![c] = req[c]]
    BY DEF CoreInv, TypeOK
  <1>4. CASE CreateInsert(c)
    BY <1>1, <1>2, <1>3, <1>4, IndRecordsKept
       DEF CreateInsert, At, Goto, history, CoreInv, TypeOK
  <1>5. CASE CreateSave(c) /\ Done(c)
    <2>1. /\ solveFiles' \in SUBSET SolveIds /\ solveFiles \subseteq solveFiles'
          /\ tornSolve' \in SUBSET SolveIds
          /\ UNCHANGED <<stored, indexed, view, durable, torn, known, history>>
      BY <1>1, <1>5 DEF CreateSave, CoreInv, TypeOK
    <2> QED  BY <1>1, <1>5, <2>1, IndFails DEF CoreInv, TypeOK
  <1>6. CASE CreateSave(c) /\ Goto(c, "know") /\ solveFiles' = solveFiles \cup {z}
             /\ UNCHANGED tornSolve
    BY <1>1, <1>2, <1>3, <1>6, IndRecordsKept
       DEF CreateSave, At, Goto, history, CoreInv, TypeOK
  <1> QED  BY <1>4, <1>5, <1>6 DEF CreateSave

\* A step that changes nothing but where a handler is, and what it has left to do.
LEMMA IndQuiet ==
  ASSUME CoreInv, NEW c \in Callers,
         \/ SubmitSnapRefused(c) \/ SubmitResponseRefused(c) \/ LoadFails(c)
         \/ CheckSession(c) \/ CheckFails(c)
         \/ GetAsset(c) \/ GetAssetFails(c) \/ AnalyzeAssets(c)
         \/ ModelAnswers(c) \/ ModelFails(c)
  PROVE  CoreInv'
  <1>1. /\ req[c] \in Requests /\ (pc[c] # "idle" => phase # "down")
        /\ req = [req EXCEPT ![c] = req[c]]
        /\ pc[c] \in {"check", "assets"} => req[c].op = "analyze"
        /\ pc[c] = "analyzing" => req[c].op \in {"response", "analyze"}
    BY DEF CoreInv, TypeOK, WorkFits, Fits
  <1>2. CASE \/ SubmitSnapRefused(c) \/ SubmitResponseRefused(c) \/ LoadFails(c)
             \/ CheckFails(c) \/ GetAssetFails(c) \/ ModelFails(c)
    BY <1>2, IndFails
       DEF SubmitSnapRefused, SubmitResponseRefused, LoadFails, CheckFails,
           GetAssetFails, ModelFails, Fails, At, stores, CoreInv, TypeOK
  <1>3. CASE CheckSession(c)
    <2>1. Fits("assets", req[c]) /\ "assets" \in PcValues /\ req[c].op = "analyze"
      BY <1>1, <1>3 DEF CheckSession, At, Fits, PcValues
    <2> QED
      BY <1>1, <1>3, <2>1, IndRecordsKept
         DEF CheckSession, At, Goto, stores, history, CoreInv, TypeOK
  <1>4. CASE AnalyzeAssets(c)
    <2>1. Fits("analyzing", req[c]) /\ "analyzing" \in PcValues /\ req[c].op = "analyze"
      BY <1>1, <1>4 DEF AnalyzeAssets, At, Fits, PcValues
    <2> QED
      BY <1>1, <1>4, <2>1, IndRecordsKept
         DEF AnalyzeAssets, At, Goto, stores, history, CoreInv, TypeOK
  <1>5. CASE ModelAnswers(c)
    <2>1. /\ Fits("reply", req[c]) /\ "reply" \in PcValues
          /\ req[c].op \in {"response", "analyze"}
      BY <1>1, <1>5 DEF ModelAnswers, At, Fits, PcValues
    <2> QED
      BY <1>1, <1>5, <2>1, IndRecordsKept
         DEF ModelAnswers, At, Goto, stores, history, CoreInv, TypeOK
  <1>6. CASE GetAsset(c)
    <2> DEFINE q == [req[c] EXCEPT !.assets = Tail(req[c].assets)]
    <2>1. pc[c] = "assets" /\ req[c].op = "analyze" /\ req[c].assets # <<>>
      BY <1>1, <1>6 DEF GetAsset, At
    <2>2. q \in Requests /\ q.op = "analyze"
      BY <1>1, <2>1, AssetsRequest
    <2>3. Fits("assets", q) /\ "assets" \in PcValues
      BY <2>2 DEF Fits, PcValues
    <2>4. req' = [req EXCEPT ![c] = q] /\ pc' = [pc EXCEPT ![c] = "assets"]
      BY <1>6, <2>1 DEF GetAsset, CoreInv, TypeOK
    <2> HIDE DEF q
    <2> QED
      BY <1>1, <1>6, <2>1, <2>2, <2>3, <2>4, IndRecordsKept
         DEF GetAsset, stores, history, CoreInv, TypeOK
  <1> QED  BY <1>2, <1>3, <1>4, <1>5, <1>6

\* What is answered is what the handler made sure of.
LEMMA IndReply ==
  ASSUME CoreInv, NEW c \in Callers, Reply(c)
  PROVE  CoreInv'
  <1> DEFINE r == req[c]
  <1>1. /\ pc[c] = "reply"
        /\ accepted' = IF r.op = "snap"
                       THEN [accepted EXCEPT ![r.session] = @ \cup {r.capture}]
                       ELSE accepted
        /\ opened' = IF r.op = "create" THEN opened \cup {r.solve} ELSE opened
        /\ pc' = [pc EXCEPT ![c] = "idle"]
        /\ req' = [req EXCEPT ![c] = NoRequest]
        /\ UNCHANGED <<phase, stores, drawn, analysed>>
    BY DEF Reply, At, Done
  <1>2. /\ r \in Requests /\ phase # "down"
        /\ r.op = "snap" => /\ r.session \in Sessions /\ r.capture \in Captures
                            /\ view[r.session].capture = r.capture
                            /\ durable[r.session].capture = r.capture
        /\ r.op = "create" => /\ r.solve \in SolveIds
                              /\ r.solve \in solveFiles /\ r.solve \in known
    BY <1>1, RequestFacts
       DEF CoreInv, TypeOK, WorkFits, PhotoHandedOver, SolveHandedOver
  <1>3. NoRequest \in Requests /\ NoRequest.op = "none"
    BY DEF Requests, NoRequest
  <1>4. TypeOK'
    <2>1. accepted' \in [Sessions -> SUBSET Captures] /\ opened' \in SUBSET SolveIds
      BY <1>1, <1>2 DEF CoreInv, TypeOK
    <2> QED  BY <1>1, <1>3, <2>1 DEF CoreInv, TypeOK, stores, PcValues
  <1>5. WorkFits' /\ OpenedByOne' /\ PhotoHandedOver' /\ SolveHandedOver'
    BY <1>1, <1>3
       DEF CoreInv, TypeOK, WorkFits, Fits, OpenedByOne, PhotoHandedOver,
           SolveHandedOver, stores
  <1>6. LoadsOnce'
    BY <1>1, <1>3 DEF CoreInv, TypeOK, LoadsOnce, stores
  <1>7. /\ PhotoFromSubmission' /\ WriteAhead' /\ AnalysedIsDone'
        /\ SessionPhotoStored'
    BY <1>1
       DEF CoreInv, PhotoFromSubmission, WriteAhead, AnalysedIsDone,
           SessionPhotoStored, stores
  <1>8. AcceptedLasts'
    BY <1>1, <1>2 DEF CoreInv, TypeOK, AcceptedLasts, stores
  <1>9. OpenedLasts'
    BY <1>1, <1>2 DEF CoreInv, OpenedLasts, stores
  <1> QED
    BY <1>4, <1>5, <1>6, <1>7, <1>8, <1>9 DEF CoreInv

-----------------------------------------------------------------------------
\* However the process ends, it takes its handlers with it.
LEMMA IndExit ==
  ASSUME CoreInv, Exit
  PROVE  CoreInv'
  <1>1. NoRequest \in Requests /\ NoRequest.op = "none"
    BY DEF Requests, NoRequest
  <1>2. TypeOK'
    BY <1>1 DEF CoreInv, TypeOK, Exit, history, PcValues
  <1>3. /\ WorkFits' /\ OpenedByOne' /\ PhotoHandedOver' /\ LoadsOnce'
        /\ SolveHandedOver'
    BY <1>1
       DEF CoreInv, Exit, history, WorkFits, Fits, OpenedByOne, PhotoHandedOver, LoadsOnce,
           SolveHandedOver
  <1>4. /\ PhotoFromSubmission' /\ WriteAhead' /\ AnalysedIsDone'
        /\ SessionPhotoStored' /\ AcceptedLasts'
        /\ OpenedLasts'
    BY DEF CoreInv, Exit, history, PhotoFromSubmission, WriteAhead, AnalysedIsDone,
           SessionPhotoStored, AcceptedLasts, OpenedLasts
  <1> QED  BY <1>2, <1>3, <1>4 DEF CoreInv

\* The next process reads both directories back: a session may turn out one
\* step ahead of what its callers were told.
LEMMA IndStart ==
  ASSUME CoreInv, Start
  PROVE  CoreInv'
  <1>1. /\ phase = "down" /\ phase' = "up"
        /\ view' = durable /\ known' = solveFiles /\ indexed' = {}
        /\ UNCHANGED <<stored, durable, torn, solveFiles, tornSolve, pc, req, history>>
    BY DEF Start
  <1>2. \A c \in Callers : pc[c] = "idle" /\ req[c].op = "none"
    BY <1>1 DEF CoreInv, WorkFits, Fits
  <1>3. TypeOK'
    BY <1>1 DEF CoreInv, TypeOK, history
  <1>4. /\ WorkFits' /\ OpenedByOne' /\ PhotoHandedOver' /\ LoadsOnce'
        /\ SolveHandedOver'
    BY <1>1, <1>2
       DEF CoreInv, WorkFits, Fits, OpenedByOne, PhotoHandedOver, LoadsOnce,
           SolveHandedOver, history
  <1>5. PhotoFromSubmission' /\ WriteAhead' /\ SessionPhotoStored'
    BY <1>1 DEF CoreInv, PhotoFromSubmission, WriteAhead, SessionPhotoStored
  <1>6. AnalysedIsDone'
    BY <1>1 DEF CoreInv, AnalysedIsDone, history
  <1>7. AcceptedLasts' /\ OpenedLasts'
    BY <1>1 DEF CoreInv, AcceptedLasts, OpenedLasts, history
  <1> QED  BY <1>3, <1>4, <1>5, <1>6, <1>7 DEF CoreInv

\* A step that leaves everything but, perhaps, that the process is up.
LEMMA IndUnchanged ==
  ASSUME CoreInv, Shutdown \/ StartRefused \/ UNCHANGED vars
  PROVE  CoreInv'
  <1>1. /\ UNCHANGED <<stores, pc, req, history>>
        /\ phase' = phase \/ (phase = "up" /\ phase' = "draining")
    <2>1. CASE Shutdown
      BY <2>1 DEF Shutdown
    <2>2. CASE StartRefused \/ UNCHANGED vars
      BY <2>2 DEF StartRefused, vars
    <2> QED  BY <2>1, <2>2
  <1>2. TypeOK' /\ WorkFits' /\ OpenedByOne'
    BY <1>1 DEF CoreInv, TypeOK, WorkFits, OpenedByOne, stores, history
  <1>3. PhotoHandedOver' /\ LoadsOnce' /\ SolveHandedOver'
    BY <1>1 DEF CoreInv, PhotoHandedOver, LoadsOnce, SolveHandedOver, stores, history
  <1>4. /\ PhotoFromSubmission' /\ WriteAhead' /\ AnalysedIsDone'
        /\ SessionPhotoStored' /\ AcceptedLasts'
        /\ OpenedLasts'
    BY <1>1
       DEF CoreInv, PhotoFromSubmission, WriteAhead, AnalysedIsDone,
           SessionPhotoStored, AcceptedLasts, OpenedLasts,
           stores, history
  <1> QED  BY <1>2, <1>3, <1>4 DEF CoreInv

-----------------------------------------------------------------------------
(***************************************************************************)
(* Files that are torn, and solve sessions that are being made             *)
(***************************************************************************)

\* A handler that leaves the sessions and their files alone, and is not about to
\* put one into the map.
LEMMA TornKept ==
  ASSUME TypeOK, TornOnTheWay, NEW c \in Callers, Request(c) \/ Proceed(c) \/ Model(c),
         pc'[c] # "insert", UNCHANGED <<view, torn>>
  PROVE  TornOnTheWay'
  BY OthersStay DEF TornOnTheWay

\* A handler that makes no solve session, or has its file behind it.
LEMMA CreatedKept ==
  ASSUME TypeOK, CreatedByOne, NEW c \in Callers,
         Request(c) \/ Proceed(c) \/ Model(c),
         req'[c].op = "create" => req'[c] = req[c] /\ pc'[c] # "create",
         drawn \subseteq drawn', UNCHANGED <<solveFiles, tornSolve>>
  PROVE  CreatedByOne'
  BY OthersStay DEF CreatedByOne

\* A request arrives.  Only CreateSession draws the id of a solve session.
LEMMA FilesRequest ==
  ASSUME TypeOK, TornOnTheWay, CreatedByOne, NEW c \in Callers, Request(c)
  PROVE  TornOnTheWay' /\ CreatedByOne'
  <1>1. /\ UNCHANGED <<view, torn, solveFiles, tornSolve>>
        /\ pc'[c] # "insert" /\ drawn \subseteq drawn'
        /\ \/ req'[c].op # "create"
           \/ \E z \in SolveIds : CreateSessionCall(c, z)
    BY DEF TypeOK, Request, UploadCall, SubmitSnapCall, InitCall, SubmitResponseCall,
           CreateSessionCall, AnalyzeAssetsCall, Arrive, Fresh, stores
  <1>2. TornOnTheWay'
    BY <1>1, TornKept
  <1>3. ASSUME NEW z \in SolveIds, CreateSessionCall(c, z)
        PROVE  CreatedByOne'
    <2>1. /\ z \notin drawn /\ drawn' = drawn \cup {z}
          /\ req'[c].op = "create" /\ req'[c].solve = z
      BY <1>3 DEF TypeOK, CreateSessionCall, Arrive, Fresh
    <2> QED  BY <1>1, <2>1, OthersStay DEF CreatedByOne
  <1> QED  BY <1>1, <1>2, <1>3, CreatedKept

\* What the handlers do that write no record.
LEMMA FilesHandler ==
  ASSUME TypeOK, WorkFits, TornOnTheWay, CreatedByOne, NEW c \in Callers,
         \/ SaveBytes(c) \/ SaveFails(c) \/ AddToIndex(c)
         \/ SubmitSnapRefused(c) \/ SubmitResponseRefused(c)
         \/ LoadPhoto(c) \/ LoadFails(c) \/ CreateInsert(c)
         \/ CheckSession(c) \/ CheckFails(c)
         \/ GetAsset(c) \/ GetAssetFails(c) \/ AnalyzeAssets(c) \/ Reply(c)
         \/ Model(c)
  PROVE  TornOnTheWay' /\ CreatedByOne'
  <1>1. Proceed(c) \/ Model(c)
    BY DEF Proceed
  <1>2. UNCHANGED <<view, torn, solveFiles, tornSolve, drawn>>
    BY DEF SaveBytes, SaveFails, AddToIndex, SubmitSnapRefused,
           SubmitResponseRefused, LoadPhoto, LoadFails, CreateInsert, CheckSession,
           CheckFails, GetAsset, GetAssetFails, AnalyzeAssets, Reply, Model,
           ModelAnswers, ModelFails, Fails, stores, history
  <1>3. CASE GetAsset(c)
    <2>1. pc'[c] = "assets" /\ req[c].op = "analyze" /\ req'[c].op = "analyze"
      BY <1>3 DEF GetAsset, At, TypeOK, WorkFits, Fits, Requests
    <2> QED  BY <1>1, <1>2, <2>1, TornKept, CreatedKept
  <1>4. CASE ~GetAsset(c)
    <2>1. pc[c] \notin {"idle", "init"}
      BY <1>4
         DEF SaveBytes, SaveFails, AddToIndex, SubmitSnapRefused,
             SubmitResponseRefused, LoadPhoto, LoadFails, CreateInsert, CheckSession,
             CheckFails, GetAssetFails, AnalyzeAssets, Reply, Model, ModelAnswers,
             ModelFails, At, WorkFits, Fits
    <2>2. pc'[c] \notin {"insert", "create"}
      BY <1>1, <1>4, <2>1, PlaceToPlace DEF Onward
    <2>3. req'[c] = req[c] \/ req'[c] = NoRequest
      BY <1>4
         DEF SaveBytes, SaveFails, AddToIndex, SubmitSnapRefused,
             SubmitResponseRefused, LoadPhoto, LoadFails, CreateInsert, CheckSession,
             CheckFails, GetAssetFails, AnalyzeAssets, Reply, Model, ModelAnswers,
             ModelFails, Fails, Done, Goto, TypeOK
    <2>4. req'[c].op = "create" => req'[c] = req[c]
      BY <2>3 DEF NoRequest
    <2> QED  BY <1>1, <1>2, <2>2, <2>4, TornKept, CreatedKept
  <1> QED  BY <1>3, <1>4

\* A write of a record may tear the file of a session that awaits its photo or
\* its response; one that goes through leaves the file whole.
LEMMA FilesMove ==
  ASSUME CoreInv, TornOnTheWay, CreatedByOne, NEW c \in Callers,
         SubmitSnap(c) \/ SubmitResponse(c)
  PROVE  TornOnTheWay' /\ CreatedByOne'
  <1> DEFINE s == req[c].session
  <1>1. /\ pc[c] \in {"submit", "respond"}
        /\ view[s].step \in {"awaitSnap", "awaitResponse"}
        /\ \/ \E r \in Record : Move(s, r)
           \/ \E r : WriteFails(s, r)
        /\ UNCHANGED <<solveFiles, tornSolve, drawn>>
    <2>1. CASE SubmitSnap(c)
      <3>1. Submitted(req[c].capture) \in Record
        BY <2>1, RecordShapes, RequestFacts
           DEF SubmitSnap, At, CoreInv, TypeOK, WorkFits, Fits
      <3> QED
        BY <2>1, <3>1 DEF SubmitSnap, Move, WriteFails, At, history
    <2>2. CASE SubmitResponse(c)
      <3>1. view[s] \in Record /\ Finished(view[s]) \in Record
        BY <2>2, RecordShapes, RequestFacts
           DEF SubmitResponse, At, CoreInv, TypeOK, WorkFits, Fits
      <3> QED
        BY <2>2, <3>1 DEF SubmitResponse, Move, WriteFails, At, history
    <2> QED  BY <2>1, <2>2
  <1>2. /\ req[c] \in Requests /\ req[c].op \in {"snap", "response"} /\ s \in Sessions
    BY <1>1, RequestFacts DEF CoreInv, TypeOK, WorkFits, Fits
  <1>3. /\ Proceed(c) /\ ~GetAsset(c)
    BY <1>1 DEF Proceed, GetAsset, At
  <1>4. pc'[c] \notin {"insert", "create"}
    BY <1>1, <1>3, PlaceToPlace DEF Onward, CoreInv
  <1>5. req'[c].op # "create"
    <2>1. req' \in {req, [req EXCEPT ![c] = NoRequest],
                    [req EXCEPT ![c].capture = Finished(view[s]).capture]}
      BY DEF SubmitSnap, SubmitResponse, Goto, Done
    <2> QED  BY <1>2, <2>1 DEF CoreInv, TypeOK, Requests, NoRequest
  <1>6. CreatedByOne'
    BY <1>1, <1>3, <1>5, CreatedKept DEF CoreInv
  <1>7. /\ \A t \in Sessions \ {s} : view'[t] = view[t] /\ (t \in torn' => t \in torn)
        /\ s \in torn' => view'[s] = view[s]
        /\ torn' \subseteq Sessions
    <2> HIDE DEF s
    <2> QED
      BY <1>1, <1>2 DEF Move, WriteFails, Persist, PersistFails, CoreInv, TypeOK
  <1>8. \A d \in Callers \ {c} : pc'[d] = "insert" =>
          /\ pc[d] = "insert" /\ req'[d] = req[d]
          /\ req[d].session \in Sessions /\ req[d].session # s
    <2>1. \A d \in Callers : pc[d] = "insert" =>
            req[d].session \in Sessions /\ view[req[d].session] = NoSession
      BY RequestFacts DEF CoreInv, TypeOK, WorkFits, Fits, OpenedByOne
    <2> QED  BY <1>1, <1>3, <2>1, OthersStay, RecordShapes DEF CoreInv
  <1>9. TornOnTheWay'
    <2> HIDE DEF s
    <2>1. \A t \in torn' : view'[t].step # "done"
      BY <1>1, <1>7 DEF TornOnTheWay
    <2>2. \A d \in Callers : pc'[d] = "insert" => req'[d].session \notin torn'
      BY <1>4, <1>7, <1>8 DEF TornOnTheWay
    <2> QED  BY <2>1, <2>2 DEF TornOnTheWay
  <1> QED  BY <1>6, <1>9

\* A session's first file is whole when its handler goes on to the map.
LEMMA FilesOpen ==
  ASSUME CoreInv, TornOnTheWay, CreatedByOne, NEW c \in Callers,
         InitSave(c) \/ InitInsert(c)
  PROVE  TornOnTheWay' /\ CreatedByOne'
  <1> DEFINE s == req[c].session
  <1>1. /\ pc[c] \in {"init", "insert"} /\ req[c].op = "init" /\ s \in Sessions
        /\ view[s] = NoSession
        /\ \A d \in Callers \ {c} : pc[d] = "insert" =>
             req[d].session \in Sessions /\ req[d].session # s
    BY RequestFacts
       DEF InitSave, InitInsert, At, CoreInv, TypeOK, WorkFits, Fits, OpenedByOne
  <1>2. Proceed(c) /\ ~GetAsset(c)
    BY <1>1 DEF Proceed, GetAsset, At
  <1>3. /\ \A d \in Callers \ {c} : pc'[d] = pc[d] /\ req'[d] = req[d]
        /\ UNCHANGED <<solveFiles, tornSolve, drawn>>
    BY <1>2, OthersStay DEF CoreInv, InitSave, InitInsert, history
  <1>4. req'[c].op # "create"
    BY <1>1 DEF InitSave, InitInsert, Goto, Done, NoRequest, CoreInv, TypeOK
  <1>5. CreatedByOne'
    BY <1>2, <1>3, <1>4, CreatedKept DEF CoreInv
  <1> HIDE DEF s
  <1>6. CASE InitSave(c)
    <2>1. /\ view' = view
          /\ \A t \in torn' : t # s => t \in torn
          /\ pc'[c] = "insert" => req'[c].session = s /\ s \notin torn'
      BY <1>6 DEF InitSave, Persist, PersistFails, Goto, Done, CoreInv, TypeOK, s
    <2> QED
      BY <1>1, <1>3, <1>5, <2>1, RecordShapes DEF TornOnTheWay
  <1>7. CASE InitInsert(c)
    <2>1. /\ view' = [view EXCEPT ![s] = Opened] /\ torn' = torn /\ pc'[c] = "reply"
      BY <1>7 DEF InitInsert, Goto, CoreInv, TypeOK, s
    <2>2. \A t \in torn : view'[t].step # "done"
      BY <1>1, <2>1, RecordShapes DEF TornOnTheWay, CoreInv, TypeOK
    <2> QED
      BY <1>3, <1>5, <2>1, <2>2 DEF TornOnTheWay
  <1> QED  BY <1>6, <1>7

\* A solve session's file is whole, or torn, or not there; its handler goes on
\* with a whole one only.
LEMMA FilesCreate ==
  ASSUME TypeOK, WorkFits, TornOnTheWay, CreatedByOne, NEW c \in Callers, CreateSave(c)
  PROVE  TornOnTheWay' /\ CreatedByOne'
  <1> DEFINE z == req[c].solve
  <1>1. /\ pc[c] = "create" /\ req[c].op = "create" /\ z \in drawn
        /\ z \notin solveFiles \cup tornSolve
        /\ \A d \in Callers \ {c} : req[d].op = "create" => req[d].solve # z
        /\ UNCHANGED <<view, torn, drawn>>
    BY DEF CreateSave, At, WorkFits, Fits, CreatedByOne, history
  <1>2. Proceed(c)
    BY DEF Proceed
  <1>3. \A d \in Callers \ {c} : pc'[d] = pc[d] /\ req'[d] = req[d]
    BY <1>2, OthersStay
  <1>4. /\ pc'[c] \in {"idle", "know"}
        /\ req'[c] = req[c] \/ req'[c].op = "none"
    BY DEF CreateSave, Goto, Done, NoRequest, TypeOK
  <1>5. TornOnTheWay'
    BY <1>1, <1>2, <1>4, TornKept
  <1> HIDE DEF z
  <1>6. \/ UNCHANGED <<solveFiles, tornSolve>>
        \/ tornSolve' = tornSolve \cup {z} /\ UNCHANGED solveFiles
        \/ solveFiles' = solveFiles \cup {z} /\ UNCHANGED tornSolve
    BY DEF CreateSave, z
  <1>7. \A d \in Callers : req'[d].op = "create" => req'[d] = req[d]
    BY <1>3, <1>4
  <1>8. CreatedByOne'
    <2>1. /\ solveFiles' \cup tornSolve' \subseteq drawn'
          /\ solveFiles' \cap tornSolve' = {}
      BY <1>1, <1>6 DEF CreatedByOne
    <2>2. \A d \in Callers : req'[d].op = "create" =>
            /\ req'[d].solve \in drawn'
            /\ \A e \in Callers \ {d} :
                 req'[e].op = "create" => req'[e].solve # req'[d].solve
            /\ pc'[d] = "create" => req'[d].solve \notin solveFiles' \cup tornSolve'
      BY <1>1, <1>3, <1>4, <1>6, <1>7 DEF CreatedByOne
    <2> QED  BY <2>1, <2>2 DEF CreatedByOne
  <1> QED  BY <1>5, <1>8

\* The process stops among its writes and comes back to files that are whole.
LEMMA FilesProcess ==
  ASSUME TornOnTheWay, CreatedByOne,
         Crash \/ Drained \/ DrainTimeout \/ Start \/ Shutdown \/ StartRefused
         \/ UNCHANGED vars
  PROVE  TornOnTheWay' /\ CreatedByOne'
  <1>1. CASE Crash \/ Drained \/ DrainTimeout
    <2>1. Exit
      BY <1>1 DEF Crash, Drained, DrainTimeout
    <2>2. /\ \A c \in Callers : pc'[c] = "idle" /\ req'[c].op = "none"
          /\ UNCHANGED <<view, torn, solveFiles, tornSolve, drawn>>
      BY <2>1 DEF Exit, NoRequest, history
    <2> QED  BY <2>2 DEF TornOnTheWay, CreatedByOne
  <1>2. CASE Start
    BY <1>2 DEF Start, Loadable, history, TornOnTheWay, CreatedByOne
  <1>3. CASE Shutdown \/ StartRefused \/ UNCHANGED vars
    <2>1. UNCHANGED <<view, torn, solveFiles, tornSolve, drawn, pc, req>>
      BY <1>3 DEF Shutdown, StartRefused, vars, stores, history
    <2> QED  BY <2>1 DEF TornOnTheWay, CreatedByOne
  <1> QED  BY <1>1, <1>2, <1>3

\* Every step keeps both.
LEMMA FilesStep ==
  ASSUME CoreInv, TornOnTheWay, CreatedByOne, [Next]_vars
  PROVE  TornOnTheWay' /\ CreatedByOne'
  <1>1. TypeOK /\ WorkFits
    BY DEF CoreInv
  <1>2. ASSUME NEW c \in Callers, Request(c) PROVE TornOnTheWay' /\ CreatedByOne'
    BY <1>1, <1>2, FilesRequest
  <1>3. ASSUME NEW c \in Callers, Proceed(c) \/ Model(c)
        PROVE  TornOnTheWay' /\ CreatedByOne'
    BY <1>1, <1>3, FilesHandler, FilesMove, FilesOpen, FilesCreate DEF Proceed
  <1> QED
    BY <1>2, <1>3, FilesProcess DEF Next

-----------------------------------------------------------------------------
\* Every step keeps the first part of the invariant.
LEMMA CoreStep == CoreInv /\ [Next]_vars => CoreInv'
  <1> SUFFICES ASSUME CoreInv, [Next]_vars PROVE CoreInv'
      OBVIOUS
  <1>1. ASSUME NEW c \in Callers, Request(c) PROVE CoreInv'
    BY <1>1, IndRequest
  <1>2. ASSUME NEW c \in Callers, Proceed(c) PROVE CoreInv'
    BY <1>2, IndSave, IndSubmitSnap, IndSubmitResponse, IndOpenSession,
       IndLoadPhoto, IndCreate, IndQuiet, IndReply
       DEF Proceed
  <1>3. ASSUME NEW c \in Callers, Model(c) PROVE CoreInv'
    BY <1>3, IndQuiet DEF Model
  <1>4. ASSUME Crash \/ Drained \/ DrainTimeout PROVE CoreInv'
    BY <1>4, IndExit DEF Crash, Drained, DrainTimeout
  <1> QED
    BY <1>1, <1>2, <1>3, <1>4, IndStart, IndUnchanged DEF Next

\* The two parts are the inductive invariant.
LEMMA IndParts == IndInv <=> CoreInv /\ TornOnTheWay /\ CreatedByOne
  BY DEF IndInv, CoreInv

\* It holds at first, ...
LEMMA IndInit == Init => IndInv
  <1> SUFFICES ASSUME Init PROVE IndInv
      OBVIOUS
  <1>1. TornOnTheWay /\ CreatedByOne
    BY DEF Init, TornOnTheWay, CreatedByOne, NoRequest
  <1> QED  BY <1>1, CoreInit, IndParts

\* ... and every step keeps it.
LEMMA IndStep == IndInv /\ [Next]_vars => IndInv'
  <1> SUFFICES ASSUME IndInv, [Next]_vars PROVE IndInv'
      OBVIOUS
  <1>1. CoreInv /\ TornOnTheWay /\ CreatedByOne
    BY IndParts
  <1>2. CoreInv'
    BY <1>1, CoreStep
  <1>3. TornOnTheWay' /\ CreatedByOne'
    BY <1>1, FilesStep
  <1> QED  BY <1>2, <1>3 DEF IndInv, CoreInv

\* What every handler may rely on at every place, whatever the others do and
\* wherever the process was stopped.
THEOREM Invariance == Spec => []IndInv
  BY IndInit, IndStep, PTL DEF Spec

\* Every variable keeps its type.
THEOREM TypeCorrect == Spec => []TypeOK
  <1>1. IndInv => TypeOK
    BY DEF IndInv
  <1> QED  BY <1>1, Invariance, PTL

\* No record of a session, in memory or in a file, names a photo whose bytes were not stored.
THEOREM PhotoBeforeSession == Spec => []SessionPhotoStored
  <1>1. IndInv => SessionPhotoStored
    BY DEF IndInv
  <1> QED  BY <1>1, Invariance, PTL

\* A photo once answered 200 is the session's for good, in every process that
\* serves, and its file names it unless the write of a response tore it.
THEOREM NoAcceptedPhotoLost == Spec => []AcceptedPhotoKept
  <1>1. ASSUME IndInv PROVE AcceptedPhotoKept
    <2> SUFFICES ASSUME NEW s \in Sessions, NEW k \in accepted[s]
                 PROVE  /\ view[s].capture = k
                        /\ IF s \in torn THEN view[s].step = "awaitResponse"
                                         ELSE durable[s].capture = k
        BY DEF AcceptedPhotoKept
    <2>1. k \in Captures /\ view[s].capture = k /\ durable[s].capture = k
      BY <1>1 DEF IndInv, TypeOK, AcceptedLasts
    <2>2. view[s] \in Record /\ view[s].step \notin {"none", "awaitSnap"}
      BY <1>1, <2>1, NoCaptureAssumption DEF IndInv, TypeOK, PhotoFromSubmission
    <2>3. s \in torn => view[s].step # "done"
      BY <1>1 DEF IndInv, TornOnTheWay
    <2> QED  BY <2>1, <2>2, <2>3 DEF Record, Steps
  <1> QED  BY <1>1, Invariance, PTL

\* The analysis gets the session's own photo, once, after the session is done.
THEOREM OneAnalysis == Spec => []AnalysedOnce
  <1>1. ASSUME IndInv PROVE AnalysedOnce
    BY <1>1, RecordShapes DEF IndInv, AnalysedIsDone, TornOnTheWay, AnalysedOnce
  <1> QED  BY <1>1, Invariance, PTL

\* A solve session that was answered is there for every request that follows.
THEOREM OpenedStaysKnown == Spec => []OpenedIsKnown
  <1>1. IndInv => OpenedIsKnown
    BY DEF IndInv, OpenedLasts, CreatedByOne, OpenedIsKnown
  <1> QED  BY <1>1, Invariance, PTL

-----------------------------------------------------------------------------
(***************************************************************************)
(* The server implements SnapFlow                                          *)
(***************************************************************************)

\* Where a handler is about to move its session, the record it has in hand is
\* the successor of the one the session is at.
LEMMA MoveAdvances ==
  ASSUME IndInv, NEW c \in Callers
  PROVE  LET s == req[c].session
             k == req[c].capture
         IN /\ pc[c] = "submit" /\ view[s].step = "awaitSnap" =>
                 /\ phase # "down" /\ s \in Sessions
                 /\ Advances(view[s], Submitted(k)) /\ Submitted(k) \in Record
            /\ pc[c] = "respond" /\ view[s].step = "awaitResponse" =>
                 /\ phase # "down" /\ s \in Sessions
                 /\ Advances(view[s], Finished(view[s])) /\ Finished(view[s]) \in Record
            /\ pc[c] \in {"init", "insert"} =>
                 /\ phase # "down" /\ s \in Sessions
                 /\ Advances(view[s], Opened) /\ Opened \in Record
  <1> DEFINE s == req[c].session
             k == req[c].capture
  <1>1. /\ req[c] \in Requests /\ Fits(pc[c], req[c])
        /\ (pc[c] # "idle" => phase # "down")
    BY DEF IndInv, TypeOK, WorkFits
  <1>2. ASSUME pc[c] = "submit", view[s].step = "awaitSnap"
        PROVE  /\ phase # "down" /\ s \in Sessions
               /\ Advances(view[s], Submitted(k)) /\ Submitted(k) \in Record
    <2>1. phase # "down" /\ s \in Sessions /\ k \in Captures
      BY <1>1, <1>2, RequestFacts DEF Fits
    <2>2. view[s] = Opened
      BY <1>2, <2>1, RecordEqual DEF IndInv, TypeOK, PhotoFromSubmission
    <2> QED  BY <2>1, <2>2, RecordShapes DEF Advances
  <1>3. ASSUME pc[c] = "respond", view[s].step = "awaitResponse"
        PROVE  /\ phase # "down" /\ s \in Sessions
               /\ Advances(view[s], Finished(view[s])) /\ Finished(view[s]) \in Record
    <2>1. phase # "down" /\ s \in Sessions
      BY <1>1, <1>3, RequestFacts DEF Fits
    <2>2. view[s] \in Record /\ view[s].capture \in Captures
          /\ view[s] = Submitted(view[s].capture)
      BY <1>3, <2>1, RecordEqual DEF IndInv, TypeOK, PhotoFromSubmission
    <2> QED  BY <2>1, <2>2, RecordShapes DEF Advances
  <1>4. ASSUME pc[c] \in {"init", "insert"}
        PROVE  /\ phase # "down" /\ s \in Sessions
               /\ Advances(view[s], Opened) /\ Opened \in Record
    <2>1. phase # "down" /\ req[c].op = "init" /\ s \in Sessions
      BY <1>1, <1>4, RequestFacts DEF Fits
    <2>2. view[s] = NoSession
      BY <1>4, <2>1 DEF IndInv, OpenedByOne
    <2> QED  BY <2>1, <2>2, RecordShapes DEF Advances
  <1> QED  BY <1>2, <1>3, <1>4

\* The server begins as the session store's promise does.
LEMMA FlowInit == Init => Flow!Init
  BY DEF Init, Flow!Init, Flow!NoSession, NoSession

\* Flow is an instance over the same records.
LEMMA FlowRecords ==
  /\ Flow!Record = Record
  /\ \A old, new : Flow!Advances(old, new) <=> Advances(old, new)
  BY DEF Flow!Record, Flow!Steps, Flow!Advances, Flow!NoSession, Flow!Opened,
         Flow!Submitted, Flow!Finished,
         Record, Steps, Advances, NoSession, Opened, Submitted, Finished

\* One session moves in memory, to its successor, while the process runs.
LEMMA FlowAdvance ==
  ASSUME TypeOK, NEW s \in Sessions, NEW r \in Record, phase # "down",
         Advances(view[s], r), view' = [view EXCEPT ![s] = r], UNCHANGED phase
  PROVE  Flow!Next
  <1>1. /\ view' \in [Sessions -> Record] /\ view'[s] = r
        /\ \A t \in Sessions \ {s} : view'[t] = view[t]
    BY DEF TypeOK
  <1>2. Flow!Advance(s)
    BY <1>1, FlowRecords DEF Flow!Advance
  <1> QED  BY <1>2 DEF Flow!Next

\* Every step of the server is a step of that promise, or none.
LEMMA FlowStep == IndInv /\ [Next]_vars => [Flow!Next]_(Flow!vars)
  <1> SUFFICES ASSUME IndInv, [Next]_vars
               PROVE  [Flow!Next]_(Flow!vars)
      OBVIOUS
  <1>1. TypeOK
    BY DEF IndInv
  <1>2. ASSUME NEW c \in Callers, SubmitSnap(c)
        PROVE  [Flow!Next]_(Flow!vars)
    <2> DEFINE s == req[c].session
               r == Submitted(req[c].capture)
    <2>1. /\ pc[c] = "submit" /\ view[s].step = "awaitSnap" /\ phase' = phase
          /\ view' = view \/ view' = [view EXCEPT ![s] = r]
      BY <1>2 DEF SubmitSnap, At, Move, WriteFails, Goto, Done
    <2>2. phase # "down" /\ s \in Sessions /\ Advances(view[s], r) /\ r \in Record
      BY <2>1, MoveAdvances
    <2> HIDE DEF s, r
    <2> QED  BY <1>1, <2>1, <2>2, FlowAdvance DEF Flow!vars
  <1>3. ASSUME NEW c \in Callers, SubmitResponse(c)
        PROVE  [Flow!Next]_(Flow!vars)
    <2> DEFINE s == req[c].session
               r == Finished(view[s])
    <2>1. /\ pc[c] = "respond" /\ view[s].step = "awaitResponse" /\ phase' = phase
          /\ view' = view \/ view' = [view EXCEPT ![s] = r]
      BY <1>3 DEF SubmitResponse, At, Move, WriteFails, Done
    <2>2. phase # "down" /\ s \in Sessions /\ Advances(view[s], r) /\ r \in Record
      BY <2>1, MoveAdvances
    <2> HIDE DEF s, r
    <2> QED  BY <1>1, <2>1, <2>2, FlowAdvance DEF Flow!vars
  <1>4. ASSUME NEW c \in Callers, InitInsert(c)
        PROVE  [Flow!Next]_(Flow!vars)
    <2> DEFINE s == req[c].session
    <2>1. pc[c] = "insert" /\ view' = [view EXCEPT ![s] = Opened] /\ phase' = phase
      BY <1>4 DEF InitInsert, At, Goto
    <2>2. phase # "down" /\ s \in Sessions /\ Advances(view[s], Opened) /\ Opened \in Record
      BY <2>1, MoveAdvances
    <2> HIDE DEF s
    <2> QED  BY <1>1, <2>1, <2>2, FlowAdvance
  <1>5. ASSUME Crash \/ Drained \/ DrainTimeout
        PROVE  [Flow!Next]_(Flow!vars)
    BY <1>5 DEF Crash, Drained, DrainTimeout, Exit, Flow!Next, Flow!Stop
  <1>6. ASSUME Start
        PROVE  [Flow!Next]_(Flow!vars)
    BY <1>6, FlowRecords
       DEF Start, IndInv, TypeOK, WriteAhead, Flow!Next, Flow!Resume
  <1>7. ASSUME NEW c \in Callers, Request(c)
        PROVE  UNCHANGED Flow!vars
    BY <1>7
       DEF Request, UploadCall, SubmitSnapCall, InitCall, SubmitResponseCall,
           CreateSessionCall, AnalyzeAssetsCall, Arrive, stores, Flow!vars
  <1>8. ASSUME NEW c \in Callers,
               \/ SaveBytes(c) \/ SaveFails(c) \/ AddToIndex(c)
               \/ SubmitSnapRefused(c) \/ SubmitResponseRefused(c)
               \/ InitSave(c) \/ LoadPhoto(c) \/ LoadFails(c)
               \/ CreateSave(c) \/ CreateInsert(c)
               \/ CheckSession(c) \/ CheckFails(c)
               \/ GetAsset(c) \/ GetAssetFails(c) \/ AnalyzeAssets(c)
               \/ Reply(c) \/ Model(c)
        PROVE  UNCHANGED Flow!vars
    BY <1>8
       DEF SaveBytes, SaveFails, AddToIndex, SubmitSnapRefused,
           SubmitResponseRefused, InitSave, LoadPhoto, LoadFails, CreateSave,
           CreateInsert, CheckSession, CheckFails, GetAsset, GetAssetFails,
           AnalyzeAssets, Reply, Model, ModelAnswers, ModelFails,
           Fails, Done, Goto, stores, Flow!vars
  <1>9. ASSUME Shutdown \/ StartRefused \/ UNCHANGED vars
        PROVE  UNCHANGED Flow!vars
    BY <1>9 DEF Shutdown, StartRefused, vars, stores, Flow!vars
  <1> QED
    BY <1>2, <1>3, <1>4, <1>5, <1>6, <1>7, <1>8, <1>9 DEF Next, Proceed

\* Seen by its callers, the server with its handlers, its failed writes, its
\* shutdowns and its restarts moves one session one step at a time.
THEOREM Refinement == Spec => FlowSpec
  BY FlowInit, FlowStep, Invariance, PTL DEF Spec, FlowSpec, Flow!Spec

-----------------------------------------------------------------------------
(***************************************************************************)
(* The server uses its stores as they behave: SnapRecords is what          *)
(* SnapStore implements, CaptureShelf what CaptureStore does               *)
(***************************************************************************)

\* Both begin empty.
LEMMA StoresInit == Init => Records!Init /\ Shelf!Init
  BY DEF Init, Records!Init, Records!NoSession, NoSession, Shelf!Init

\* Records is an instance over the same records.
LEMMA RecordsRecords ==
  /\ Records!Record = Record
  /\ \A old, new : Records!Advances(old, new) <=> Advances(old, new)
  BY DEF Records!Record, Records!Steps, Records!Advances, Records!NoSession,
         Records!Opened, Records!Submitted, Records!Finished,
         Record, Steps, Advances, NoSession, Opened, Submitted, Finished

\* One session moves to its successor, on disk or on disk and in memory.
LEMMA RecordsAdvance ==
  ASSUME NEW s \in Sessions, NEW r \in Record, phase # "down", phase' = phase,
         Advances(view[s], r),
         \/ PersistFails(s, r) /\ view' = view
         \/ Persist(s, r) /\ view' = view
         \/ Persist(s, r) /\ view' = [view EXCEPT ![s] = r]
  PROVE  [Records!Next]_(Records!vars)
  <1>1. CASE UNCHANGED <<durable, torn>> /\ view' = view
    BY <1>1 DEF Records!vars
  <1>2. CASE Persist(s, r) /\ view' = view
    <2>1. Records!Save(s, r)
      BY <1>2, RecordsRecords DEF Records!Save, Persist
    <2> QED  BY <2>1, RecordsRecords DEF Records!Next
  <1>3. CASE Persist(s, r) /\ view' = [view EXCEPT ![s] = r]
    <2>1. Records!Move(s, r)
      BY <1>3, RecordsRecords DEF Records!Move, Persist
    <2> QED  BY <2>1, RecordsRecords DEF Records!Next
  <1>4. CASE torn' = torn \cup {s} /\ UNCHANGED durable /\ view' = view
    <2>1. Records!Tear(s, r)
      BY <1>4, RecordsRecords DEF Records!Tear
    <2> QED  BY <2>1, RecordsRecords DEF Records!Next
  <1> QED  BY <1>1, <1>2, <1>3, <1>4 DEF PersistFails

\* A call of the session store is one of its steps, a failed one included.
LEMMA RecordsCall ==
  ASSUME IndInv, NEW c \in Callers,
         SubmitSnap(c) \/ SubmitResponse(c) \/ InitSave(c) \/ InitInsert(c)
  PROVE  [Records!Next]_(Records!vars)
  <1> DEFINE s == req[c].session
  <1>1. CASE SubmitSnap(c)
    <2> DEFINE r == Submitted(req[c].capture)
    <2>1. /\ pc[c] = "submit" /\ view[s].step = "awaitSnap" /\ phase' = phase
          /\ \/ Persist(s, r) /\ view' = [view EXCEPT ![s] = r]
             \/ PersistFails(s, r) /\ view' = view
      BY <1>1 DEF SubmitSnap, At, Move, WriteFails, Goto, Done
    <2>2. phase # "down" /\ s \in Sessions /\ Advances(view[s], r) /\ r \in Record
      BY <2>1, MoveAdvances
    <2> HIDE DEF s, r
    <2> QED  BY <2>1, <2>2, RecordsAdvance
  <1>2. CASE SubmitResponse(c)
    <2> DEFINE r == Finished(view[s])
    <2>1. /\ pc[c] = "respond" /\ view[s].step = "awaitResponse" /\ phase' = phase
          /\ \/ Persist(s, r) /\ view' = [view EXCEPT ![s] = r]
             \/ PersistFails(s, r) /\ view' = view
      BY <1>2 DEF SubmitResponse, At, Move, WriteFails, Done
    <2>2. phase # "down" /\ s \in Sessions /\ Advances(view[s], r) /\ r \in Record
      BY <2>1, MoveAdvances
    <2> HIDE DEF s, r
    <2> QED  BY <2>1, <2>2, RecordsAdvance
  <1>3. CASE InitSave(c)
    <2>1. /\ pc[c] = "init" /\ phase' = phase /\ view' = view
          /\ Persist(s, Opened) \/ PersistFails(s, Opened)
      BY <1>3 DEF InitSave, At, Goto, Done
    <2>2. phase # "down" /\ s \in Sessions /\ Advances(view[s], Opened) /\ Opened \in Record
      BY <2>1, MoveAdvances
    <2> HIDE DEF s
    <2> QED  BY <2>1, <2>2, RecordsAdvance
  <1>4. CASE InitInsert(c)
    <2>1. /\ pc[c] = "insert" /\ phase' = phase /\ UNCHANGED <<durable, torn>>
          /\ view' = [view EXCEPT ![s] = Opened]
      BY <1>4 DEF InitInsert, At, Goto
    <2>2. phase # "down" /\ s \in Sessions /\ Advances(view[s], Opened) /\ Opened \in Record
      BY <2>1, MoveAdvances
    <2>3. durable[s] = Opened /\ s \notin torn
      BY <2>1 DEF IndInv, OpenedByOne, TornOnTheWay, WorkFits, Fits
    <2> HIDE DEF s
    <2>4. Persist(s, Opened)
      BY <2>1, <2>2, <2>3 DEF IndInv, TypeOK, Persist
    <2> QED  BY <2>1, <2>2, <2>4, RecordsAdvance
  <1> QED  BY <1>1, <1>2, <1>3, <1>4

\* What the map of captures and the handlers keep of the bytes on disk: a
\* handler about to add a capture to the map has its bytes, and there is no map
\* while the process is down.
ShelfInv ==
  /\ \A c \in Callers : pc[c] = "index" => req[c].capture \in stored
  /\ phase = "down" => indexed = {}

\* A step that leaves the captures alone, and no handler about to add one.
LEMMA ShelfKept ==
  ASSUME TypeOK, ShelfInv, NEW c \in Callers, Request(c) \/ Proceed(c) \/ Model(c),
         pc'[c] # "index", UNCHANGED <<phase, stored, indexed>>
  PROVE  ShelfInv' /\ UNCHANGED Shelf!vars
  BY OthersStay DEF ShelfInv, Shelf!vars

\* The handlers that bring a capture: its bytes come before its entry in the
\* map.
LEMMA ShelfSave ==
  ASSUME TypeOK, WorkFits, ShelfInv, NEW c \in Callers,
         SaveBytes(c) \/ SaveFails(c) \/ AddToIndex(c)
  PROVE  ShelfInv' /\ [Shelf!Next]_(Shelf!vars)
  <1> DEFINE k == req[c].capture
  <1>1. /\ pc[c] \in {"save", "index"} /\ phase # "down" /\ phase' = phase
        /\ k \in Captures
    <2>1. pc[c] \in {"save", "index"} /\ phase' = phase
      BY DEF SaveBytes, SaveFails, AddToIndex, At, Goto, Done
    <2>2. req[c] \in Requests /\ Fits(pc[c], req[c]) /\ phase # "down"
      BY <2>1 DEF TypeOK, WorkFits
    <2> QED  BY <2>1, <2>2, RequestFacts DEF Fits
  <1>2. \A d \in Callers \ {c} : pc'[d] = pc[d] /\ req'[d] = req[d]
    BY OthersStay DEF Proceed
  <1>3. pc'[c] = "index" => req'[c].capture = k /\ stored' = stored \cup {k}
    <2>1. CASE SaveBytes(c)
      BY <2>1 DEF SaveBytes, Goto
    <2>2. CASE SaveFails(c) \/ AddToIndex(c)
      BY <2>2 DEF TypeOK, SaveFails, AddToIndex, Goto, Done
    <2> QED  BY <2>1, <2>2
  <1>4. /\ indexed' \in {indexed, indexed \cup {k}}
        /\ \/ stored' \in {stored, stored \cup {k}} /\ indexed' = indexed
           \/ stored' = stored /\ indexed' = indexed \cup {k} /\ k \in stored
    BY DEF SaveBytes, SaveFails, AddToIndex, At, ShelfInv
  <1> HIDE DEF k
  <1>5. ShelfInv'
    <2>1. stored \subseteq stored'
      BY <1>4
    <2>2. \A d \in Callers : pc'[d] = "index" => req'[d].capture \in stored'
      BY <1>2, <1>3, <2>1 DEF ShelfInv
    <2> QED  BY <1>1, <2>2 DEF ShelfInv
  <1>6. CASE stored' = stored /\ indexed' = indexed
    BY <1>1, <1>5, <1>6 DEF Shelf!vars
  <1>7. CASE stored' = stored \cup {k} /\ indexed' = indexed
    <2>1. Shelf!Keep(k)
      BY <1>1, <1>7 DEF Shelf!Keep
    <2> QED  BY <1>1, <1>5, <2>1 DEF Shelf!Next
  <1>8. CASE stored' = stored /\ indexed' = indexed \cup {k} /\ k \in stored
    <2>1. Shelf!Add(k)
      BY <1>1, <1>8 DEF Shelf!Add
    <2> QED  BY <1>1, <1>5, <2>1 DEF Shelf!Next
  <1> QED  BY <1>4, <1>6, <1>7, <1>8

\* A request arrives: its photo, if it brings one, is still to be saved.
LEMMA ShelfRequest ==
  ASSUME TypeOK, ShelfInv, NEW c \in Callers, Request(c)
  PROVE  ShelfInv' /\ UNCHANGED Shelf!vars
  <1>1. \E r, l : l # "index" /\ Arrive(c, r, l)
    BY DEF Request, UploadCall, SubmitSnapCall, InitCall, SubmitResponseCall,
           CreateSessionCall, AnalyzeAssetsCall
  <1>2. pc'[c] # "index" /\ UNCHANGED <<phase, stored, indexed>>
    BY <1>1 DEF TypeOK, Arrive, stores
  <1> QED  BY <1>2, ShelfKept

\* The rest of what the handlers do leaves the captures alone.
LEMMA ShelfHandler ==
  ASSUME TypeOK, ShelfInv, NEW c \in Callers,
         \/ SubmitSnap(c) \/ SubmitSnapRefused(c)
         \/ SubmitResponse(c) \/ SubmitResponseRefused(c)
         \/ InitSave(c) \/ InitInsert(c) \/ LoadPhoto(c) \/ LoadFails(c)
         \/ CreateSave(c) \/ CreateInsert(c) \/ CheckSession(c) \/ CheckFails(c)
         \/ GetAsset(c) \/ GetAssetFails(c) \/ AnalyzeAssets(c) \/ Reply(c)
         \/ Model(c)
  PROVE  ShelfInv' /\ UNCHANGED Shelf!vars
  <1>1. UNCHANGED <<phase, stored, indexed>>
    <2>1. CASE \/ SubmitSnap(c) \/ SubmitResponse(c) \/ InitSave(c) \/ InitInsert(c)
               \/ CreateSave(c) \/ CreateInsert(c)
      BY <2>1
         DEF SubmitSnap, SubmitResponse, InitSave, InitInsert, CreateSave,
             CreateInsert, Move, WriteFails, Goto, Done
    <2>2. CASE \/ SubmitSnapRefused(c) \/ SubmitResponseRefused(c)
               \/ LoadPhoto(c) \/ LoadFails(c) \/ CheckSession(c) \/ CheckFails(c)
               \/ GetAsset(c) \/ GetAssetFails(c) \/ AnalyzeAssets(c) \/ Reply(c)
               \/ Model(c)
      BY <2>2
         DEF SubmitSnapRefused, SubmitResponseRefused, LoadPhoto, LoadFails,
             CheckSession, CheckFails, GetAsset, GetAssetFails, AnalyzeAssets,
             Reply, Model, ModelAnswers, ModelFails, Fails, Done, Goto, stores
    <2> QED  BY <2>1, <2>2
  <1>2. pc'[c] # "index"
    <2>1. CASE GetAsset(c)
      BY <2>1 DEF GetAsset, At
    <2>2. CASE ~GetAsset(c)
      <3>1. pc[c] # "save"
        BY <2>2
           DEF SubmitSnap, SubmitSnapRefused, SubmitResponse, SubmitResponseRefused,
               InitSave, InitInsert, LoadPhoto, LoadFails, CreateSave, CreateInsert,
               CheckSession, CheckFails, GetAssetFails, AnalyzeAssets, Reply, Model,
               ModelAnswers, ModelFails, At
      <3>2. Proceed(c) \/ Model(c)
        BY DEF Proceed
      <3> QED  BY <2>2, <3>1, <3>2, PlaceToPlace DEF Onward
    <2> QED  BY <2>1, <2>2
  <1>3. Proceed(c) \/ Model(c)
    BY DEF Proceed
  <1> QED  BY <1>1, <1>2, <1>3, ShelfKept

\* Every step of the server is one of the capture store, or none.
LEMMA ShelfStep ==
  ASSUME IndInv, ShelfInv, [Next]_vars
  PROVE  ShelfInv' /\ [Shelf!Next]_(Shelf!vars)
  <1>1. TypeOK /\ WorkFits
    BY DEF IndInv
  <1>2. ASSUME NEW c \in Callers, Request(c) \/ Proceed(c) \/ Model(c)
        PROVE  ShelfInv' /\ [Shelf!Next]_(Shelf!vars)
    BY <1>1, <1>2, ShelfSave, ShelfRequest, ShelfHandler DEF Proceed
  <1>3. ASSUME Crash \/ Drained \/ DrainTimeout
        PROVE  ShelfInv' /\ [Shelf!Next]_(Shelf!vars)
    <2>1. phase # "down" /\ Exit
      BY <1>3 DEF Crash, Drained, DrainTimeout
    <2>2. ShelfInv'
      BY <2>1 DEF ShelfInv, Exit
    <2>3. Shelf!Stop
      BY <2>1 DEF Exit, Shelf!Stop
    <2> QED  BY <2>2, <2>3 DEF Shelf!Next
  <1>4. ASSUME Start
        PROVE  ShelfInv' /\ [Shelf!Next]_(Shelf!vars)
    <2>1. /\ phase = "down" /\ phase' = "up" /\ indexed' = {}
          /\ stored' = stored /\ pc' = pc /\ req' = req
      BY <1>4 DEF Start
    <2>2. ShelfInv'
      BY <2>1 DEF ShelfInv
    <2>3. Shelf!Start
      BY <2>1 DEF ShelfInv, Shelf!Start
    <2> QED  BY <2>2, <2>3 DEF Shelf!Next
  <1>5. ASSUME Shutdown \/ StartRefused \/ UNCHANGED vars
        PROVE  ShelfInv' /\ UNCHANGED Shelf!vars
    <2>1. /\ phase' = phase \/ (phase = "up" /\ phase' = "draining")
          /\ UNCHANGED <<stored, indexed, pc, req>>
      <3>1. CASE Shutdown
        BY <3>1 DEF Shutdown, stores
      <3>2. CASE StartRefused \/ UNCHANGED vars
        BY <3>2 DEF StartRefused, vars, stores
      <3> QED  BY <1>5, <3>1, <3>2
    <2> QED  BY <2>1 DEF ShelfInv, Shelf!vars
  <1> QED  BY <1>2, <1>3, <1>4, <1>5 DEF Next

\* Every step of the server is one of the session store, or none.
LEMMA RecordsStep == IndInv /\ [Next]_vars => [Records!Next]_(Records!vars)
  <1> SUFFICES ASSUME IndInv, [Next]_vars
               PROVE  [Records!Next]_(Records!vars)
      OBVIOUS
  <1>1. ASSUME NEW c \in Callers, Request(c)
        PROVE  UNCHANGED Records!vars
    BY <1>1
       DEF Request, UploadCall, SubmitSnapCall, InitCall, SubmitResponseCall,
           CreateSessionCall, AnalyzeAssetsCall, Arrive, stores, Records!vars
  <1>2. ASSUME NEW c \in Callers,
               \/ SaveBytes(c) \/ SaveFails(c) \/ AddToIndex(c)
               \/ CreateSave(c) \/ CreateInsert(c)
        PROVE  UNCHANGED Records!vars
    BY <1>2
       DEF SaveBytes, SaveFails, AddToIndex, CreateSave, CreateInsert, Done, Goto,
           Records!vars
  <1>3. ASSUME NEW c \in Callers,
               \/ SubmitSnapRefused(c) \/ SubmitResponseRefused(c)
               \/ LoadPhoto(c) \/ LoadFails(c) \/ CheckSession(c) \/ CheckFails(c)
               \/ GetAsset(c) \/ GetAssetFails(c) \/ AnalyzeAssets(c)
               \/ Reply(c) \/ Model(c)
        PROVE  UNCHANGED Records!vars
    BY <1>3
       DEF SubmitSnapRefused, SubmitResponseRefused, LoadPhoto, LoadFails,
           CheckSession, CheckFails, GetAsset, GetAssetFails, AnalyzeAssets, Reply,
           Model, ModelAnswers, ModelFails, Fails, Done, Goto, stores, Records!vars
  <1>4. ASSUME Crash \/ Drained \/ DrainTimeout
        PROVE  Records!Next
    BY <1>4 DEF Crash, Drained, DrainTimeout, Exit, Records!Next, Records!Stop
  <1>5. ASSUME Start
        PROVE  Records!Next
    BY <1>5 DEF Start, Loadable, Records!Next, Records!Start
  <1>6. ASSUME Shutdown \/ StartRefused \/ UNCHANGED vars
        PROVE  UNCHANGED Records!vars
    BY <1>6 DEF Shutdown, StartRefused, vars, stores, Records!vars
  <1> QED
    BY <1>1, <1>2, <1>3, <1>4, <1>5, <1>6, RecordsCall DEF Next, Proceed

\* Each of the two stores, as the handlers use it, does what its own module
\* allows: the handlers ask nothing of a store that it does not do, and their
\* steps are its steps.
THEOREM StoresRefinement == Spec => StoresSpec
  <1>1. Init => ShelfInv
    BY DEF Init, ShelfInv
  <1>2. IndInv /\ ShelfInv /\ [Next]_vars => ShelfInv' /\ [Shelf!Next]_(Shelf!vars)
    BY ShelfStep
  <1> QED
    BY <1>1, <1>2, StoresInit, RecordsStep, Invariance, PTL
       DEF Spec, StoresSpec, Records!Spec, Shelf!Spec

-----------------------------------------------------------------------------
(***************************************************************************)
(* Handlers go forward                                                     *)
(***************************************************************************)

\* What is left at each place, in numbers.
LEMMA PlaceNumbers ==
  /\ \A l \in PcValues : PlaceLeft[l] \in Nat /\ (l # "idle" => PlaceLeft[l] > 0)
  /\ PlaceLeft["idle"] = 0 /\ PlaceLeft["check"] = 4 /\ PlaceLeft["assets"] = 3
  /\ \A p \in Onward : PlaceLeft[p[2]] < PlaceLeft[p[1]]
  <1>1. /\ PlaceLeft["idle"] = 0 /\ PlaceLeft["reply"] = 1 /\ PlaceLeft["analyzing"] = 2
        /\ PlaceLeft["submit"] = 2 /\ PlaceLeft["insert"] = 2 /\ PlaceLeft["know"] = 2
        /\ PlaceLeft["load"] = 3 /\ PlaceLeft["index"] = 3 /\ PlaceLeft["init"] = 3
        /\ PlaceLeft["create"] = 3 /\ PlaceLeft["assets"] = 3 /\ PlaceLeft["save"] = 4
        /\ PlaceLeft["respond"] = 4 /\ PlaceLeft["check"] = 4
    BY DEF PlaceLeft
  <1> QED  BY <1>1 DEF PcValues, Onward

\* What a handler has left is a number: the list it goes through is finite.
LEMMA StepsLeftNumber ==
  ASSUME NEW l \in PcValues, NEW r \in Requests, Fits(l, r)
  PROVE  /\ StepsLeft(l, r) \in Nat /\ StepsLeft(l, r) >= PlaceLeft[l]
         /\ l \notin {"check", "assets"} => StepsLeft(l, r) = PlaceLeft[l]
         /\ l \in {"check", "assets"} =>
              /\ r.assets \in Seq(Captures)
              /\ StepsLeft(l, r) = PlaceLeft[l] + Len(r.assets)
  <1>1. PlaceLeft[l] \in Nat
    BY PlaceNumbers
  <1>2. ASSUME l \in {"check", "assets"}
        PROVE  r.assets \in Seq(Captures)
    <2>1. r.op = "analyze"
      BY <1>2 DEF Fits
    <2>2. r.assets \in AssetLists \cup {<<>>}
      BY <2>1, RequestFacts
    <2>3. AssetLists \subseteq Seq(Captures)
      BY MaxAssetsAssumption DEF AssetLists, SeqOf
    <2>4. <<>> \in Seq(Captures)
      BY EmptySeq
    <2> QED  BY <2>2, <2>3, <2>4
  <1>3. l \in {"check", "assets"} => Len(r.assets) \in Nat
    BY <1>2
  <1> QED  BY <1>1, <1>2, <1>3 DEF StepsLeft

\* Every step of a handler leaves it fewer to go.
LEMMA StepForward ==
  ASSUME TypeOK, WorkFits, TypeOK', WorkFits', NEW c \in Callers,
         Proceed(c) \/ Model(c)
  PROVE  StepsLeft(pc'[c], req'[c]) < StepsLeft(pc[c], req[c])
  <1> DEFINE l == pc[c]
             m == pc'[c]
             r == req[c]
             q == req'[c]
  <1>1. l \in PcValues /\ r \in Requests /\ Fits(l, r)
    BY DEF TypeOK, WorkFits
  <1>2. m \in PcValues /\ q \in Requests /\ Fits(m, q)
    BY DEF TypeOK, WorkFits
  <1>3. GetAsset(c) => /\ l = "assets" /\ m = "assets" /\ r.assets # <<>>
                       /\ q.assets = Tail(r.assets)
    BY <1>1 DEF GetAsset, At, TypeOK, Requests
  <1>4. ~GetAsset(c) => (l # "idle" /\ m = "idle") \/ <<l, m>> \in Onward
    BY PlaceToPlace
  <1>5. <<l, m>> \in Onward /\ m = "assets" => l = "check" /\ q = r
    <2>1. l = "check" /\ m = "assets" => q = r
      BY DEF Proceed, Model, SaveBytes, SaveFails, AddToIndex, SubmitSnap,
             SubmitSnapRefused, SubmitResponse, SubmitResponseRefused, InitSave,
             InitInsert, LoadPhoto, LoadFails, CreateSave, CreateInsert,
             CheckSession, CheckFails, GetAsset, GetAssetFails, AnalyzeAssets,
             Reply, ModelAnswers, ModelFails, Fails, Done, Goto, At, TypeOK
    <2> QED  BY <2>1 DEF Onward
  <1> HIDE DEF l, m, r, q
  <1>6. CASE GetAsset(c)
    <2>1. /\ r.assets \in Seq(Captures)
          /\ StepsLeft(l, r) = PlaceLeft["assets"] + Len(r.assets)
          /\ StepsLeft(m, q) = PlaceLeft["assets"] + Len(q.assets)
      BY <1>1, <1>2, <1>3, <1>6, StepsLeftNumber
    <2>2. Len(q.assets) = Len(r.assets) - 1 /\ Len(r.assets) \in Nat
      BY <1>3, <1>6, <2>1, EmptySeq, HeadTailProperties, LenProperties
    <2>3. PlaceLeft["assets"] = 3
      BY PlaceNumbers
    <2>4. StepsLeft(m, q) < StepsLeft(l, r)
      BY <2>1, <2>2, <2>3
    <2> QED  BY <2>4 DEF l, m, r, q
  <1>7. CASE l # "idle" /\ m = "idle"
    <2>1. StepsLeft(m, q) = 0
      BY <1>2, <1>7, StepsLeftNumber, PlaceNumbers
    <2>2. /\ StepsLeft(l, r) \in Nat /\ StepsLeft(l, r) >= PlaceLeft[l]
          /\ PlaceLeft[l] \in Nat /\ PlaceLeft[l] > 0
      BY <1>1, <1>7, StepsLeftNumber, PlaceNumbers
    <2>3. StepsLeft(m, q) < StepsLeft(l, r)
      BY <2>1, <2>2
    <2> QED  BY <2>3 DEF l, m, r, q
  <1>8. CASE <<l, m>> \in Onward
    <2>1. PlaceLeft[m] < PlaceLeft[l] /\ PlaceLeft[m] \in Nat /\ PlaceLeft[l] \in Nat
      BY <1>1, <1>2, <1>8, PlaceNumbers
    <2>2. CASE m # "assets"
      <3>1. m \notin {"check", "assets"}
        BY <1>8, <2>2 DEF Onward
      <3>2. StepsLeft(m, q) = PlaceLeft[m]
        BY <1>2, <3>1, StepsLeftNumber
      <3>3. StepsLeft(l, r) \in Nat /\ StepsLeft(l, r) >= PlaceLeft[l]
        BY <1>1, StepsLeftNumber
      <3>4. StepsLeft(m, q) < StepsLeft(l, r)
        BY <2>1, <3>2, <3>3
      <3> QED  BY <3>4 DEF l, m, r, q
    <2>3. CASE m = "assets"
      <3>1. l = "check" /\ q = r
        BY <1>5, <1>8, <2>3
      <3>2. /\ StepsLeft(l, r) = PlaceLeft[l] + Len(r.assets)
            /\ StepsLeft(m, q) = PlaceLeft[m] + Len(r.assets)
            /\ r.assets \in Seq(Captures)
        BY <1>1, <1>2, <2>3, <3>1, StepsLeftNumber
      <3>3. Len(r.assets) \in Nat
        BY <3>2
      <3>4. StepsLeft(m, q) < StepsLeft(l, r)
        BY <2>1, <3>2, <3>3
      <3> QED  BY <3>4 DEF l, m, r, q
    <2> QED  BY <2>2, <2>3
  <1> QED  BY <1>4, <1>6, <1>7, <1>8

\* No step, of its own, of another handler or of the process, takes a handler
\* back: whatever is asked, it is through in as many steps as its request has
\* places and assets.
THEOREM Forward == Spec => HandlersGoForward
  <1> DEFINE Ahead ==
        \A c \in Callers : pc[c] # "idle" =>
          \/ pc'[c] = pc[c] /\ req'[c] = req[c]
          \/ StepsLeft(pc'[c], req'[c]) < StepsLeft(pc[c], req[c])
  <1>1. ASSUME IndInv, IndInv', Next
        PROVE  Ahead
    <2>1. TypeOK /\ WorkFits /\ TypeOK' /\ WorkFits'
      BY <1>1 DEF IndInv
    <2>2. ASSUME NEW c \in Callers, Request(c)
          PROVE  Ahead
      <3>1. pc[c] = "idle"
        BY <2>2
           DEF Request, UploadCall, SubmitSnapCall, InitCall, SubmitResponseCall,
               CreateSessionCall, AnalyzeAssetsCall, Arrive
      <3> QED  BY <2>1, <2>2, <3>1, OthersStay
    <2>3. ASSUME NEW c \in Callers, Proceed(c) \/ Model(c)
          PROVE  Ahead
      BY <2>1, <2>3, StepForward, OthersStay
    <2>4. ASSUME Crash \/ Drained \/ DrainTimeout
          PROVE  Ahead
      <3> SUFFICES ASSUME NEW c \in Callers, pc[c] # "idle"
                   PROVE  StepsLeft(pc'[c], req'[c]) < StepsLeft(pc[c], req[c])
          OBVIOUS
      <3>1. pc'[c] = "idle"
        BY <2>4 DEF Crash, Drained, DrainTimeout, Exit
      <3>2. StepsLeft(pc'[c], req'[c]) = 0
        BY <3>1, PlaceNumbers DEF StepsLeft
      <3>3. pc[c] \in PcValues /\ req[c] \in Requests /\ Fits(pc[c], req[c])
        BY <2>1 DEF TypeOK, WorkFits
      <3>4. /\ StepsLeft(pc[c], req[c]) \in Nat
            /\ StepsLeft(pc[c], req[c]) >= PlaceLeft[pc[c]]
            /\ PlaceLeft[pc[c]] \in Nat /\ PlaceLeft[pc[c]] > 0
        BY <3>3, StepsLeftNumber, PlaceNumbers
      <3> QED  BY <3>2, <3>4
    <2>5. ASSUME Shutdown \/ Start \/ StartRefused
          PROVE  Ahead
      BY <2>5 DEF Shutdown, Start, StartRefused, vars
    <2> QED
      BY <1>1, <2>2, <2>3, <2>4, <2>5 DEF Next
  <1>2. IndInv /\ IndInv' /\ [Next]_vars => [Ahead]_vars
    BY <1>1
  <1> HIDE DEF Ahead
  <1>3. Spec => [][Ahead]_vars
    BY <1>2, Invariance, PTL DEF Spec
  <1> QED  BY <1>3 DEF HandlersGoForward, Ahead
=============================================================================
