-------------------------- MODULE SnapClientProofs -------------------------
(***************************************************************************)
(* SnapClient for any number of calls, handlers, sessions and photos: what *)
(* the client was told stays true.  The server's own invariant comes from  *)
(* TutiServerProofs, since the two together take the server's steps only.  *)
(***************************************************************************)
EXTENDS SnapClient, TutiServerProofs

-----------------------------------------------------------------------------
(***************************************************************************)
(* The server, as a client sees it                                         *)
(***************************************************************************)

\* A session that is known stays so, one that is done stays as it is, and a
\* session keeps its photo.
LEMMA SessionsGoOn ==
  ASSUME IndInv, [Next]_vars, NEW s \in Sessions
  PROVE  /\ view[s].step # "none" => view'[s].step # "none"
         /\ view[s].step = "done" => view'[s] = view[s]
         /\ view[s].capture # NoCapture => view'[s].capture = view[s].capture
  <1>1. view'[s] = view[s] \/ Advances(view[s], view'[s])
    BY FlowStep, FlowRecords
       DEF Flow!Next, Flow!Advance, Flow!Stop, Flow!Resume, Flow!vars
  <1>2. ASSUME Advances(view[s], view'[s])
        PROVE  view'[s].step # "none"
    BY <1>2, RecordShapes DEF Advances
  <1> QED  BY <1>1, <1>2, AdvancesFacts

\* The file of a session that has its photo has the same one; of a session that
\* is done, the same record; and there is one as soon as the session is known.
FilesFollow ==
  \A s \in Sessions :
    /\ view[s].capture # NoCapture => durable[s].capture = view[s].capture
    /\ view[s].step = "done" => durable[s] = view[s]
    /\ view[s].step # "none" => durable[s].step # "none"

\* The server's invariant says of the files what a restart needs.
LEMMA FilesDoFollow == IndInv => FilesFollow
  <1> SUFFICES ASSUME IndInv, NEW s \in Sessions
               PROVE  /\ view[s].capture # NoCapture => durable[s].capture = view[s].capture
                      /\ view[s].step = "done" => durable[s] = view[s]
                      /\ view[s].step # "none" => durable[s].step # "none"
      BY DEF FilesFollow
  <1>1. durable[s] = view[s] \/ Advances(view[s], durable[s])
    BY DEF IndInv, WriteAhead
  <1>2. ASSUME Advances(view[s], durable[s])
        PROVE  durable[s].step # "none"
    BY <1>2, RecordShapes DEF Advances
  <1> QED  BY <1>1, <1>2, AdvancesFacts

\* What the step of a handler of one of the three calls does: it goes on, or
\* ends, with every session as it was; or it moves its own session.
LEMMA HandlerKinds ==
  ASSUME IndInv, NEW c \in Callers, Proceed(c) \/ Model(c),
         req[c].op \in {"init", "snap", "response"}
  PROVE  LET s == req[c].session
             k == req[c].capture
         IN /\ UNCHANGED <<phase, drawn>>
            /\ s \in Sessions /\ pc[c] # "idle"
            /\ \A d \in Callers \ {c} : pc'[d] = pc[d] /\ req'[d] = req[d]
            /\ \/ /\ view' = view /\ durable' = durable
                  /\ pc'[c] = "idle" /\ req'[c] = NoRequest
               \/ /\ view' = view /\ durable' = durable
                  /\ req' = req /\ req[c].op = "snap"
                  /\ pc[c] \in {"save", "index"} /\ pc'[c] \in {"index", "submit"}
               \/ /\ view' = view /\ durable' = durable
                  /\ req' = req /\ req[c].op = "response"
                  /\ pc[c] \in {"load", "analyzing"}
                  /\ pc'[c] \in {"analyzing", "reply"}
               \/ /\ pc[c] = "submit" /\ req[c].op = "snap" /\ k \in Captures
                  /\ view[s].step = "awaitSnap"
                  /\ durable' \in {durable, [durable EXCEPT ![s] = Submitted(k)]}
                  /\ \/ view' = view /\ pc'[c] = "idle" /\ req'[c] = NoRequest
                     \/ /\ view' = [view EXCEPT ![s] = Submitted(k)]
                        /\ pc'[c] = "reply" /\ req' = req
               \/ /\ pc[c] = "respond" /\ req[c].op = "response"
                  /\ view[s].step = "awaitResponse"
                  /\ durable' \in {durable, [durable EXCEPT ![s] = Finished(view[s])]}
                  /\ \/ view' = view /\ pc'[c] = "idle" /\ req'[c] = NoRequest
                     \/ /\ view' = [view EXCEPT ![s] = Finished(view[s])]
                        /\ pc'[c] = "load"
                        /\ req' = [req EXCEPT ![c].capture = view[s].capture]
               \/ /\ pc[c] = "init" /\ req[c].op = "init" /\ view' = view
                  /\ durable' \in {durable, [durable EXCEPT ![s] = Opened]}
                  /\ \/ pc'[c] = "idle" /\ req'[c] = NoRequest
                     \/ pc'[c] = "insert" /\ req' = req
               \/ /\ pc[c] = "insert" /\ req[c].op = "init"
                  /\ durable' = durable /\ view' = [view EXCEPT ![s] = Opened]
                  /\ pc'[c] = "reply" /\ req' = req
  <1> DEFINE s == req[c].session
             k == req[c].capture
  <1>1. /\ pc \in [Callers -> PcValues] /\ req \in [Callers -> Requests]
        /\ req[c] \in Requests /\ Fits(pc[c], req[c])
        /\ view \in [Sessions -> Record] /\ durable \in [Sessions -> Record]
    BY DEF IndInv, TypeOK, WorkFits
  <1>2. s \in Sessions /\ (req[c].op = "snap" => k \in Captures)
    BY <1>1, RequestFacts
  <1>3. pc[c] # "idle"
    BY <1>1 DEF Fits
  <1>4. CASE SaveBytes(c) \/ AddToIndex(c)
    BY <1>1, <1>2, <1>3, <1>4
       DEF SaveBytes, AddToIndex, Goto, At, Fits, history
  <1>5. CASE \/ SaveFails(c) \/ SubmitSnapRefused(c) \/ SubmitResponseRefused(c)
             \/ LoadFails(c) \/ CheckFails(c) \/ GetAssetFails(c)
             \/ ModelFails(c) \/ Reply(c)
    BY <1>1, <1>2, <1>3, <1>5
       DEF SaveFails, SubmitSnapRefused, SubmitResponseRefused, LoadFails,
           CheckFails, GetAssetFails, ModelFails, Reply, Fails, Done, At,
           stores, history
  <1>6. CASE LoadPhoto(c) \/ ModelAnswers(c)
    BY <1>1, <1>2, <1>3, <1>6
       DEF LoadPhoto, ModelAnswers, Goto, At, Fits, stores, history
  <1>7. CASE SubmitSnap(c)
    BY <1>1, <1>2, <1>3, <1>7
       DEF SubmitSnap, Move, WriteFails, Persist, PersistFails, Goto, Done, At, Fits, history
  <1>8. CASE SubmitResponse(c)
    <2>1. Finished(view[s]).capture = view[s].capture
      BY RecordShapes
    <2> QED
      BY <1>1, <1>2, <1>3, <1>8, <2>1
         DEF SubmitResponse, Move, WriteFails, Persist, PersistFails, Done, At, Fits,
             history
  <1>9. CASE InitSave(c)
    BY <1>1, <1>2, <1>3, <1>9
       DEF InitSave, Persist, PersistFails, Goto, Done, At, Fits, history
  <1>10. CASE InitInsert(c)
    BY <1>1, <1>2, <1>3, <1>10 DEF InitInsert, Goto, At, Fits, history
  <1>11. CASE CreateSave(c) \/ CreateInsert(c) \/ CheckSession(c) \/ GetAsset(c)
              \/ AnalyzeAssets(c)
    BY <1>1, <1>11
       DEF CreateSave, CreateInsert, CheckSession, GetAsset, AnalyzeAssets, At, Fits
  <1> QED
    BY <1>4, <1>5, <1>6, <1>7, <1>8, <1>9, <1>10, <1>11 DEF Proceed, Model

-----------------------------------------------------------------------------
(***************************************************************************)
(* What has ended stays as it was                                          *)
(***************************************************************************)

\* A step adds calls and captures, and settles the call that is waited for; it
\* changes nothing about the others.
PastStays ==
  /\ \A n \in 1..Len(sent) : n \in 1..Len(sent') /\ sent'[n] = sent[n]
  /\ \A n \in 1..Len(sent) :
       n # waiting => outcome'[n] = outcome[n] /\ about'[n] = about[n]
  /\ \A k \in Captures : madeBy[k] # 0 => madeBy'[k] = madeBy[k]

\* The types of the calls, as the steps below use them.
LEMMA ClientFacts ==
  ASSUME ClientTypeOK
  PROVE  /\ Len(sent) \in Nat /\ DOMAIN sent = 1..Len(sent)
         /\ 1..Len(sent) \subseteq Calls
         /\ \A n \in 1..Len(sent) :
              /\ sent[n] \in SentRequest
              /\ sent[n].op \in {"init", "snap", "respond"}
              /\ sent[n].op # "init" => sent[n].session \in Sessions
              /\ n # 0
  <1>1. sent \in Seq(SentRequest) /\ Len(sent) \in Nat /\ Len(sent) <= MaxCalls
    BY DEF ClientTypeOK
  <1>2. DOMAIN sent = 1..Len(sent) /\ \A n \in 1..Len(sent) : sent[n] \in SentRequest
    BY <1>1
  <1>3. 1..Len(sent) \subseteq Calls
    BY <1>1, MaxCallsAssumption DEF Calls
  <1> QED  BY <1>1, <1>2, <1>3 DEF SentRequest

\* The calls made before another one have all ended.
LEMMA BeforeStays ==
  ASSUME ClientTypeOK, ClientTypeOK', PastStays, NEW n \in 1..Len(sent),
         NEW op, NEW s, NEW O
  PROVE  Before(n, op, s, O)' = Before(n, op, s, O)
  <1>1. \A m \in 1..(n - 1) : m \in 1..Len(sent) /\ m # waiting
    BY ClientFacts DEF ClientTypeOK
  <1>2. DOMAIN sent = 1..Len(sent) /\ DOMAIN sent' = 1..Len(sent')
    BY DEF ClientTypeOK
  <1>3. \A m \in 1..(n - 1) :
          m \in DOMAIN sent /\ m \in DOMAIN sent' /\ sent'[m] = sent[m]
            /\ outcome'[m] = outcome[m]
    BY <1>1, <1>2 DEF PastStays
  <1> QED  BY <1>3 DEF Before, Ended

\* What an answer said stays true in every step: a session keeps its photo, the
\* file has the same one, and a capture stays the submission's that made it.
LEMMA AnswersStay ==
  ASSUME ClientIndInv, ClientTypeOK', [Next]_vars, PastStays,
         NEW n \in 1..Len(sent), n # waiting
  PROVE  SnapAnswerTrue(n)' /\ ConflictHasCause(n)' /\ AnalysisOfOwnPhoto(n)'
  <1> DEFINE s == sent[n].session
  <1>1. /\ ClientTypeOK /\ IndInv /\ IndInv' /\ n \in Calls /\ n # 0
        /\ sent'[n] = sent[n] /\ outcome'[n] = outcome[n] /\ about'[n] = about[n]
        /\ n \in DOMAIN sent /\ n \in DOMAIN sent'
    <2>1. ClientTypeOK /\ IndInv /\ IndInv'
      BY IndStep DEF ClientIndInv
    <2>2. DOMAIN sent' = 1..Len(sent')
      BY DEF ClientTypeOK
    <2> QED  BY <2>1, <2>2, ClientFacts DEF PastStays
  <1>2. \A op, t, O : Before(n, op, t, O)' = Before(n, op, t, O)
    BY <1>1, BeforeStays
  <1>3. \A op, O : Ended(n, op, O)' <=> Ended(n, op, O)
    BY <1>1 DEF Ended
  <1>4. SnapAnswerTrue(n) /\ ConflictHasCause(n) /\ AnalysisOfOwnPhoto(n)
    BY <1>1 DEF ClientIndInv, SnapAnswersStayTrue, ResponseConflictHasCause,
                AnalysisIsOfOwnPhoto
  <1>5. ASSUME Ended(n, "snap", {"ok", "409"})
        PROVE  PhotoFrom(view[s])' = PhotoFrom(view[s])
               /\ PhotoFrom(durable[s])' = PhotoFrom(durable[s])
    <2> DEFINE k == view[s].capture
    <2>1. s \in Sessions
      BY <1>1, <1>5, ClientFacts DEF Ended
    <2>2. \A m \in Before(n, "snap", s, {"ok", "500", "error"}) : m # 0
      BY DEF Before
    <2>3. PhotoFrom(view[s]) # 0
      BY <1>1, <1>4, <1>5, <2>2 DEF SnapAnswerTrue
    <2>4. k \in Captures /\ k # NoCapture /\ madeBy[k] # 0 /\ durable[s].capture = k
      BY <1>1, <2>1, <2>3, FilesDoFollow, RecordEqual
         DEF PhotoFrom, FilesFollow, IndInv, TypeOK
    <2>5. view'[s].capture = k
      BY <1>1, <2>1, <2>4, SessionsGoOn
    <2>6. FilesFollow'
      BY <1>1, FilesDoFollow, PTL
    <2>7. durable'[s].capture = k
      BY <2>1, <2>4, <2>5, <2>6 DEF FilesFollow
    <2>8. sent'[n].session = s /\ madeBy'[k] = madeBy[k]
      BY <1>1, <2>4 DEF PastStays
    <2> QED
      BY <2>4, <2>5, <2>7, <2>8 DEF PhotoFrom
  <1>6. SnapAnswerTrue(n)'
    BY <1>1, <1>2, <1>3, <1>4, <1>5 DEF SnapAnswerTrue
  <1>7. ConflictHasCause(n)'
    BY <1>1, <1>2, <1>3, <1>4 DEF ConflictHasCause
  <1>8. AnalysisOfOwnPhoto(n)'
    BY <1>1, <1>2, <1>3, <1>4 DEF AnalysisOfOwnPhoto
  <1> QED  BY <1>6, <1>7, <1>8

AnswersTrue ==
  SnapAnswersStayTrue /\ ResponseConflictHasCause /\ NeverNotFound /\ AnalysisIsOfOwnPhoto

\* In a step that brings the client no answer, all it was told stays true.
LEMMA NoNewAnswer ==
  ASSUME ClientIndInv, ClientTypeOK', [Next]_vars, PastStays,
         \A n \in Calls :
           n = waiting \/ n \notin 1..Len(sent) => outcome'[n] \in {"none", "error"}
  PROVE  AnswersTrue'
  <1>1. ASSUME NEW n \in Calls
        PROVE  /\ SnapAnswerTrue(n)' /\ ConflictHasCause(n)' /\ AnalysisOfOwnPhoto(n)'
               /\ outcome'[n] # "404"
    <2>1. CASE outcome'[n] \in {"none", "error"}
      BY <2>1 DEF SnapAnswerTrue, ConflictHasCause, AnalysisOfOwnPhoto, Ended
    <2>2. CASE n \in 1..Len(sent) /\ n # waiting
      <3>1. outcome'[n] # "404"
        BY <2>2 DEF PastStays, ClientIndInv, NeverNotFound
      <3> QED  BY <2>2, <3>1, AnswersStay
    <2> QED  BY <2>1, <2>2
  <1>2. Calls' = Calls
    BY DEF Calls
  <1> QED
    BY <1>1, <1>2
       DEF AnswersTrue, SnapAnswersStayTrue, ResponseConflictHasCause, NeverNotFound,
           AnalysisIsOfOwnPhoto

-----------------------------------------------------------------------------
(***************************************************************************)
(* Steps of the client and the network alone                               *)
(***************************************************************************)

\* A new call: it has no outcome, and is on the network only.
LEMMA StepDo ==
  ASSUME ClientIndInv, NEW r \in SentRequest, NEW replay \in BOOLEAN, Do(r, replay),
         r.op # "init" => view[r.session].step # "none"
  PROVE  ClientIndInv'
  <1> DEFINE l == Len(sent)
  <1>1. /\ waiting = 0 /\ l < MaxCalls
        /\ sent' = Append(sent, r) /\ waiting' = l + 1 /\ replaying' = replay
        /\ network' = network \cup {l + 1}
        /\ UNCHANGED <<vars, outcome, snapSessionID, owner, madeBy, about>>
    BY DEF Do
  <1>2. /\ ClientTypeOK /\ l \in Nat /\ l + 1 \in Calls /\ MaxCalls \in Nat
        /\ sent \in Seq(SentRequest)
    BY <1>1, MaxCallsAssumption DEF ClientIndInv, ClientTypeOK, Calls
  <1>3. /\ sent' \in Seq(SentRequest) /\ Len(sent') = l + 1 /\ sent'[l + 1] = r
        /\ \A n \in 1..l : sent'[n] = sent[n]
    BY <1>1, <1>2
  <1>4. ClientTypeOK'
    <2>1. \A n : n \in 0..l => n \in 0..(l + 1)
      BY <1>2
    <2>2. \A n : n \in 1..l => n \in 1..(l + 1)
      BY <1>2
    <2>3. Calls' = Calls
      BY DEF Calls
    <2>4. /\ owner' \in [Callers -> 0..(l + 1)] /\ madeBy' \in [Captures -> 0..(l + 1)]
          /\ about' \in [Calls -> 0..(l + 1)]
      BY <1>1, <1>2, <2>1 DEF ClientTypeOK
    <2>5. network' \in SUBSET (1..(l + 1))
      <3>1. network \subseteq 1..l /\ l + 1 \in 1..(l + 1)
        BY <1>2 DEF ClientTypeOK
      <3> QED  BY <1>1, <2>2, <3>1
    <2>6. sent' \in Seq(SentRequest) /\ l + 1 <= MaxCalls
      BY <1>1, <1>2, <1>3
    <2> QED
      BY <1>1, <1>2, <1>3, <2>3, <2>4, <2>5, <2>6 DEF ClientTypeOK
  <1>5. IndInv' /\ [Next]_vars
    BY <1>1, IndStep DEF ClientIndInv
  <1>6. /\ outcome[l + 1] = "none" /\ l + 1 \notin network
        /\ \A c \in Callers : owner[c] \in 0..l
        /\ \A k \in Captures : madeBy[k] \in 0..l
    BY <1>2 DEF ClientIndInv, ClientTypeOK, OutcomeInTime
  <1>7. OneHandlerPerRequest'
    BY <1>1, <1>2, <1>6 DEF ClientIndInv, OneHandlerPerRequest, vars
  <1>8. HandlesItsRequest'
    BY <1>1, <1>2, <1>3, <1>6 DEF ClientIndInv, HandlesItsRequest, vars
  <1>9. OutcomeInTime'
    BY <1>1, <1>2, <1>3, <1>6
       DEF ClientIndInv, ClientTypeOK, OutcomeInTime, Calls
  <1>10. IdsAreKnown'
    BY <1>1, <1>2, <1>3 DEF ClientIndInv, IdsAreKnown, vars, stores
  <1>11. MadeByOne'
    BY <1>1, <1>2, <1>3, <1>6 DEF ClientIndInv, MadeByOne, vars, history
  <1>12. SessionPhotoIsSubmitted'
    BY <1>1, <1>2, <1>3, <1>6
       DEF ClientIndInv, IndInv, TypeOK, Record, SessionPhotoIsSubmitted, PhotoOf, vars,
           stores
  <1>13. DoneByResponse'
    <2>1. ASSUME NEW s \in Sessions, NEW m \in 1..l, Took(m, s)
          PROVE  Took(m, s)' /\ m \in 1..Len(sent')
      BY <2>1, <1>1, <1>2, <1>3 DEF Took, vars
    <2> QED  BY <2>1, <1>1 DEF ClientIndInv, DoneByResponse, vars, stores
  <1>14. TakenOnce'
    <2>1. ASSUME NEW n \in 1..Len(sent'), Ended(n, "respond", {"ok"})'
          PROVE  n \in 1..l /\ Ended(n, "respond", {"ok"}) /\ sent'[n] = sent[n]
      BY <2>1, <1>1, <1>2, <1>3, <1>6, ClientFacts DEF Ended
    <2> QED
      BY <2>1, <1>1 DEF ClientIndInv, TakenOnce, Taking, vars, stores
  <1>15. PastStays
    BY <1>1, <1>2, <1>3 DEF PastStays
  <1>16. \A n \in Calls :
           n = waiting \/ n \notin 1..Len(sent) => outcome'[n] \in {"none", "error"}
    BY <1>1, <1>2 DEF ClientIndInv, OutcomeInTime, Calls
  <1>17. AnswersTrue'
    BY <1>4, <1>5, <1>15, <1>16, NoNewAnswer
  <1> QED
    BY <1>4, <1>5, <1>7, <1>8, <1>9, <1>10, <1>11, <1>12, <1>13, <1>14, <1>17
       DEF ClientIndInv, AnswersTrue

\* The client gives up, or the network loses a request.
LEMMA StepGiveUp ==
  ASSUME ClientIndInv, GiveUp \/ (\E n \in Calls : Lose(n)) \/ UNCHANGED clientVars
  PROVE  ClientIndInv'
  <1>1. /\ UNCHANGED <<vars, sent, snapSessionID, owner, madeBy, about>>
        /\ network' \subseteq network
        /\ replaying' \in {replaying, FALSE}
        /\ \/ waiting' = waiting /\ outcome' = outcome
           \/ /\ waiting # 0 /\ waiting' = 0
              /\ outcome' = [outcome EXCEPT ![waiting] = "error"]
    BY DEF GiveUp, Ends, Lose, client, clientVars
  <1>2. /\ ClientTypeOK /\ Len(sent) \in Nat /\ Len(sent) <= MaxCalls
        /\ waiting \in {0, Len(sent)} /\ outcome \in [Calls -> Outcomes]
        /\ waiting # 0 => waiting \in Calls /\ waiting \in 1..Len(sent)
    BY MaxCallsAssumption DEF ClientIndInv, ClientTypeOK, Calls
  <1>3. /\ \A n \in Calls : n # waiting => outcome'[n] = outcome[n]
        /\ \A n \in Calls : outcome'[n] = outcome[n] \/ outcome'[n] = "error"
        /\ \A n \in Calls : n = waiting => outcome'[n] \in {"none", "error"}
    BY <1>1, <1>2 DEF ClientIndInv, OutcomeInTime
  <1>4. ClientTypeOK'
    BY <1>1, <1>2 DEF ClientTypeOK, Outcomes, Calls
  <1>5. IndInv' /\ [Next]_vars
    BY <1>1, IndStep DEF ClientIndInv
  <1>6. OneHandlerPerRequest' /\ HandlesItsRequest'
    BY <1>1 DEF ClientIndInv, OneHandlerPerRequest, HandlesItsRequest, vars
  <1>7. OutcomeInTime'
    <2>1. \A c \in Callers : owner[c] # 0 => owner[c] \in Calls
      BY <1>2, ClientFacts DEF ClientTypeOK
    <2>2. \A n \in network : n \in Calls
      BY <1>2, ClientFacts DEF ClientTypeOK
    <2>3. ASSUME NEW n \in Calls
          PROVE  outcome'[n] = "none" <=> n = waiting' \/ n > Len(sent)
      <3>1. outcome[n] = "none" <=> n = waiting \/ n > Len(sent)
        BY DEF ClientIndInv, OutcomeInTime
      <3>2. CASE waiting' = waiting /\ outcome' = outcome
        BY <3>1, <3>2
      <3>3. CASE /\ waiting # 0 /\ waiting' = 0
                 /\ outcome' = [outcome EXCEPT ![waiting] = "error"]
        <4>1. n \in Nat /\ n # 0 /\ waiting = Len(sent)
          BY <1>2, <3>3 DEF Calls
        <4> QED  BY <1>2, <3>1, <3>3, <4>1
      <3> QED  BY <1>1, <3>2, <3>3
    <2> QED
      BY <1>1, <1>3, <2>1, <2>2, <2>3 DEF ClientIndInv, OutcomeInTime, Calls
  <1>8. IdsAreKnown'
    BY <1>1 DEF ClientIndInv, IdsAreKnown, vars, stores
  <1>9. MadeByOne'
    BY <1>1 DEF ClientIndInv, MadeByOne, vars, history
  <1>10. SessionPhotoIsSubmitted'
    <2>1. \A s \in Sessions : PhotoOf(s)' = PhotoOf(s) /\ PhotoOf(s) \subseteq Captures
      BY <1>1 DEF PhotoOf, vars, stores, ClientIndInv, IndInv, TypeOK, Record
    <2>2. \A k \in Captures : madeBy[k] # 0 => madeBy[k] \in Calls
      BY <1>2, ClientFacts DEF ClientTypeOK
    <2> QED
      BY <1>1, <1>3, <2>1, <2>2 DEF ClientIndInv, SessionPhotoIsSubmitted, vars
  <1>11. DoneByResponse'
    <2>1. ASSUME NEW s \in Sessions, NEW m \in 1..Len(sent), Took(m, s)
          PROVE  Took(m, s)'
      BY <2>1, <1>1, <1>2, <1>3, ClientFacts DEF Took, vars
    <2> QED  BY <2>1, <1>1 DEF ClientIndInv, DoneByResponse, vars, stores
  <1>12. TakenOnce'
    <2>1. ASSUME NEW n \in 1..Len(sent), Ended(n, "respond", {"ok"})'
          PROVE  Ended(n, "respond", {"ok"})
      BY <2>1, <1>1, <1>2, <1>3, ClientFacts DEF Ended
    <2> QED
      BY <2>1, <1>1 DEF ClientIndInv, TakenOnce, Taking, vars, stores
  <1>13. PastStays
    BY <1>1, <1>2, <1>3, ClientFacts DEF PastStays
  <1>14. \A n \in Calls :
           n = waiting \/ n \notin 1..Len(sent) => outcome'[n] \in {"none", "error"}
    BY <1>2, <1>3 DEF ClientIndInv, OutcomeInTime, Calls
  <1>15. AnswersTrue'
    BY <1>4, <1>5, <1>13, <1>14, NoNewAnswer
  <1> QED
    BY <1>4, <1>5, <1>6, <1>7, <1>8, <1>9, <1>10, <1>11, <1>12, <1>15
       DEF ClientIndInv, AnswersTrue

-----------------------------------------------------------------------------
(***************************************************************************)
(* Steps of the server                                                     *)
(***************************************************************************)

\* A request reaches a handler: it leaves the network, and its photo gets a
\* capture id that was nobody's.
LEMMA StepDeliver ==
  ASSUME ClientIndInv, NEW n \in Calls, NEW c \in Callers, Deliver(n, c)
  PROVE  ClientIndInv'
  <1> DEFINE r == sent[n]
             q == req'[c]
             k == q.capture
  <1>1. /\ ClientTypeOK /\ IndInv /\ n \in network /\ n \in 1..Len(sent) /\ n # 0
        /\ network' = network \ {n} /\ owner' = [owner EXCEPT ![c] = n]
        /\ UNCHANGED <<client, about>>
    BY DEF ClientIndInv, ClientTypeOK, Deliver
  <1>2. /\ r \in SentRequest /\ r.op \in {"init", "snap", "respond"}
        /\ r.op # "init" => r.session \in Sessions
    BY <1>1, ClientFacts
  <1>3. /\ pc[c] = "idle" /\ UNCHANGED <<phase, stores>> /\ drawn \subseteq drawn'
        /\ pc' = [pc EXCEPT ![c] = pc'[c]] /\ pc'[c] \in {"init", "save", "respond"}
        /\ req' = [req EXCEPT ![c] = q]
        /\ q.op = IF r.op = "respond" THEN "response" ELSE r.op
        /\ r.op # "init" => q.session = r.session
        /\ \/ r.op = "snap" /\ k \in Captures /\ k \notin drawn /\ k \in drawn'
              /\ madeBy' = [madeBy EXCEPT ![k] = n]
           \/ r.op # "snap" /\ madeBy' = madeBy
    BY <1>1, <1>2
       DEF Deliver, InitCall, SubmitSnapCall, SubmitResponseCall, Arrive, Fresh, IndInv,
           TypeOK
  <1>4. IndInv' /\ [Next]_vars
    <2>1. Request(c)
      BY <1>1, <1>2, ClientFacts DEF Deliver, Request
    <2> QED  BY <1>1, <2>1, IndStep DEF Next
  <1>5. /\ \A d \in Callers : d # c => owner'[d] = owner[d] /\ pc'[d] = pc[d]
                                                          /\ req'[d] = req[d]
        /\ owner'[c] = n /\ owner[c] = 0
        /\ sent' = sent /\ waiting' = waiting /\ replaying' = replaying
        /\ outcome' = outcome /\ snapSessionID' = snapSessionID /\ about' = about
        /\ view' = view /\ durable' = durable
    BY <1>1, <1>3
       DEF client, stores, ClientIndInv, ClientTypeOK, OneHandlerPerRequest, IndInv, TypeOK
  <1>6. /\ \A j \in Captures : madeBy[j] # 0 => madeBy'[j] = madeBy[j]
        /\ \A j \in Captures : madeBy'[j] = madeBy[j]
                               \/ (madeBy'[j] = n /\ j = k /\ r.op = "snap")
        /\ r.op = "snap" => madeBy'[k] = n /\ madeBy[k] = 0
        /\ madeBy' \in [Captures -> 0..Len(sent)]
    <2>1. madeBy \in [Captures -> 0..Len(sent)] /\ n \in 0..Len(sent)
      BY <1>1, ClientFacts DEF ClientTypeOK
    <2>2. \A j \in Captures : j \notin drawn => madeBy[j] = 0
      BY DEF ClientIndInv, MadeByOne
    <2>3. CASE r.op # "snap" /\ madeBy' = madeBy
      BY <2>1, <2>3
    <2>4. CASE /\ r.op = "snap" /\ k \in Captures /\ k \notin drawn
               /\ madeBy' = [madeBy EXCEPT ![k] = n]
      <3> HIDE DEF r, k
      <3> QED  BY <2>1, <2>2, <2>4
    <2> QED  BY <1>3, <2>3, <2>4
  <1>7. ClientTypeOK'
    <2>1. owner' \in [Callers -> 0..Len(sent)] /\ network' \in SUBSET (1..Len(sent))
      BY <1>1 DEF ClientTypeOK
    <2> QED  BY <1>1, <1>5, <1>6, <2>1 DEF ClientTypeOK, Calls
  <1>8. OneHandlerPerRequest'
    BY <1>1, <1>3, <1>5 DEF ClientIndInv, OneHandlerPerRequest
  <1>9. HandlesItsRequest'
    <2>1. ASSUME NEW d \in Callers, owner[d] # 0, sent[owner[d]].op = "snap"
          PROVE  madeBy'[req[d].capture] = madeBy[req[d].capture]
      <3>1. req[d].op = "snap" /\ req[d] \in Requests /\ madeBy[req[d].capture] # 0
        BY <1>1, <2>1 DEF ClientIndInv, HandlesItsRequest, IndInv, TypeOK
      <3> QED  BY <1>6, <3>1, RequestFacts
    <2> QED
      BY <1>1, <1>3, <1>5, <1>6, <2>1 DEF ClientIndInv, HandlesItsRequest
  <1>10. OutcomeInTime'
    <2>1. outcome[n] \in {"none", "error"}
      BY <1>1 DEF ClientIndInv, OutcomeInTime
    <2>2. \A d \in Callers : owner'[d] = n \/ owner'[d] = owner[d]
      BY <1>5
    <2>3. Calls' = Calls
      BY DEF Calls
    <2> QED
      BY <1>1, <1>5, <2>1, <2>2, <2>3 DEF ClientIndInv, OutcomeInTime
  <1>11. IdsAreKnown'
    BY <1>3, <1>5 DEF ClientIndInv, IdsAreKnown
  <1>12. \A j \in Captures : madeBy[j] # n
    BY <1>1 DEF ClientIndInv, MadeByOne
  <1>13. MadeByOne'
    <2>1. MadeByOne
      BY DEF ClientIndInv
    <2> QED  BY <1>1, <1>3, <1>5, <1>6, <1>12, <2>1 DEF MadeByOne
  <1>14. SessionPhotoIsSubmitted'
    <2>1. \A s \in Sessions : PhotoOf(s)' = PhotoOf(s) /\ PhotoOf(s) \subseteq Captures
      BY <1>1, <1>5 DEF PhotoOf, IndInv, TypeOK, Record
    <2>2. r.op = "snap" => \A s \in Sessions : k \notin PhotoOf(s)
      BY <1>6 DEF ClientIndInv, SessionPhotoIsSubmitted
    <2>3. q.op = "snap" => r.op = "snap"
      BY <1>2, <1>3
    <2> QED
      BY <1>5, <1>6, <2>1, <2>2, <2>3 DEF ClientIndInv, SessionPhotoIsSubmitted
  <1>15. DoneByResponse'
    <2>1. ASSUME NEW s \in Sessions, NEW m \in 1..Len(sent), Took(m, s)
          PROVE  Took(m, s)'
      BY <2>1, <1>1, <1>5 DEF Took
    <2> QED  BY <2>1, <1>5 DEF ClientIndInv, DoneByResponse
  <1>16. TakenOnce'
    <2>1. \A d \in Callers : Taking(d)' => d # c /\ Taking(d)
      BY <1>3, <1>5 DEF Taking
    <2>2. \A m \in 1..Len(sent) : Ended(m, "respond", {"ok"})' <=> Ended(m, "respond", {"ok"})
      BY <1>5 DEF Ended
    <2> QED
      BY <1>5, <2>1, <2>2 DEF ClientIndInv, TakenOnce
  <1>17. PastStays
    BY <1>5, <1>6 DEF PastStays
  <1>18. \A m \in Calls :
           m = waiting \/ m \notin 1..Len(sent) => outcome'[m] \in {"none", "error"}
    BY <1>1, <1>5, ClientFacts DEF ClientIndInv, OutcomeInTime, Calls
  <1>19. AnswersTrue'
    BY <1>4, <1>7, <1>17, <1>18, NoNewAnswer
  <1> QED
    BY <1>4, <1>7, <1>8, <1>9, <1>10, <1>11, <1>13, <1>14, <1>15, <1>16, <1>19
       DEF ClientIndInv, AnswersTrue

\* The step of a handler as the invariant sees it: which photos and which ends
\* of a session are new, and what the handler goes on with.
HandlerStep(c) ==
  LET s == req[c].session
      k == req[c].capture
  IN /\ \A d \in Callers \ {c} : pc'[d] = pc[d] /\ req'[d] = req[d]
     /\ pc'[c] = "idle" => req'[c].op = "none"
     /\ pc'[c] # "idle" =>
          /\ req'[c].op = req[c].op /\ req'[c].session = s
          /\ req[c].op = "snap" => req'[c].capture = k
     /\ pc'[c] \in {"save", "index", "submit"} => pc[c] \in {"save", "index", "submit"}
     /\ pc'[c] # "respond"
     /\ Taking(c)' =>
          \/ Taking(c) /\ req'[c] = req[c]
          \/ /\ view[s].step = "awaitResponse" /\ view'[s] = Finished(view[s])
             /\ req'[c].capture = view[s].capture
     /\ req'[c].op = "init" /\ pc'[c] = "reply" => view'[s].step # "none"
     /\ \A t \in Sessions : \A j \in PhotoOf(t)' :
          \/ j \in PhotoOf(t)
          \/ /\ t = s /\ j = k /\ pc[c] = "submit" /\ view[s].step = "awaitSnap"
             /\ pc'[c] \in {"idle", "reply"}
     /\ \A t \in Sessions :
          "done" \in {view'[t].step, durable'[t].step} =>
            \/ "done" \in {view[t].step, durable[t].step}
            \/ t = s /\ pc[c] = "respond" /\ view[s].step = "awaitResponse"
     /\ \/ pc[c] = "reply"
        \/ pc[c] = "submit" /\ view[s].step # "awaitSnap"
        \/ pc[c] = "respond" /\ view[s].step # "awaitResponse"
        => view' = view /\ durable' = durable
     /\ drawn' = drawn

\* The handler serves a call of the client, which it has from the network.
LEMMA HandlerFacts ==
  ASSUME ClientIndInv, NEW c \in Callers, pc[c] # "idle"
  PROVE  LET n == owner[c]
         IN /\ n \in 1..Len(sent) /\ n \in Calls /\ n # 0 /\ n \notin network
            /\ req[c].op \in {"init", "snap", "response"}
            /\ req[c].session \in Sessions
            /\ req[c].op = "init" <=> sent[n].op = "init"
            /\ req[c].op = "snap" <=> sent[n].op = "snap"
            /\ req[c].op = "response" <=> sent[n].op = "respond"
            /\ req[c].op # "init" => sent[n].session = req[c].session
                                     /\ view[req[c].session].step # "none"
            /\ req[c].op = "snap" => req[c].capture \in Captures
                                     /\ madeBy[req[c].capture] = n
            /\ Fits(pc[c], req[c])
            /\ \A d \in Callers \ {c} : owner[d] # n
            /\ outcome[n] \in {"none", "error"}
  <1> DEFINE n == owner[c]
  <1>1. ClientTypeOK /\ IndInv /\ n # 0 /\ n \notin network /\ req[c] \in Requests
    BY DEF ClientIndInv, OneHandlerPerRequest, IndInv, TypeOK
  <1>2. n \in 1..Len(sent)
    BY <1>1, ClientFacts DEF ClientTypeOK
  <1>3. /\ sent[n].op \in {"init", "snap", "respond"}
        /\ req[c].op = IF sent[n].op = "respond" THEN "response" ELSE sent[n].op
        /\ sent[n].op # "init" => req[c].session = sent[n].session
        /\ sent[n].op = "snap" => madeBy[req[c].capture] = n
    BY <1>1, <1>2, ClientFacts DEF ClientIndInv, HandlesItsRequest
  <1>4. /\ req[c].session \in Sessions
        /\ req[c].op = "snap" => req[c].capture \in Captures
    BY <1>1, <1>3, RequestFacts
  <1>5. sent[n].op # "init" => view[sent[n].session].step # "none"
    BY <1>2 DEF ClientIndInv, IdsAreKnown
  <1>6. Fits(pc[c], req[c])
    BY DEF ClientIndInv, IndInv, WorkFits
  <1>7. \A d \in Callers \ {c} : owner[d] # n
    BY <1>1 DEF ClientIndInv, OneHandlerPerRequest
  <1>8. outcome[n] \in {"none", "error"}
    BY <1>1 DEF ClientIndInv, OutcomeInTime
  <1>9. n \in Calls
    BY <1>1, <1>2, ClientFacts
  <1> QED
    BY <1>1, <1>2, <1>3, <1>4, <1>5, <1>6, <1>7, <1>8, <1>9

\* What a step of a handler leaves alone, and where it may go.
LEMMA HandlerSteps ==
  ASSUME ClientIndInv, NEW c \in Callers, Proceed(c) \/ Model(c), pc[c] # "idle"
  PROVE  HandlerStep(c)
  <1> DEFINE s == req[c].session
             k == req[c].capture
  <1>1. /\ IndInv /\ req[c].op \in {"init", "snap", "response"}
        /\ view \in [Sessions -> Record] /\ durable \in [Sessions -> Record]
        /\ req \in [Callers -> Requests] /\ s \in Sessions
        /\ Fits(pc[c], req[c]) /\ NoRequest.op = "none"
    BY HandlerFacts DEF ClientIndInv, IndInv, TypeOK, NoRequest
  <1>2. /\ UNCHANGED <<phase, drawn>>
        /\ \A d \in Callers \ {c} : pc'[d] = pc[d] /\ req'[d] = req[d]
    BY <1>1, HandlerKinds
  <1>3. CASE /\ view' = view /\ durable' = durable
             /\ pc'[c] = "idle" /\ req'[c] = NoRequest
    BY <1>1, <1>2, <1>3 DEF HandlerStep, Taking, PhotoOf
  <1>4. CASE /\ view' = view /\ durable' = durable
             /\ req' = req /\ req[c].op = "snap"
             /\ pc[c] \in {"save", "index"} /\ pc'[c] \in {"index", "submit"}
    BY <1>1, <1>2, <1>4 DEF HandlerStep, Taking, PhotoOf
  <1>5. CASE /\ view' = view /\ durable' = durable
             /\ req' = req /\ req[c].op = "response"
             /\ pc[c] \in {"load", "analyzing"}
             /\ pc'[c] \in {"analyzing", "reply"}
    BY <1>1, <1>2, <1>5 DEF HandlerStep, Taking, PhotoOf
  <1>6. CASE /\ pc[c] = "submit" /\ req[c].op = "snap" /\ k \in Captures
             /\ view[s].step = "awaitSnap"
             /\ durable' \in {durable, [durable EXCEPT ![s] = Submitted(k)]}
             /\ \/ view' = view /\ pc'[c] = "idle" /\ req'[c] = NoRequest
                \/ /\ view' = [view EXCEPT ![s] = Submitted(k)]
                   /\ pc'[c] = "reply" /\ req' = req
    BY <1>1, <1>2, <1>6, RecordShapes DEF HandlerStep, Taking, PhotoOf
  <1>7. CASE /\ pc[c] = "respond" /\ req[c].op = "response"
             /\ view[s].step = "awaitResponse"
             /\ durable' \in {durable, [durable EXCEPT ![s] = Finished(view[s])]}
             /\ \/ view' = view /\ pc'[c] = "idle" /\ req'[c] = NoRequest
                \/ /\ view' = [view EXCEPT ![s] = Finished(view[s])]
                   /\ pc'[c] = "load"
                   /\ req' = [req EXCEPT ![c].capture = view[s].capture]
    <2>1. ASSUME req' = [req EXCEPT ![c].capture = view[s].capture]
          PROVE  /\ req'[c].op = "response" /\ req'[c].session = s
                 /\ req'[c].capture = view[s].capture
      <3>1. req'[c] = [req[c] EXCEPT !.capture = view[s].capture]
        BY <1>1, <2>1
      <3>2. view[s].capture \in Captures \cup {NoCapture}
        BY <1>1 DEF Record
      <3> QED  BY <1>1, <1>7, <3>1, <3>2, ResponseRequest
    <2> QED
      BY <1>1, <1>2, <1>7, <2>1, RecordShapes DEF HandlerStep, Taking, PhotoOf
  <1>8. CASE /\ pc[c] = "init" /\ req[c].op = "init" /\ view' = view
             /\ durable' \in {durable, [durable EXCEPT ![s] = Opened]}
             /\ \/ pc'[c] = "idle" /\ req'[c] = NoRequest
                \/ pc'[c] = "insert" /\ req' = req
    BY <1>1, <1>2, <1>8, RecordShapes DEF HandlerStep, Taking, PhotoOf
  <1>9. CASE /\ pc[c] = "insert" /\ req[c].op = "init"
             /\ durable' = durable /\ view' = [view EXCEPT ![s] = Opened]
             /\ pc'[c] = "reply" /\ req' = req
    BY <1>1, <1>2, <1>9, RecordShapes DEF HandlerStep, Taking, PhotoOf
  <1> QED
    BY <1>1, <1>3, <1>4, <1>5, <1>6, <1>7, <1>8, <1>9, HandlerKinds

\* A handler that takes a step serves somebody.
LEMMA HandlerIsBusy ==
  ASSUME NEW c \in Callers, Proceed(c) \/ Model(c)
  PROVE  pc[c] # "idle"
  BY DEF Proceed, Model, At, SaveBytes, SaveFails, AddToIndex, SubmitSnap,
         SubmitSnapRefused, SubmitResponse, SubmitResponseRefused, InitSave, InitInsert,
         LoadPhoto, LoadFails, CreateSave, CreateInsert, CheckSession, CheckFails,
         GetAsset, GetAssetFails, AnalyzeAssets, Reply, ModelAnswers, ModelFails

\* What the status of an answer tells: never "not found"; a conflict of a
\* session that has moved on; a failed analysis of the model's.
LEMMA StatusTells ==
  ASSUME ClientIndInv, NEW c \in Callers, pc[c] # "idle"
  PROVE  /\ Status(c) \in {"ok", "409", "500", "502"}
         /\ Status(c) = "ok" => pc[c] = "reply"
         /\ Status(c) = "502" => pc[c] = "analyzing"
         /\ Status(c) = "409" =>
              LET step == view[req[c].session].step
              IN \/ pc[c] = "submit" /\ req[c].op = "snap"
                    /\ step \in {"awaitResponse", "done"}
                 \/ pc[c] = "respond" /\ req[c].op = "response"
                    /\ step \in {"awaitSnap", "done"}
  <1> DEFINE step == view[req[c].session].step
  <1>1. /\ pc[c] = "submit" => req[c].op = "snap"
        /\ pc[c] = "respond" => req[c].op = "response"
        /\ req[c].op # "init" => step # "none"
        /\ step \in Steps
    BY HandlerFacts DEF Fits, ClientIndInv, IndInv, TypeOK, Record
  <1>2. pc[c] \in {"submit", "respond"} => step # "none"
    BY <1>1
  <1> HIDE DEF step
  <1>3. /\ pc[c] = "reply" => Status(c) = "ok"
        /\ pc[c] = "analyzing" => Status(c) = "502"
        /\ pc[c] = "submit" => Status(c) = IF step = "awaitSnap" THEN "500" ELSE "409"
        /\ pc[c] = "respond" =>
             Status(c) = IF step = "awaitResponse" THEN "500" ELSE "409"
        /\ pc[c] \notin {"reply", "analyzing", "submit", "respond"} => Status(c) = "500"
    BY <1>2 DEF Status, step
  <1> QED
    BY <1>1, <1>2, <1>3 DEF Steps, step

\* What Hear does to the client, in the terms of the invariant.
LEMMA HearFacts ==
  ASSUME ClientIndInv, NEW c \in Callers, pc[c] # "idle", Hear(c)
  PROVE  LET n == owner[c]
         IN /\ waiting = n /\ n = Len(sent) /\ waiting' = 0 /\ sent' = sent
            /\ replaying' = FALSE
            /\ outcome' = [outcome EXCEPT ![n] = Status(c)]
            /\ outcome' \in [Calls -> Outcomes]
            /\ about' \in [Calls -> 0..Len(sent)]
            /\ \A m \in Calls : m # n => about'[m] = about[m]
            /\ pc[c] = "reply" /\ req[c].op = "response" =>
                 about'[n] = madeBy[req[c].capture]
            /\ \/ snapSessionID' = snapSessionID
               \/ /\ snapSessionID' = req[c].session
                  /\ req[c].op = "init" /\ pc[c] = "reply"
  <1> DEFINE n == owner[c]
  <1>1. /\ ClientTypeOK /\ n \in Calls /\ n # 0 /\ Status(c) \in Outcomes
        /\ Status(c) = "ok" => pc[c] = "reply"
        /\ pc[c] = "reply" => Status(c) = "ok"
    BY HandlerFacts, StatusTells DEF ClientIndInv, Outcomes, Status
  <1>2. /\ waiting = n /\ waiting' = 0 /\ sent' = sent /\ replaying' = FALSE
        /\ outcome' = [outcome EXCEPT ![n] = Status(c)]
        /\ snapSessionID' = IF Status(c) = "ok" /\ req[c].op = "init" /\ ~replaying
                            THEN req[c].session ELSE snapSessionID
        /\ about' = IF Status(c) = "ok" /\ req[c].op = "response"
                    THEN [about EXCEPT ![n] = madeBy[req[c].capture]] ELSE about
    BY DEF Hear, Ends
  <1>3. n = Len(sent) /\ outcome' \in [Calls -> Outcomes]
    BY <1>1, <1>2 DEF ClientTypeOK
  <1>4. /\ about' \in [Calls -> 0..Len(sent)]
        /\ \A m \in Calls : m # n => about'[m] = about[m]
        /\ pc[c] = "reply" /\ req[c].op = "response" =>
             about'[n] = madeBy[req[c].capture]
    <2>1. CASE Status(c) = "ok" /\ req[c].op = "response"
      <3>1. Taking(c)
        BY <1>1, <2>1 DEF Taking
      <3>2. madeBy[req[c].capture] \in 0..Len(sent)
        BY <1>1, <3>1 DEF ClientIndInv, TakenOnce, ClientTypeOK
      <3> QED  BY <1>1, <1>2, <2>1, <3>2 DEF ClientTypeOK
    <2>2. CASE ~(Status(c) = "ok" /\ req[c].op = "response")
      BY <1>1, <1>2, <2>2 DEF ClientTypeOK
    <2> QED  BY <2>1, <2>2
  <1> QED  BY <1>1, <1>2, <1>3, <1>4

\* A number up to n that is not 0 is one of 1..n.
LEMMA PositiveOf ==
  ASSUME NEW n \in Nat, NEW m \in 0..n, m # 0
  PROVE  m \in 1..n
  OBVIOUS

\* The answer the client hears is true: of a submission, because the session has
\* that photo, or had one before; of a response, because one took the session,
\* this one or an earlier one.
LEMMA HeardIsTrue ==
  ASSUME ClientIndInv, ClientTypeOK', NEW c \in Callers, pc[c] # "idle", Hear(c),
         PastStays, UNCHANGED <<sent, madeBy>>,
         Status(c) = "ok" \/ Status(c) = "409" => UNCHANGED <<view, durable>>,
         NEW n, n = owner[c]
  PROVE  SnapAnswerTrue(n)' /\ ConflictHasCause(n)' /\ AnalysisOfOwnPhoto(n)'
  <1> DEFINE s == sent[n].session
             k == view[s].capture
  <1>1. /\ ClientTypeOK /\ IndInv /\ FilesFollow /\ n = Len(sent) /\ n = waiting
        /\ n \in Calls /\ n \in 1..Len(sent) /\ n # 0
        /\ sent' = sent /\ madeBy' = madeBy /\ outcome'[n] = Status(c)
        /\ DOMAIN sent = 1..Len(sent)
    <2>1. ClientTypeOK /\ IndInv /\ FilesFollow
      BY FilesDoFollow DEF ClientIndInv
    <2>2. n \in Calls /\ n \in 1..Len(sent) /\ n # 0
      BY HandlerFacts
    <2>3. /\ n = Len(sent) /\ n = waiting /\ sent' = sent
          /\ outcome' = [outcome EXCEPT ![n] = Status(c)]
      BY HearFacts
    <2>4. outcome'[n] = Status(c)
      BY <2>1, <2>2, <2>3 DEF ClientTypeOK
    <2>5. DOMAIN sent = 1..Len(sent)
      BY <2>1, ClientFacts
    <2> QED  BY <2>1, <2>2, <2>3, <2>4, <2>5
  <1>2. \A op, t, O : Before(n, op, t, O)' = Before(n, op, t, O)
    BY <1>1, BeforeStays
  <1>3. ASSUME NEW m \in 1..Len(sent), m # n
        PROVE  m \in 1..(n - 1) /\ outcome[m] \in Outcomes \ {"none", "404"}
    <2>1. m \in Calls /\ m \in 1..(n - 1)
      <3>1. Len(sent) \in Nat /\ m \in Calls
        BY <1>1, ClientFacts
      <3> QED  BY <1>1, <1>3, <3>1
    <2>2. outcome[m] # "none"
      BY <1>1, <2>1 DEF ClientIndInv, OutcomeInTime
    <2> QED
      BY <1>1, <2>1, <2>2 DEF ClientIndInv, NeverNotFound, ClientTypeOK
  <1>4. ASSUME sent[n].op # "init", k # NoCapture
        PROVE  /\ s \in Sessions /\ k \in Captures /\ k \in PhotoOf(s)
               /\ durable[s].capture = k
               /\ PhotoFrom(view[s]) = madeBy[k] /\ PhotoFrom(durable[s]) = madeBy[k]
               /\ madeBy[k] \in 1..Len(sent) /\ sent[madeBy[k]].op = "snap"
               /\ sent[madeBy[k]].session = s
               /\ outcome[madeBy[k]] \notin {"404", "409", "502"}
    <2>1. s \in Sessions
      BY <1>1, <1>4, ClientFacts
    <2>2. k \in Captures /\ durable[s].capture = k /\ k \in PhotoOf(s)
      BY <1>1, <1>4, <2>1 DEF FilesFollow, IndInv, TypeOK, Record, PhotoOf
    <2>3. /\ madeBy[k] # 0 /\ sent[madeBy[k]].op = "snap"
          /\ sent[madeBy[k]].session = s
          /\ outcome[madeBy[k]] \notin {"404", "409", "502"}
      BY <2>1, <2>2 DEF ClientIndInv, SessionPhotoIsSubmitted, MadeByOne
    <2>4. madeBy[k] \in 1..Len(sent)
      <3>1. madeBy[k] \in 0..Len(sent)
        BY <1>1, <2>2 DEF ClientTypeOK
      <3>2. Len(sent) \in Nat
        BY <1>1, ClientFacts
      <3> QED  BY <2>3, <3>1, <3>2, PositiveOf, Zenon
    <2> QED
      BY <1>4, <2>1, <2>2, <2>3, <2>4 DEF PhotoFrom
  <1>5. SnapAnswerTrue(n)'
    <2> SUFFICES ASSUME sent[n].op = "snap", Status(c) \in {"ok", "409"}
                 PROVE  LET m == PhotoFrom(view[s])
                        IN /\ view' = view /\ durable' = durable
                           /\ PhotoFrom(durable[s]) = m
                           /\ IF Status(c) = "ok" THEN m = n
                              ELSE m \in Before(n, "snap", s, {"ok", "500", "error"})
        BY <1>1, <1>2 DEF SnapAnswerTrue, Ended, PhotoFrom
    <2>1. /\ req[c].op = "snap" /\ req[c].session = s /\ req[c].capture \in Captures
          /\ madeBy[req[c].capture] = n /\ s \in Sessions
      BY HandlerFacts
    <2>2. CASE Status(c) = "ok"
      <3>1. pc[c] = "reply"
        BY <2>2, StatusTells
      <3>2. k = req[c].capture /\ k # NoCapture
        BY <2>1, <3>1, NoCaptureAssumption DEF ClientIndInv, IndInv, PhotoHandedOver
      <3> QED  BY <1>4, <2>1, <2>2, <3>2
    <2>3. CASE Status(c) = "409"
      <3>1. pc[c] = "submit" /\ view[s].step \in {"awaitResponse", "done"}
        BY <2>1, <2>3, StatusTells
      <3>2. k # NoCapture
        BY <1>1, <2>1, <3>1 DEF IndInv, PhotoFromSubmission
      <3>3. madeBy[k] # n
        <4>1. sent[n].op # "init"
          OBVIOUS
        <4>2. k \in PhotoOf(s) /\ k \in Captures /\ s \in Sessions
          BY <1>4, <3>2, <4>1
        <4> QED
          BY <2>1, <3>1, <4>2 DEF ClientIndInv, SessionPhotoIsSubmitted, MadeByOne
      <3>4. madeBy[k] \in Before(n, "snap", s, {"ok", "500", "error"})
        BY <1>1, <1>3, <1>4, <3>2, <3>3 DEF Before, Ended, Outcomes
      <3> QED  BY <1>4, <2>3, <3>2, <3>4
    <2> QED  BY <2>2, <2>3
  <1>6. ConflictHasCause(n)'
    <2> SUFFICES ASSUME sent[n].op = "respond", Status(c) = "409",
                        NEW m \in Before(n, "snap", s, {"ok", "409"})
                 PROVE  Before(n, "respond", s, {"ok", "500", "502", "error"}) # {}
        BY <1>1, <1>2 DEF ConflictHasCause, Ended
    <2>1. /\ req[c].op = "response" /\ req[c].session = s /\ s \in Sessions
      BY HandlerFacts
    <2>2. pc[c] = "respond" /\ view[s].step \in {"awaitSnap", "done"}
      BY <2>1, StatusTells
    <2>3. /\ m \in 1..Len(sent) /\ m \in Calls /\ m # 0 /\ sent[m].session = s
          /\ Ended(m, "snap", {"ok", "409"})
      BY <1>1, ClientFacts DEF Before, Ended
    <2>4. PhotoFrom(view[s]) # 0
      <3>1. SnapAnswerTrue(m)
        BY <2>3 DEF ClientIndInv, SnapAnswersStayTrue
      <3> QED  BY <2>3, <3>1 DEF SnapAnswerTrue, Before
    <2>5. view[s].step = "done"
      BY <1>1, <2>1, <2>2, <2>4 DEF PhotoFrom, IndInv, PhotoFromSubmission
    <2>6. PICK l \in 1..Len(sent) : Took(l, s)
      BY <2>1, <2>5 DEF ClientIndInv, DoneByResponse
    <2>7. l # n
      BY <2>2, <2>6 DEF Took
    <2>8. l \in Before(n, "respond", s, {"ok", "500", "502", "error"})
      BY <1>1, <1>3, <2>6, <2>7 DEF Took, Before, Ended, Outcomes
    <2> QED  BY <2>8
  <1>7. AnalysisOfOwnPhoto(n)'
    <2> SUFFICES ASSUME sent[n].op = "respond", Status(c) = "ok"
                 PROVE  /\ about'[n] \in Before(n, "snap", s, {"ok", "500", "error"})
                        /\ Before(n, "snap", s, {"ok"}) \subseteq {about'[n]}
                        /\ Before(n, "respond", s, {"ok"}) = {}
        BY <1>1, <1>2 DEF AnalysisOfOwnPhoto, Ended
    <2>1. /\ req[c].op = "response" /\ req[c].session = s /\ s \in Sessions
          /\ pc[c] = "reply" /\ Taking(c)
      BY HandlerFacts, StatusTells DEF Taking
    <2>2. /\ req[c].capture \in Captures /\ k = req[c].capture /\ k # NoCapture
          /\ \A m \in 1..Len(sent) :
               Ended(m, "respond", {"ok"}) => sent[m].session # s
      BY <2>1, RecordShapes, NoCaptureAssumption DEF ClientIndInv, TakenOnce
    <2>3. about'[n] = madeBy[k] /\ madeBy[k] # n
      <3>1. about'[n] = madeBy[req[c].capture]
        BY <2>1, HearFacts
      <3>2. sent[n].op # "init" /\ sent[madeBy[k]].op = "snap"
        BY <1>4, <2>2
      <3> QED  BY <2>2, <3>1, <3>2
    <2>4. about'[n] \in Before(n, "snap", s, {"ok", "500", "error"})
      BY <1>1, <1>3, <1>4, <2>2, <2>3 DEF Before, Ended, Outcomes
    <2>5. ASSUME NEW m \in Before(n, "snap", s, {"ok"})
          PROVE  m = about'[n]
      <3>1. /\ m \in Calls /\ sent[m].session = s /\ outcome[m] = "ok"
            /\ Ended(m, "snap", {"ok", "409"})
        BY <1>1, ClientFacts DEF Before, Ended
      <3>2. PhotoFrom(view[s]) = m
        BY <3>1 DEF ClientIndInv, SnapAnswersStayTrue, SnapAnswerTrue
      <3> QED  BY <1>4, <2>2, <2>3, <3>2
    <2>6. Before(n, "respond", s, {"ok"}) = {}
      BY <1>1, <2>2 DEF Before, Ended
    <2> QED  BY <2>4, <2>5, <2>6
  <1> QED  BY <1>5, <1>6, <1>7

\* A handler goes on or ends, and the client may hear its answer.
LEMMA StepHandler ==
  ASSUME ClientIndInv, NEW c \in Callers, Work(c) \/ Answer(c)
  PROVE  ClientIndInv'
  <1> DEFINE s == req[c].session
             k == req[c].capture
             ends == pc'[c] = "idle"
  <1>1. /\ Proceed(c) \/ Model(c)
        /\ sent' = sent /\ network' = network /\ madeBy' = madeBy
        /\ owner' = [owner EXCEPT ![c] = IF ends THEN 0 ELSE owner[c]]
        /\ \/ UNCHANGED <<waiting, replaying, outcome, snapSessionID, about>>
           \/ ends /\ Hear(c)
    BY DEF Work, Answer, Hear, client, ClientIndInv, ClientTypeOK
  <1>2. PICK n : n = owner[c]
    OBVIOUS
  <1>3. /\ ClientTypeOK /\ IndInv /\ pc[c] # "idle" /\ HandlerStep(c)
        /\ n \in 1..Len(sent) /\ n \in Calls /\ n # 0 /\ n \notin network
        /\ s \in Sessions
    BY <1>1, <1>2, HandlerIsBusy, HandlerSteps, HandlerFacts DEF ClientIndInv
  <1>4. IndInv' /\ [Next]_vars
    BY <1>1, <1>3, IndStep DEF Next
  <1>5. \A t \in Sessions :
          /\ view[t].step # "none" => view'[t].step # "none"
          /\ view[t].step = "done" => view'[t] = view[t]
    BY <1>3, <1>4, SessionsGoOn
  <1>6. /\ \A m \in Calls :
             \/ outcome'[m] = outcome[m]
             \/ m = n /\ ends /\ outcome'[m] = Status(c)
        /\ \/ waiting' = waiting /\ outcome' = outcome
           \/ waiting = n /\ waiting' = 0 /\ outcome' = [outcome EXCEPT ![n] = Status(c)]
        /\ \A m \in Calls : m # waiting => outcome'[m] = outcome[m] /\ about'[m] = about[m]
        /\ Status(c) \in {"ok", "409", "500", "502"}
    BY <1>1, <1>2, <1>3, HearFacts, StatusTells DEF ClientTypeOK
  <1>7. ClientTypeOK'
    <2>1. owner' \in [Callers -> 0..Len(sent)]
      BY <1>1, <1>3 DEF ClientTypeOK
    <2>2. /\ outcome' \in [Calls -> Outcomes] /\ about' \in [Calls -> 0..Len(sent)]
          /\ waiting' \in {0, Len(sent)} /\ replaying' \in BOOLEAN
          /\ snapSessionID' \in Sessions \cup {NoSessionID}
      BY <1>1, <1>3, HearFacts DEF ClientTypeOK
    <2> QED  BY <1>1, <1>3, <2>1, <2>2 DEF ClientTypeOK, Calls
  <1>8. /\ \A d \in Callers \ {c} : /\ pc'[d] = pc[d] /\ req'[d] = req[d]
                                    /\ owner'[d] = owner[d] /\ owner[d] # n
        /\ owner'[c] = IF ends THEN 0 ELSE n
    BY <1>1, <1>2, <1>3, HandlerFacts DEF HandlerStep, ClientTypeOK
  <1>9. OneHandlerPerRequest'
    <2>1. \A d \in Callers : owner'[d] = 0 <=> pc'[d] = "idle"
      BY <1>3, <1>8 DEF ClientIndInv, OneHandlerPerRequest
    <2>2. 0 \notin network
      BY <1>3 DEF ClientTypeOK
    <2>3. \A d \in Callers : owner'[d] \notin network
      BY <1>3, <1>8, <2>2 DEF ClientIndInv, OneHandlerPerRequest
    <2>4. \A d, e \in Callers : owner'[d] = owner'[e] /\ owner'[d] # 0 => d = e
      BY <1>8 DEF ClientIndInv, OneHandlerPerRequest
    <2> QED  BY <1>1, <2>1, <2>3, <2>4 DEF OneHandlerPerRequest
  <1>10. HandlesItsRequest'
    BY <1>1, <1>2, <1>3, <1>8 DEF ClientIndInv, HandlesItsRequest, HandlerStep
  <1>11. OutcomeInTime'
    <2>1. \A m \in Calls : outcome'[m] = "none" <=> m = waiting' \/ m > Len(sent)
      <3>1. \A m \in Calls : m \in Nat /\ m # 0
        BY DEF Calls
      <3>2. \A m \in Calls : outcome[m] = "none" <=> m = waiting \/ m > Len(sent)
        BY DEF ClientIndInv, OutcomeInTime
      <3>3. ~(n > Len(sent))
        BY <1>3, ClientFacts
      <3> QED  BY <1>3, <1>6, <3>1, <3>2, <3>3 DEF ClientTypeOK
    <2>2. ASSUME NEW m \in Calls, m \in network \/ \E d \in Callers : owner'[d] = m
          PROVE  outcome'[m] \in {"none", "error"}
      <3>1. m \in network \/ \E d \in Callers : owner[d] = m
        BY <1>2, <1>3, <1>8, <2>2 DEF Calls
      <3>2. m # 0
        BY DEF Calls
      <3>3. outcome[m] \in {"none", "error"}
        BY <3>1, <3>2 DEF ClientIndInv, OutcomeInTime
      <3>4. m = n => ~ends
        BY <1>3, <1>8, <2>2
      <3> QED  BY <1>6, <3>3, <3>4
    <2>3. /\ \A m \in network : m \in Calls
          /\ \A d \in Callers : owner'[d] # 0 => owner'[d] \in Calls
      BY <1>1, <1>3, <1>7, ClientFacts DEF ClientTypeOK
    <2>4. Calls' = Calls
      BY DEF Calls
    <2> QED  BY <1>1, <2>1, <2>2, <2>3, <2>4 DEF OutcomeInTime
  <1>12. IdsAreKnown'
    <2>1. snapSessionID' # NoSessionID => view'[snapSessionID'].step # "none"
      <3>1. CASE snapSessionID' = snapSessionID
        BY <1>3, <1>5, <3>1 DEF ClientIndInv, IdsAreKnown, ClientTypeOK
      <3>2. CASE snapSessionID' = s /\ req[c].op = "init" /\ pc[c] = "reply"
        BY <1>3, <1>5, <3>2 DEF ClientIndInv, IdsAreKnown
      <3> QED  BY <1>1, <1>3, <3>1, <3>2, HearFacts
    <2>2. \A m \in 1..Len(sent) :
            sent[m].op # "init" => view'[sent[m].session].step # "none"
      BY <1>3, <1>5, ClientFacts DEF ClientIndInv, IdsAreKnown
    <2>3. ASSUME NEW d \in Callers, req'[d].op = "init", pc'[d] = "reply"
          PROVE  view'[req'[d].session].step # "none"
      <3>1. CASE d = c
        BY <1>3, <2>3, <3>1 DEF HandlerStep
      <3>2. CASE d # c
        <4>1. req[d] = req'[d] /\ pc[d] = pc'[d] /\ req[d].session \in Sessions
          BY <1>8, <2>3, <3>2, HandlerFacts
        <4> QED  BY <1>5, <2>3, <4>1 DEF ClientIndInv, IdsAreKnown
      <3> QED  BY <3>1, <3>2
    <2> QED  BY <1>1, <2>1, <2>2, <2>3 DEF IdsAreKnown
  <1>13. MadeByOne'
    BY <1>1, <1>3 DEF ClientIndInv, MadeByOne, HandlerStep
  <1>14. SessionPhotoIsSubmitted'
    <2>1. \A t \in Sessions : PhotoOf(t)' \subseteq Captures
      BY <1>4 DEF PhotoOf, IndInv, TypeOK, Record
    <2>2. req[c].op = "snap" => k \in Captures /\ madeBy[k] = n /\ sent[n].session = s
      BY <1>2, <1>3, HandlerFacts
    <2>3. sent[n].op = "snap" => req[c].op = "snap"
      BY <1>2, <1>3, HandlerFacts
    <2>4. pc[c] = "submit" => req[c].op = "snap"
      BY <1>3, HandlerFacts DEF Fits
    <2>5. ASSUME NEW t \in Sessions, NEW j \in PhotoOf(t)'
          PROVE  /\ madeBy[j] # 0 /\ sent[madeBy[j]].session = t
                 /\ outcome'[madeBy[j]] \notin {"404", "409", "502"}
      <3>1. CASE j \in PhotoOf(t)
        <4>1. /\ madeBy[j] # 0 /\ sent[madeBy[j]].session = t
              /\ sent[madeBy[j]].op = "snap"
              /\ outcome[madeBy[j]] \notin {"404", "409", "502"}
          BY <2>1, <2>5, <3>1 DEF ClientIndInv, SessionPhotoIsSubmitted, MadeByOne
        <4>2. madeBy[j] \in Calls
          BY <1>3, <2>1, <2>5, <4>1, ClientFacts DEF ClientTypeOK
        <4>3. ASSUME madeBy[j] = n
              PROVE  Status(c) \notin {"404", "409", "502"}
          <5>1. req[c].op = "snap" /\ k = j
            BY <2>1, <2>2, <2>3, <2>5, <4>1, <4>3 DEF ClientIndInv, MadeByOne
          <5>2. pc[c] # "submit"
            BY <2>5, <3>1, <5>1 DEF ClientIndInv, SessionPhotoIsSubmitted
          <5>3. pc[c] # "analyzing"
            BY <1>3, <5>1, HandlerFacts DEF Fits
          <5> QED  BY <1>3, <5>1, <5>2, <5>3, StatusTells
        <4> QED  BY <1>6, <4>1, <4>2, <4>3
      <3>2. CASE t = s /\ j = k /\ pc[c] = "submit" /\ view[s].step = "awaitSnap"
        <4>1. Status(c) \notin {"404", "409", "502"}
          BY <1>3, <3>2, StatusTells
        <4>2. outcome[n] \in {"none", "error"}
          BY <1>2, <1>3, HandlerFacts
        <4> QED  BY <1>3, <1>6, <2>2, <2>4, <3>2, <4>1, <4>2
      <3> QED  BY <1>3, <2>5, <3>1, <3>2 DEF HandlerStep
    <2>6. ASSUME NEW d \in Callers, req'[d].op = "snap",
                 pc'[d] \in {"save", "index", "submit"}, NEW t \in Sessions
          PROVE  req'[d].capture \notin PhotoOf(t)'
      <3>1. CASE d = c
        <4>1. /\ ~ends /\ pc'[c] # "reply" /\ req[c].op = "snap" /\ req'[c].capture = k
              /\ pc[c] \in {"save", "index", "submit"}
          BY <1>3, <2>6, <3>1 DEF HandlerStep
        <4>2. k \notin PhotoOf(t)
          BY <4>1 DEF ClientIndInv, SessionPhotoIsSubmitted
        <4>3. \A j \in PhotoOf(t)' : j \in PhotoOf(t)
          BY <1>3, <4>1 DEF HandlerStep
        <4> QED  BY <3>1, <4>1, <4>2, <4>3
      <3>2. CASE d # c
        <4>1. /\ req'[d] = req[d] /\ pc'[d] = pc[d] /\ owner[d] # n
              /\ req[d].op = "snap" /\ pc[d] \in {"save", "index", "submit"}
          BY <1>8, <2>6, <3>2
        <4>2. req[d].capture \notin PhotoOf(t)
          BY <4>1 DEF ClientIndInv, SessionPhotoIsSubmitted
        <4>3. madeBy[req[d].capture] = owner[d]
          BY <4>1, HandlerFacts
        <4>4. pc[c] = "submit" => req[d].capture # k
          BY <2>2, <2>4, <4>1, <4>3
        <4> QED  BY <1>3, <4>1, <4>2, <4>4 DEF HandlerStep
      <3> QED  BY <3>1, <3>2
    <2> QED
      BY <1>1, <2>5, <2>6 DEF SessionPhotoIsSubmitted
  <1>15. DoneByResponse'
    <2>1. ASSUME NEW t \in Sessions, "done" \in {view'[t].step, durable'[t].step}
          PROVE  \E m \in 1..Len(sent) : Took(m, t)'
      <3>1. CASE "done" \in {view[t].step, durable[t].step}
        <4>1. PICK m \in 1..Len(sent) : Took(m, t)
          BY <3>1 DEF ClientIndInv, DoneByResponse
        <4>2. m \in Calls
          BY <1>3, ClientFacts
        <4>3. m = n => pc[c] # "respond" /\ req[c].op = "response"
          BY <1>2, <1>3, <4>1, HandlerFacts DEF Took
        <4>4. m = n => Status(c) \notin {"404", "409"}
          BY <1>3, <4>3, StatusTells
        <4>5. outcome'[m] \notin {"404", "409"}
          BY <1>6, <4>1, <4>2, <4>4 DEF Took
        <4>6. \A d \in Callers : owner'[d] = m => pc'[d] # "respond"
          BY <1>3, <1>8, <4>1 DEF Took, HandlerStep
        <4> QED  BY <1>1, <4>1, <4>5, <4>6 DEF Took
      <3>2. CASE t = s /\ pc[c] = "respond" /\ view[s].step = "awaitResponse"
        <4>1. sent[n].op = "respond" /\ sent[n].session = s /\ outcome[n] \in {"none", "error"}
          BY <1>2, <1>3, <3>2, HandlerFacts DEF Fits
        <4>2. Status(c) \notin {"404", "409"}
          BY <1>3, <3>2, StatusTells
        <4>3. outcome'[n] \notin {"404", "409"}
          BY <1>3, <1>6, <4>1, <4>2
        <4>4. \A d \in Callers : owner'[d] = n => pc'[d] # "respond"
          BY <1>3, <1>8 DEF HandlerStep
        <4> QED  BY <1>1, <1>3, <3>2, <4>1, <4>3, <4>4 DEF Took
      <3> QED  BY <1>3, <2>1, <3>1, <3>2 DEF HandlerStep
    <2> QED  BY <1>1, <2>1 DEF DoneByResponse
  <1>16. TakenOnce'
    <2>1. ASSUME NEW m \in 1..Len(sent), Ended(m, "respond", {"ok"})'
          PROVE  \/ Ended(m, "respond", {"ok"})
                 \/ m = n /\ ends /\ Taking(c) /\ sent[m].session = s
      <3>1. m \in Calls /\ m \in DOMAIN sent /\ sent[m].op = "respond" /\ outcome'[m] = "ok"
        BY <1>1, <1>3, <2>1, ClientFacts DEF Ended
      <3>2. CASE outcome'[m] = outcome[m]
        BY <3>1, <3>2 DEF Ended
      <3>3. CASE m = n /\ ends /\ outcome'[m] = Status(c)
        BY <1>2, <1>3, <3>1, <3>3, HandlerFacts, StatusTells DEF Taking
      <3> QED  BY <1>6, <3>1, <3>2, <3>3
    <2>2. ASSUME NEW d \in Callers, Taking(d)
          PROVE  /\ req[d].session \in Sessions /\ view[req[d].session].step = "done"
                 /\ req[d].capture \in Captures
                 /\ view[req[d].session] = Finished(Submitted(req[d].capture))
                 /\ view'[req[d].session] = view[req[d].session]
      <3>1. pc[d] # "idle"
        BY <2>2 DEF Taking
      <3>2. req[d].session \in Sessions
        BY <3>1, HandlerFacts
      <3>3. /\ req[d].capture \in Captures
            /\ view[req[d].session] = Finished(Submitted(req[d].capture))
        BY <2>2 DEF ClientIndInv, TakenOnce
      <3> QED  BY <1>5, <3>2, <3>3, RecordShapes
    <2>3. ASSUME NEW d \in Callers, Taking(d)'
          PROVE  \/ Taking(d) /\ req'[d] = req[d] /\ (d = c => ~ends)
                 \/ /\ d = c /\ req'[c].session = s /\ view[s].step = "awaitResponse" /\ ~ends
                    /\ view'[s] = Finished(view[s]) /\ req'[c].capture = view[s].capture
      BY <1>3, <1>8, <2>3 DEF HandlerStep, Taking
    <2>4. ASSUME view[s].step = "awaitResponse"
          PROVE  view[s].capture \in Captures /\ view[s] = Submitted(view[s].capture)
      BY <1>3, <2>4, RecordEqual DEF IndInv, TypeOK, PhotoFromSubmission
    <2>5. \A m \in 1..Len(sent) :
            Ended(m, "respond", {"ok"}) =>
              sent[m].session \in Sessions /\ view[sent[m].session].step = "done"
      BY <1>3, ClientFacts DEF ClientIndInv, TakenOnce, Ended
    <2>6. ASSUME NEW d \in Callers, Taking(d)'
          PROVE  /\ req'[d].capture \in Captures
                 /\ view'[req'[d].session] = Finished(Submitted(req'[d].capture))
      BY <2>2, <2>3, <2>4, <2>6
    <2>7. ASSUME NEW d \in Callers, Taking(d)',
                 NEW m \in 1..Len(sent), Ended(m, "respond", {"ok"})'
          PROVE  sent[m].session # req'[d].session
      <3>1. CASE Ended(m, "respond", {"ok"})
        BY <2>3, <2>5, <2>7, <3>1 DEF ClientIndInv, TakenOnce
      <3>2. CASE m = n /\ ends /\ Taking(c) /\ sent[m].session = s
        BY <2>3, <2>7, <3>2 DEF ClientIndInv, TakenOnce
      <3> QED  BY <2>1, <2>7, <3>1, <3>2
    <2>8. ASSUME NEW d \in Callers, NEW e \in Callers, Taking(d)', Taking(e)',
                 req'[d].session = req'[e].session
          PROVE  d = e
      BY <2>2, <2>3, <2>8 DEF ClientIndInv, TakenOnce
    <2>9. ASSUME NEW m \in 1..Len(sent), Ended(m, "respond", {"ok"})'
          PROVE  view'[sent[m].session].step = "done"
      BY <1>5, <2>1, <2>2, <2>5, <2>9
    <2> QED  BY <1>1, <2>6, <2>7, <2>8, <2>9 DEF TakenOnce
  <1>17. PastStays
    BY <1>1, <1>3, <1>6, ClientFacts DEF PastStays
  <1>18. AnswersTrue'
    <2>1. CASE outcome' = outcome
      <3>1. \A m \in Calls :
              m = waiting \/ m \notin 1..Len(sent) => outcome'[m] \in {"none", "error"}
        BY <1>3, <2>1, ClientFacts DEF ClientIndInv, OutcomeInTime, Calls
      <3> QED  BY <1>4, <1>7, <1>17, <3>1, NoNewAnswer
    <2>2. CASE ends /\ Hear(c)
      <3>1. Status(c) = "ok" \/ Status(c) = "409" => UNCHANGED <<view, durable>>
        BY <1>3, StatusTells DEF HandlerStep
      <3>2. SnapAnswerTrue(n)' /\ ConflictHasCause(n)' /\ AnalysisOfOwnPhoto(n)'
        BY <1>1, <1>2, <1>3, <1>7, <1>17, <2>2, <3>1, HeardIsTrue
      <3>3. waiting = n
        BY <1>2, <1>3, <2>2, HearFacts
      <3>4. ASSUME NEW m \in Calls
            PROVE  /\ SnapAnswerTrue(m)' /\ ConflictHasCause(m)' /\ AnalysisOfOwnPhoto(m)'
                   /\ outcome'[m] # "404"
        <4>1. CASE m = n
          BY <1>3, <1>6, <3>2, <4>1, StatusTells DEF ClientIndInv, NeverNotFound
        <4>2. CASE m # n /\ m \in 1..Len(sent)
          <5>1. outcome'[m] # "404"
            BY <1>6, <4>2 DEF ClientIndInv, NeverNotFound
          <5> QED  BY <1>4, <1>7, <1>17, <3>3, <4>2, <5>1, AnswersStay
        <4>3. CASE m \notin 1..Len(sent)
          <5>1. outcome'[m] = "none"
            BY <1>3, <1>6, <4>3, ClientFacts DEF ClientIndInv, OutcomeInTime, Calls
          <5> QED
            BY <5>1 DEF SnapAnswerTrue, ConflictHasCause, AnalysisOfOwnPhoto, Ended
        <4> QED  BY <4>1, <4>2, <4>3
      <3>5. Calls' = Calls
        BY DEF Calls
      <3> QED
        BY <3>4, <3>5
           DEF AnswersTrue, SnapAnswersStayTrue, ResponseConflictHasCause, NeverNotFound,
               AnalysisIsOfOwnPhoto
    <2> QED  BY <1>1, <2>1, <2>2
  <1> QED
    BY <1>4, <1>7, <1>9, <1>10, <1>11, <1>12, <1>13, <1>14, <1>15, <1>16, <1>18
       DEF ClientIndInv, AnswersTrue

\* The process stops, with its handlers, or starts, and reads the files back.
LEMMA StepProcess ==
  ASSUME ClientIndInv, Process
  PROVE  ClientIndInv'
  <1>1. /\ Crash \/ Shutdown \/ Drained \/ DrainTimeout \/ Start \/ StartRefused
        /\ owner' = [c \in Callers |-> IF pc'[c] = "idle" THEN 0 ELSE owner[c]]
        /\ UNCHANGED <<client, network, madeBy, about>>
        /\ ClientTypeOK /\ IndInv /\ FilesFollow
    BY FilesDoFollow DEF Process, ClientIndInv
  <1>2. IndInv' /\ [Next]_vars
    BY <1>1, IndStep DEF Next
  <1>3. /\ sent' = sent /\ waiting' = waiting /\ replaying' = replaying
        /\ outcome' = outcome
        /\ snapSessionID' = snapSessionID /\ network' = network /\ madeBy' = madeBy
        /\ about' = about /\ drawn' = drawn /\ durable' = durable
    BY <1>1
       DEF client, Crash, Shutdown, Drained, DrainTimeout, Exit, Start, StartRefused,
           vars, stores, history
  <1>4. \A c \in Callers :
          \/ pc'[c] = pc[c] /\ req'[c] = req[c]
          \/ pc'[c] = "idle" /\ req'[c].op = "none"
    BY <1>1
       DEF Crash, Shutdown, Drained, DrainTimeout, Exit, Start, StartRefused, vars,
           NoRequest
  <1>5. \A c \in Callers : pc[c] = "idle" <=> owner[c] = 0
    BY DEF ClientIndInv, OneHandlerPerRequest
  <1>6. \A c \in Callers :
          \/ pc'[c] = pc[c] /\ req'[c] = req[c] /\ owner'[c] = owner[c]
          \/ pc'[c] = "idle" /\ req'[c].op = "none" /\ owner'[c] = 0
    BY <1>1, <1>4, <1>5 DEF ClientTypeOK
  <1>7. \/ view' = view
        \/ view' = durable /\ \A c \in Callers : pc'[c] = "idle" /\ req'[c].op = "none"
    <2>1. CASE Start
      BY <1>1, <2>1 DEF Start, IndInv, WorkFits, Fits
    <2>2. CASE Crash \/ Shutdown \/ Drained \/ DrainTimeout \/ StartRefused
      BY <2>2
         DEF Crash, Shutdown, Drained, DrainTimeout, Exit, StartRefused, vars, stores
    <2> QED  BY <1>1, <2>1, <2>2
  <1>8. \A s \in Sessions :
          /\ view[s].step # "none" => view'[s].step # "none"
          /\ view[s].step = "done" => view'[s] = view[s]
    BY <1>1, <1>2, SessionsGoOn
  <1>9. ClientTypeOK'
    <2>1. owner' \in [Callers -> 0..Len(sent)]
      BY <1>1 DEF ClientTypeOK
    <2> QED  BY <1>1, <1>3, <2>1 DEF ClientTypeOK, Calls
  <1>10. OneHandlerPerRequest'
    <2>1. 0 \notin network
      BY <1>1 DEF ClientTypeOK
    <2> QED  BY <1>3, <1>6, <2>1 DEF ClientIndInv, OneHandlerPerRequest
  <1>11. HandlesItsRequest'
    BY <1>3, <1>6 DEF ClientIndInv, HandlesItsRequest
  <1>12. OutcomeInTime'
    BY <1>3, <1>6 DEF ClientIndInv, OutcomeInTime, Calls
  <1>13. IdsAreKnown'
    <2>1. \A n \in 1..Len(sent) : sent[n].op # "init" => sent[n].session \in Sessions
      BY <1>1, ClientFacts
    <2>2. ASSUME NEW c \in Callers, req'[c].op = "init", pc'[c] = "reply"
          PROVE  view'[req'[c].session].step # "none"
      BY <1>6, <1>7, <2>2 DEF ClientIndInv, IdsAreKnown
    <2> QED
      BY <1>1, <1>3, <1>8, <2>1, <2>2 DEF ClientIndInv, IdsAreKnown, ClientTypeOK
  <1>14. MadeByOne'
    BY <1>3 DEF ClientIndInv, MadeByOne
  <1>15. SessionPhotoIsSubmitted'
    <2>1. \A s \in Sessions : PhotoOf(s)' \subseteq PhotoOf(s)
      BY <1>3, <1>7 DEF PhotoOf
    <2>2. ASSUME NEW c \in Callers, req'[c].op = "snap",
                 pc'[c] \in {"save", "index", "submit"}
          PROVE  \A s \in Sessions : req'[c].capture \notin PhotoOf(s)'
      BY <1>6, <2>1, <2>2 DEF ClientIndInv, SessionPhotoIsSubmitted
    <2> QED
      BY <1>3, <2>1, <2>2 DEF ClientIndInv, SessionPhotoIsSubmitted
  <1>16. DoneByResponse'
    <2>1. ASSUME NEW s \in Sessions, NEW m \in 1..Len(sent), Took(m, s)
          PROVE  Took(m, s)'
      <3>1. m # 0
        BY <1>1, ClientFacts
      <3> QED  BY <1>3, <1>6, <2>1, <3>1 DEF Took
    <2>2. \A s \in Sessions :
            "done" \in {view'[s].step, durable'[s].step} =>
              "done" \in {view[s].step, durable[s].step}
      BY <1>3, <1>7
    <2> QED  BY <1>3, <2>1, <2>2 DEF ClientIndInv, DoneByResponse
  <1>17. TakenOnce'
    <2>1. \A c \in Callers : Taking(c)' => Taking(c) /\ req'[c] = req[c] /\ view' = view
      BY <1>6, <1>7 DEF Taking
    <2>2. \A n \in 1..Len(sent) :
            /\ Ended(n, "respond", {"ok"})' <=> Ended(n, "respond", {"ok"})
            /\ Ended(n, "respond", {"ok"}) => sent[n].session \in Sessions
      BY <1>1, <1>3, ClientFacts DEF Ended
    <2> QED  BY <1>3, <1>8, <2>1, <2>2 DEF ClientIndInv, TakenOnce
  <1>18. PastStays
    BY <1>3 DEF PastStays
  <1>19. \A n \in Calls :
           n = waiting \/ n \notin 1..Len(sent) => outcome'[n] \in {"none", "error"}
    BY <1>1, <1>3, ClientFacts DEF ClientIndInv, OutcomeInTime, Calls
  <1>20. AnswersTrue'
    BY <1>2, <1>9, <1>18, <1>19, NoNewAnswer
  <1> QED
    BY <1>2, <1>9, <1>10, <1>11, <1>12, <1>13, <1>14, <1>15, <1>16, <1>17, <1>20
       DEF ClientIndInv, AnswersTrue

-----------------------------------------------------------------------------
(***************************************************************************)
(* The theorems                                                            *)
(***************************************************************************)

\* Client and server begin in the invariant.
LEMMA ClientIndInit == ClientInit => ClientIndInv
  <1> SUFFICES ASSUME ClientInit PROVE ClientIndInv
      OBVIOUS
  <1>1. /\ sent = <<>> /\ Len(sent) = 0 /\ DOMAIN sent = {} /\ 1..Len(sent) = {}
        /\ waiting = 0 /\ network = {} /\ snapSessionID = NoSessionID
        /\ owner = [c \in Callers |-> 0] /\ madeBy = [k \in Captures |-> 0]
        /\ outcome = [n \in Calls |-> "none"] /\ about = [n \in Calls |-> 0]
    BY DEF ClientInit
  <1>9. replaying \in BOOLEAN
    BY DEF ClientInit
  <1>2. IndInv
    BY IndInit DEF ClientInit
  <1>3. ClientTypeOK
    BY <1>1, <1>9, MaxCallsAssumption DEF ClientTypeOK, Outcomes
  <1>4. /\ pc = [c \in Callers |-> "idle"] /\ req = [c \in Callers |-> NoRequest]
        /\ view = [s \in Sessions |-> NoSession]
        /\ durable = [s \in Sessions |-> NoSession] /\ NoRequest.op = "none"
    BY DEF ClientInit, Init, NoRequest
  <1>5. OneHandlerPerRequest /\ HandlesItsRequest /\ IdsAreKnown /\ MadeByOne
    BY <1>1, <1>4
       DEF OneHandlerPerRequest, HandlesItsRequest, IdsAreKnown, MadeByOne
  <1>6. OutcomeInTime
    BY <1>1 DEF OutcomeInTime, Calls
  <1>7. SessionPhotoIsSubmitted /\ DoneByResponse /\ TakenOnce
    BY <1>1, <1>4, RecordShapes
       DEF SessionPhotoIsSubmitted, PhotoOf, DoneByResponse, TakenOnce, Taking
  <1>8. AnswersTrue
    BY <1>1
       DEF AnswersTrue, SnapAnswersStayTrue, ResponseConflictHasCause, NeverNotFound,
           AnalysisIsOfOwnPhoto, SnapAnswerTrue, ConflictHasCause, AnalysisOfOwnPhoto, Ended
  <1> QED
    BY <1>2, <1>3, <1>5, <1>6, <1>7, <1>8 DEF ClientIndInv, AnswersTrue

\* Every step of the client, the network or the server keeps the invariant.
LEMMA ClientIndStep == ClientIndInv /\ [ClientNext]_clientVars => ClientIndInv'
  <1> SUFFICES ASSUME ClientIndInv, [ClientNext]_clientVars PROVE ClientIndInv'
      OBVIOUS
  <1>1. ClientTypeOK /\ IdsAreKnown
    BY DEF ClientIndInv
  <1>2. CASE RunInit
    BY <1>2, StepDo DEF RunInit, SentRequest
  <1>3. ASSUME NEW p \in Photos, RunSnap(p)
        PROVE  ClientIndInv'
    BY <1>1, <1>3, StepDo DEF RunSnap, SentRequest, ClientTypeOK, IdsAreKnown
  <1>4. CASE RunRespond
    BY <1>1, <1>4, StepDo DEF RunRespond, SentRequest, ClientTypeOK, IdsAreKnown
  <1>5. ASSUME NEW n \in Calls, Replay(n)
        PROVE  ClientIndInv'
    BY <1>1, <1>5, StepDo, ClientFacts DEF Replay, IdsAreKnown
  <1>6. CASE GiveUp \/ (\E n \in Calls : Lose(n)) \/ UNCHANGED clientVars
    BY <1>6, StepGiveUp
  <1>7. ASSUME NEW n \in Calls, NEW c \in Callers, Deliver(n, c)
        PROVE  ClientIndInv'
    BY <1>7, StepDeliver
  <1>8. ASSUME NEW c \in Callers, Work(c) \/ Answer(c)
        PROVE  ClientIndInv'
    BY <1>8, StepHandler
  <1>9. CASE Process
    BY <1>9, StepProcess
  <1> QED
    BY <1>2, <1>3, <1>4, <1>5, <1>6, <1>7, <1>8, <1>9 DEF ClientNext

\* The server the client talks to takes the steps of TutiServer and no others,
\* so that what is proved of TutiServer is true of it.
THEOREM ServerIsTutiServer == ClientSpec => Spec
  <1>1. ClientInit => Init
    BY DEF ClientInit
  <1>2. ASSUME ClientIndInv, [ClientNext]_clientVars
        PROVE  [Next]_vars
    <2>1. CASE UNCHANGED vars
      BY <2>1
    <2>2. ASSUME NEW n \in Calls, NEW c \in Callers, Deliver(n, c)
          PROVE  Next
      <3>1. n \in 1..Len(sent) /\ ClientTypeOK
        BY <2>2, <1>2 DEF Deliver, ClientIndInv, ClientTypeOK
      <3>2. Request(c)
        BY <2>2, <3>1, ClientFacts DEF Deliver, Request
      <3> QED  BY <3>2 DEF Next
    <2>3. ASSUME NEW c \in Callers, Work(c) \/ Answer(c)
          PROVE  Next
      BY <2>3 DEF Work, Answer, Next
    <2>4. CASE Process
      BY <2>4 DEF Process, Next
    <2> QED
      BY <1>2, <2>1, <2>2, <2>3, <2>4
         DEF ClientNext, RunInit, RunSnap, RunRespond, Replay, Do, GiveUp, Lose, clientVars
  <1>3. ClientSpec => []ClientIndInv
    BY ClientIndInit, ClientIndStep, PTL DEF ClientSpec
  <1> QED  BY <1>1, <1>2, <1>3, PTL DEF ClientSpec, Spec

\* What the client and the server know of each other, however many requests and
\* answers are lost and however often the process stops.
THEOREM ClientInvariance == ClientSpec => []ClientIndInv
  BY ClientIndInit, ClientIndStep, PTL DEF ClientSpec

\* What an answer of SubmitSnap said about the session's photo stays true.
THEOREM SubmittedStays == ClientSpec => []SnapAnswersStayTrue
  <1>1. ClientIndInv => SnapAnswersStayTrue
    BY DEF ClientIndInv
  <1> QED  BY <1>1, ClientInvariance, PTL

\* A response is turned down only if an earlier one took the session.
THEOREM ConflictsHaveCause == ClientSpec => []ResponseConflictHasCause
  <1>1. ClientIndInv => ResponseConflictHasCause
    BY DEF ClientIndInv
  <1> QED  BY <1>1, ClientInvariance, PTL

\* No session the client was given is ever "not found".
THEOREM GivenIsFound == ClientSpec => []NeverNotFound
  <1>1. ClientIndInv => NeverNotFound
    BY DEF ClientIndInv
  <1> QED  BY <1>1, ClientInvariance, PTL

\* An analysis is of the student's own photo, and a session shows one.
THEOREM OwnAnalysis == ClientSpec => []AnalysisIsOfOwnPhoto
  <1>1. ClientIndInv => AnalysisIsOfOwnPhoto
    BY DEF ClientIndInv
  <1> QED  BY <1>1, ClientInvariance, PTL
=============================================================================
