----------------------------- MODULE SnapClient -----------------------------
(***************************************************************************)
(* One student's client (tuti-tui/internal/api, with the commands init,    *)
(* snap and respond and the replay of internal/tui) and the server it      *)
(* talks to, over a network that loses requests and answers.               *)
(*                                                                         *)
(* The client makes one call at a time.  It gives up when its deadline     *)
(* passes or the connection breaks, and the server knows nothing of that:  *)
(* the request may still arrive, and its handler goes on.  The server is   *)
(* TutiServer, whose state and actions this module extends, with its       *)
(* crashes, restarts and failed writes.  Calls are numbered in the order   *)
(* they are made.                                                          *)
(***************************************************************************)
EXTENDS TutiServer

CONSTANTS
  Photos,       \* image files on the student's disk
  NoSessionID,  \* m.snapSessionID before the first Init was answered
  MaxCalls      \* bound: calls of the client

ASSUME NoSessionIDAssumption == NoSessionID \notin Sessions

ASSUME MaxCallsAssumption == MaxCalls \in Nat

VARIABLES
  sent,       \* every request made, in order; a replay is a copy of an earlier one
  waiting,    \* the call the client waits for, or 0
  replaying,  \* whether that call is a replay
  outcome,    \* how each call ended, as the client saw it: "none" yet, "ok", an
              \* error's status, or "error" without one: a deadline, a broken or
              \* refused connection, an answer cut short
  snapSessionID,  \* Model.snapSessionID
  network,    \* requests that have not reached the server
  owner,      \* the call each handler serves, or 0
  madeBy,     \* the call whose photo each capture holds, or 0
  about       \* the call whose photo an answered analysis is of, or 0

client == <<sent, waiting, replaying, outcome, snapSessionID>>

clientVars == <<vars, client, network, owner, madeBy, about>>

Calls == 1..MaxCalls

ClientInit ==
  /\ Init
  /\ sent = <<>> /\ waiting = 0 /\ replaying = FALSE
  /\ outcome = [n \in Calls |-> "none"]
  /\ snapSessionID = NoSessionID
  /\ network = {}
  /\ owner = [c \in Callers |-> 0]
  /\ madeBy = [k \in Captures |-> 0]
  /\ about = [n \in Calls |-> 0]

-----------------------------------------------------------------------------
\* Client.do sends a request, which the command init, snap or respond, or the
\* replay of an earlier one, asks it to.
Do(r, replay) ==
  /\ waiting = 0 /\ Len(sent) < MaxCalls
  /\ sent' = Append(sent, r)
  /\ waiting' = Len(sent) + 1
  /\ replaying' = replay
  /\ network' = network \cup {Len(sent) + 1}
  /\ UNCHANGED <<vars, outcome, snapSessionID, owner, madeBy, about>>

RunInit == Do([op |-> "init"], FALSE)

RunSnap(p) ==
  /\ snapSessionID # NoSessionID
  /\ Do([op |-> "snap", session |-> snapSessionID, photo |-> p], FALSE)

RunRespond ==
  /\ snapSessionID # NoSessionID
  /\ Do([op |-> "respond", session |-> snapSessionID], FALSE)

\* Client.Replay: the bytes of an earlier request once more, whatever became
\* of it.
Replay(n) == n \in DOMAIN sent /\ Do(sent[n], TRUE)

\* The call of the client ends as o.
Ends(o) ==
  /\ outcome' = [outcome EXCEPT ![waiting] = o]
  /\ waiting' = 0
  /\ replaying' = FALSE

\* ctx.Done() of shortTimeout or replayTimeout, or an error of the connection.
GiveUp ==
  /\ waiting # 0
  /\ Ends("error")
  /\ UNCHANGED <<vars, sent, snapSessionID, network, owner, madeBy, about>>

\* A request that never arrives.
Lose(n) ==
  /\ n \in network
  /\ network' = network \ {n}
  /\ UNCHANGED <<vars, client, owner, madeBy, about>>

-----------------------------------------------------------------------------
\* A request reaches a handler, however late.  A photo gets the capture id that
\* Store.Save is going to give it.
Deliver(n, c) ==
  LET r == sent[n]
  IN /\ n \in network
     /\ \/ /\ r.op = "init"
           /\ \E s \in Sessions : InitCall(c, s)
           /\ UNCHANGED madeBy
        \/ /\ r.op = "snap"
           /\ \E k \in Captures : /\ SubmitSnapCall(c, r.session, k)
                                  /\ madeBy' = [madeBy EXCEPT ![k] = n]
        \/ /\ r.op = "respond"
           /\ SubmitResponseCall(c, r.session)
           /\ UNCHANGED madeBy
     /\ network' = network \ {n}
     /\ owner' = [owner EXCEPT ![c] = n]
     /\ UNCHANGED <<client, about>>

\* A handler goes on, and has not ended.
Work(c) ==
  /\ Proceed(c) \/ Model(c)
  /\ pc'[c] # "idle"
  /\ UNCHANGED <<client, network, owner, madeBy, about>>

\* What a handler that ends where c is has written: writeProto, and
\* writeJSONError with the statuses of snap.go.
Status(c) ==
  CASE pc[c] = "reply" -> "ok"
    [] pc[c] = "analyzing" -> "502"
    [] pc[c] = "submit" /\ view[req[c].session].step = "none" -> "404"
    [] pc[c] = "submit" /\ view[req[c].session].step \notin {"none", "awaitSnap"} -> "409"
    [] pc[c] = "respond" /\ view[req[c].session].step = "none" -> "404"
    [] pc[c] = "respond" /\ view[req[c].session].step \notin {"none", "awaitResponse"} -> "409"
    [] OTHER -> "500"

\* The client reads the answer: the session that the command init opened becomes
\* the one the next commands are about, which a replay leaves as it is.
Hear(c) ==
  LET n == owner[c]
      r == req[c]
      ok == Status(c) = "ok"
  IN /\ waiting = n
     /\ Ends(Status(c))
     /\ snapSessionID' = IF ok /\ r.op = "init" /\ ~replaying
                         THEN r.session ELSE snapSessionID
     /\ about' = IF ok /\ r.op = "response"
                 THEN [about EXCEPT ![n] = madeBy[r.capture]]
                 ELSE about
     /\ UNCHANGED sent

\* A handler ends.  Its client reads the answer, or no longer waits, or goes on
\* waiting for an answer that is lost (WriteTimeout closes the connection).
Answer(c) ==
  /\ Proceed(c) \/ Model(c)
  /\ pc'[c] = "idle"
  /\ Hear(c) \/ UNCHANGED <<client, about>>
  /\ owner' = [owner EXCEPT ![c] = 0]
  /\ UNCHANGED <<network, madeBy>>

-----------------------------------------------------------------------------
\* The process comes and goes; its handlers go with it.
Process ==
  /\ Crash \/ Shutdown \/ Drained \/ DrainTimeout \/ Start \/ StartRefused
  /\ owner' = [c \in Callers |-> IF pc'[c] = "idle" THEN 0 ELSE owner[c]]
  /\ UNCHANGED <<client, network, madeBy, about>>

ClientNext ==
  \/ RunInit
  \/ \E p \in Photos : RunSnap(p)
  \/ RunRespond
  \/ \E n \in Calls : Replay(n) \/ Lose(n)
  \/ GiveUp
  \/ \E n \in Calls, c \in Callers : Deliver(n, c)
  \/ \E c \in Callers : Work(c) \/ Answer(c)
  \/ Process

ClientSpec == ClientInit /\ [][ClientNext]_clientVars

-----------------------------------------------------------------------------
Ended(n, op, outcomes) ==
  n \in DOMAIN sent /\ sent[n].op = op /\ outcome[n] \in outcomes

Before(n, op, s, outcomes) ==
  {m \in 1..(n - 1) : Ended(m, op, outcomes) /\ sent[m].session = s}

\* The call whose photo a record holds, or 0.
PhotoFrom(r) == IF r.capture = NoCapture THEN 0 ELSE madeBy[r.capture]

\* What an answer of SubmitSnap said stays true, through lost answers, retries,
\* replays and restarts.  After a 200 the session holds the photo of that very
\* call; after a 409 it holds the photo of an earlier call of this client for
\* this session, one that the client has seen fail or saw succeed: the student
\* goes on with a photo of their own and need not start again.
\* The last whole record of the session's file names the same photo.
SnapAnswerTrue(n) ==
  Ended(n, "snap", {"ok", "409"}) =>
    LET s == sent[n].session
        m == PhotoFrom(view[s])
    IN /\ PhotoFrom(durable[s]) = m
       /\ IF outcome[n] = "ok" THEN m = n
                               ELSE m \in Before(n, "snap", s, {"ok", "500", "error"})

SnapAnswersStayTrue == \A n \in Calls : SnapAnswerTrue(n)

\* A 409 of SubmitSnapResponse, once the photo is known to be there, means that
\* an earlier response of this client took the session: it was shown its
\* analysis, or was told that the analysis failed, or did not wait for the end.
\* Nobody loses an analysis without a sign.
ConflictHasCause(n) ==
  /\ Ended(n, "respond", {"409"})
  /\ Before(n, "snap", sent[n].session, {"ok", "409"}) # {}
  => Before(n, "respond", sent[n].session, {"ok", "500", "502", "error"}) # {}

ResponseConflictHasCause == \A n \in Calls : ConflictHasCause(n)

\* A session whose id the client was given is never answered "not found"
\* (writeSnapSessionError), also after a restart.
NeverNotFound == \A n \in Calls : outcome[n] # "404"

\* The analysis a client is shown is of a photo it submitted to that session
\* before; of the one it was told was accepted, if it was; and a session shows
\* one analysis at most, however often its requests are replayed.
AnalysisOfOwnPhoto(n) ==
  Ended(n, "respond", {"ok"}) =>
    LET s == sent[n].session
    IN /\ about[n] \in Before(n, "snap", s, {"ok", "500", "error"})
       /\ Before(n, "snap", s, {"ok"}) \subseteq {about[n]}
       /\ Before(n, "respond", s, {"ok"}) = {}

AnalysisIsOfOwnPhoto == \A n \in Calls : AnalysisOfOwnPhoto(n)

-----------------------------------------------------------------------------
\* What the invariants above rest on, beginning with the types.
SentRequest ==
  [op : {"init"}]
  \cup [op : {"snap"}, session : Sessions, photo : Photos]
  \cup [op : {"respond"}, session : Sessions]

Outcomes == {"none", "ok", "error", "404", "409", "500", "502"}

ClientTypeOK ==
  /\ sent \in Seq(SentRequest) /\ Len(sent) <= MaxCalls
  /\ waiting \in {0, Len(sent)}
  /\ replaying \in BOOLEAN
  /\ outcome \in [Calls -> Outcomes]
  /\ snapSessionID \in Sessions \cup {NoSessionID}
  /\ network \in SUBSET (1..Len(sent))
  /\ owner \in [Callers -> 0..Len(sent)]
  /\ madeBy \in [Captures -> 0..Len(sent)]
  /\ about \in [Calls -> 0..Len(sent)]

\* A request is on the network, or with one handler, or gone; and a handler
\* does what its request asks for.
OneHandlerPerRequest ==
  /\ \A c \in Callers : owner[c] = 0 <=> pc[c] = "idle"
  /\ \A c \in Callers : owner[c] \notin network
  /\ \A c, d \in Callers : owner[c] = owner[d] /\ owner[c] # 0 => c = d

HandlesItsRequest ==
  \A c \in Callers : owner[c] # 0 =>
    LET r == sent[owner[c]]
    IN /\ req[c].op = IF r.op = "respond" THEN "response" ELSE r.op
       /\ r.op # "init" => req[c].session = r.session
       /\ r.op = "snap" => madeBy[req[c].capture] = owner[c]

\* The call that is waited for has no outcome, every other has; and until the
\* handler has ended it is at most the client's own.
OutcomeInTime ==
  /\ \A n \in Calls : outcome[n] = "none" <=> n = waiting \/ n > Len(sent)
  /\ \A n \in network : outcome[n] \in {"none", "error"}
  /\ \A c \in Callers : owner[c] # 0 => outcome[owner[c]] \in {"none", "error"}

\* Every session id the client has, or is about to be given, is known.
IdsAreKnown ==
  /\ snapSessionID # NoSessionID => view[snapSessionID].step # "none"
  /\ \A n \in 1..Len(sent) :
       sent[n].op # "init" => view[sent[n].session].step # "none"
  /\ \A c \in Callers :
       req[c].op = "init" /\ pc[c] = "reply" => view[req[c].session].step # "none"

\* A capture is made by one submission, and a submission makes one capture.
MadeByOne ==
  /\ \A k \in Captures : k \notin drawn => madeBy[k] = 0
  /\ \A k \in Captures :
       madeBy[k] # 0 => sent[madeBy[k]].op = "snap" /\ madeBy[k] \notin network
  /\ \A j, k \in Captures : madeBy[j] = madeBy[k] /\ madeBy[j] # 0 => j = k

\* The photo of a session, on disk or in memory, is of a submission to that very
\* session which has not been told otherwise.  A handler that has not come to
\* the session yet has a photo that is no session's.
PhotoOf(s) == {view[s].capture, durable[s].capture} \ {NoCapture}

SessionPhotoIsSubmitted ==
  /\ \A s \in Sessions : \A k \in PhotoOf(s) :
       /\ madeBy[k] # 0
       /\ sent[madeBy[k]].session = s
       /\ outcome[madeBy[k]] \notin {"404", "409", "502"}
  /\ \A c \in Callers : req[c].op = "snap" /\ pc[c] \in {"save", "index", "submit"} =>
       \A s \in Sessions : req[c].capture \notin PhotoOf(s)

\* A session is done because a response of this client came to it, which was
\* not turned down.
Took(m, s) ==
  /\ sent[m].op = "respond" /\ sent[m].session = s
  /\ outcome[m] \notin {"404", "409"} /\ m \notin network
  /\ \A c \in Callers : owner[c] = m => pc[c] # "respond"

DoneByResponse ==
  \A s \in Sessions :
    "done" \in {view[s].step, durable[s].step} => \E m \in 1..Len(sent) : Took(m, s)

\* A response that took its session is the only one that did, and goes on with
\* the session's photo.
Taking(c) == req[c].op = "response" /\ pc[c] \in {"load", "analyzing", "reply"}

TakenOnce ==
  /\ \A c \in Callers : Taking(c) =>
       /\ req[c].capture \in Captures
       /\ view[req[c].session] = Finished(Submitted(req[c].capture))
       /\ \A n \in 1..Len(sent) :
            Ended(n, "respond", {"ok"}) => sent[n].session # req[c].session
  /\ \A c, d \in Callers :
       Taking(c) /\ Taking(d) /\ req[c].session = req[d].session => c = d
  /\ \A n \in 1..Len(sent) :
       Ended(n, "respond", {"ok"}) => view[sent[n].session].step = "done"

\* The inductive invariant of the client and the server together.
ClientIndInv ==
  /\ IndInv
  /\ ClientTypeOK
  /\ OneHandlerPerRequest
  /\ HandlesItsRequest
  /\ OutcomeInTime
  /\ IdsAreKnown
  /\ MadeByOne
  /\ SessionPhotoIsSubmitted
  /\ DoneByResponse
  /\ TakenOnce
  /\ SnapAnswersStayTrue
  /\ ResponseConflictHasCause
  /\ NeverNotFound
  /\ AnalysisIsOfOwnPhoto
=============================================================================
