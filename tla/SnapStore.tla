----------------------------- MODULE SnapStore ------------------------------
(***************************************************************************)
(* internal/session.SnapStore over internal/session/filestore.             *)
(*                                                                         *)
(* Request goroutines (Callers) call Init, SubmitSnap and SubmitResponse.  *)
(* The two submissions run under SnapStore.mu from the look-up to the      *)
(* return, their file write included; Init writes its file first and takes *)
(* the mutex only to add the session to the map.  A file write is what     *)
(* os.WriteFile does: open with O_TRUNC, write, close, each of which may   *)
(* fail, and the process may stop between any two of them.  On start the   *)
(* map is rebuilt from the directory, and a file that does not decode      *)
(* stops the start.                                                        *)
(***************************************************************************)
EXTENDS SnapRecord, Naturals

CONSTANTS
  Callers,    \* goroutines that serve requests
  NoCaller    \* the mutex is free

ASSUME NoCallerAssumption == NoCaller \notin Callers

VARIABLES
  phase,      \* "up", "down", or "refused": the start ended with an error
  sessions,   \* SnapStore.sessions; NoSession for an id not in the map
  mu,         \* SnapStore.mu: its holder
  disk,       \* dir/snap/<id>.json; NoSession for no file, Torn for one cut short
  pc,         \* where each caller is
  args,       \* the call each caller is making
  next,       \* the local `next` (Init: `sess`) the call persists
  drawn,      \* history: the ids newID has returned so far
  view,       \* history: `sessions`, except that it outlives the process
  grants      \* history: how often SubmitResponse handed out the capture

vars == <<phase, sessions, mu, disk, pc, args, next, drawn, view, grants>>

\* A file that was truncated and not written: json.Unmarshal rejects it.
Torn == [step |-> "torn", capture |-> NoCapture]

FileContent == Record \cup {Torn}

NoCall == [op |-> "none", id |-> NoCapture, capture |-> NoCapture]

Call ==
  {NoCall} \cup
  [op : {"init", "snap", "response"}, id : Sessions, capture : Captures \cup {NoCapture}]

PcValues == {"idle", "lock", "open", "write", "close", "insert"}

TypeOK ==
  /\ phase \in {"up", "down", "refused"}
  /\ sessions \in [Sessions -> Record]
  /\ mu \in Callers \cup {NoCaller}
  /\ disk \in [Sessions -> FileContent]
  /\ pc \in [Callers -> PcValues]
  /\ args \in [Callers -> Call]
  /\ next \in [Callers -> Record]
  /\ drawn \in SUBSET Sessions
  /\ view \in [Sessions -> Record]
  /\ grants \in [Sessions -> Nat]

\* First start: an empty directory, no file, nothing in memory.
Init ==
  /\ phase = "down"
  /\ sessions = [s \in Sessions |-> NoSession]
  /\ mu = NoCaller
  /\ disk = [s \in Sessions |-> NoSession]
  /\ pc = [c \in Callers |-> "idle"]
  /\ args = [c \in Callers |-> NoCall]
  /\ next = [c \in Callers |-> NoSession]
  /\ drawn = {}
  /\ view = [s \in Sessions |-> NoSession]
  /\ grants = [s \in Sessions |-> 0]

-----------------------------------------------------------------------------
\* Broken: a return that forgets the deferred unlock.
MuNotReleased(c) == mu

\* Only a call that changes an existing record holds the mutex while it
\* persists; whoever holds it lets go of it on every return (defer).
MuAfterReturn(c) == IF mu = c THEN NoCaller ELSE mu

Return(c) ==
  /\ pc' = [pc EXCEPT ![c] = "idle"]
  /\ args' = [args EXCEPT ![c] = NoCall]
  /\ next' = [next EXCEPT ![c] = NoSession]
  /\ mu' = MuAfterReturn(c)

\* Init draws an id nobody has (8 random bytes) and builds the record.  An
\* error of newID returns with nothing done.
InitCall(c, s) ==
  /\ phase = "up" /\ pc[c] = "idle"
  /\ s \notin drawn
  /\ drawn' = drawn \cup {s}
  /\ args' = [args EXCEPT ![c] = [op |-> "init", id |-> s, capture |-> NoCapture]]
  /\ next' = [next EXCEPT ![c] = Opened]
  /\ pc' = [pc EXCEPT ![c] = "open"]
  /\ UNCHANGED <<phase, sessions, mu, disk, view, grants>>

\* The two submissions name whatever session the request does, and wait for mu.
SubmitCall(c, call) ==
  /\ phase = "up" /\ pc[c] = "idle"
  /\ args' = [args EXCEPT ![c] = call]
  /\ pc' = [pc EXCEPT ![c] = "lock"]
  /\ UNCHANGED <<phase, sessions, mu, disk, next, drawn, view, grants>>

SubmitSnapCall(c, s, k) == SubmitCall(c, [op |-> "snap", id |-> s, capture |-> k])

SubmitResponseCall(c, s) ==
  SubmitCall(c, [op |-> "response", id |-> s, capture |-> NoCapture])

-----------------------------------------------------------------------------
\* The step a record must be at for the call to go on.
StepFor(op) == IF op = "snap" THEN "awaitSnap" ELSE "awaitResponse"

Accepts(call) == sessions[call.id].step = StepFor(call.op)

\* ErrNotFound or ErrWrongStep.
Refuse(c) ==
  /\ pc[c] = "lock" /\ mu = NoCaller
  /\ ~Accepts(args[c])
  /\ Return(c)
  /\ UNCHANGED <<phase, sessions, disk, drawn, view, grants>>

\* Broken: the record is read and replaced with no mutex.
PersistWithoutLock(c, r) ==
  /\ pc[c] = "lock"
  /\ Accepts(args[c])
  /\ next' = [next EXCEPT ![c] = r]
  /\ pc' = [pc EXCEPT ![c] = "open"]
  /\ UNCHANGED <<phase, sessions, mu, disk, args, drawn, view, grants>>

\* Broken: the map is updated before the file is written.
CommitThenPersist(c, r) ==
  /\ pc[c] = "lock" /\ mu = NoCaller
  /\ Accepts(args[c])
  /\ mu' = c
  /\ next' = [next EXCEPT ![c] = r]
  /\ sessions' = [sessions EXCEPT ![args[c].id] = r]
  /\ view' = [view EXCEPT ![args[c].id] = r]
  /\ pc' = [pc EXCEPT ![c] = "open"]
  /\ UNCHANGED <<phase, disk, args, drawn, grants>>

\* The look-up succeeds: build the next record, keep the mutex, go and persist.
LockAndPersist(c, r) ==
  /\ pc[c] = "lock" /\ mu = NoCaller
  /\ Accepts(args[c])
  /\ mu' = c
  /\ next' = [next EXCEPT ![c] = r]
  /\ pc' = [pc EXCEPT ![c] = "open"]
  /\ UNCHANGED <<phase, sessions, disk, args, drawn, view, grants>>

LockForSnap(c) ==
  /\ args[c].op = "snap"
  /\ LockAndPersist(c, Submitted(args[c].capture))

LockForResponse(c) ==
  /\ args[c].op = "response"
  /\ LockAndPersist(c, Finished(sessions[args[c].id]))

-----------------------------------------------------------------------------
\* os.WriteFile, which filestore.Save calls: O_TRUNC empties the file ...
OpenTruncate(c) ==
  /\ pc[c] = "open"
  /\ disk' = [disk EXCEPT ![args[c].id] = Torn]
  /\ pc' = [pc EXCEPT ![c] = "write"]
  /\ UNCHANGED <<phase, sessions, mu, args, next, drawn, view, grants>>

\* ... and the bytes follow.
WriteBytes(c) ==
  /\ pc[c] = "write"
  /\ disk' = [disk EXCEPT ![args[c].id] = next[c]]
  /\ pc' = [pc EXCEPT ![c] = "close"]
  /\ UNCHANGED <<phase, sessions, mu, args, next, drawn, view, grants>>

\* Any of the three system calls may fail.  The call returns the error and the
\* file stays as it is by then: untouched, torn, or complete.
SaveFails(c) ==
  /\ pc[c] \in {"open", "write", "close"}
  /\ Return(c)
  /\ UNCHANGED <<phase, sessions, disk, drawn, view, grants>>

\* *sess = next, and SubmitResponse hands out the capture.
Commit(c) ==
  LET call == args[c]
  IN /\ pc[c] = "close" /\ call.op # "init"
     /\ sessions' = [sessions EXCEPT ![call.id] = next[c]]
     /\ view' = [view EXCEPT ![call.id] = next[c]]
     /\ grants' = IF call.op = "response"
                  THEN [grants EXCEPT ![call.id] = @ + 1] ELSE grants
     /\ Return(c)
     /\ UNCHANGED <<phase, disk, drawn>>

\* Init has its file; it still has to add the session to the map.
Saved(c) ==
  /\ pc[c] = "close" /\ args[c].op = "init"
  /\ pc' = [pc EXCEPT ![c] = "insert"]
  /\ UNCHANGED <<phase, sessions, mu, disk, args, next, drawn, view, grants>>

Insert(c) ==
  /\ pc[c] = "insert" /\ mu = NoCaller
  /\ sessions' = [sessions EXCEPT ![args[c].id] = next[c]]
  /\ view' = [view EXCEPT ![args[c].id] = next[c]]
  /\ Return(c)
  /\ UNCHANGED <<phase, disk, drawn, grants>>

-----------------------------------------------------------------------------
\* The process stops wherever its goroutines are; only the files are left.
Crash ==
  /\ phase = "up"
  /\ phase' = "down"
  /\ sessions' = [s \in Sessions |-> NoSession]
  /\ mu' = NoCaller
  /\ pc' = [c \in Callers |-> "idle"]
  /\ args' = [c \in Callers |-> NoCall]
  /\ next' = [c \in Callers |-> NoSession]
  /\ UNCHANGED <<disk, drawn, view, grants>>

\* Every file decodes.
Loadable == \A s \in Sessions : disk[s] # Torn

Rehydrated == disk

\* Broken: the error of json.Unmarshal is dropped, and a torn file becomes the
\* zero snapSession, which awaits its photo.
StartIgnoringDecodeErrors ==
  /\ phase # "up"
  /\ phase' = "up"
  /\ sessions' = [s \in Sessions |-> IF disk[s] = Torn THEN Opened ELSE disk[s]]
  /\ view' = sessions'
  /\ UNCHANGED <<mu, disk, pc, args, next, drawn, grants>>

\* NewSnapStore, called by main before the server listens.
Start ==
  /\ phase # "up"
  /\ Loadable
  /\ phase' = "up"
  /\ sessions' = Rehydrated
  /\ view' = sessions'
  /\ UNCHANGED <<mu, disk, pc, args, next, drawn, grants>>

\* A file does not decode, or cannot be read: main exits with the error.
StartRefused ==
  /\ phase # "up"
  /\ phase' = "refused"
  /\ UNCHANGED <<sessions, mu, disk, pc, args, next, drawn, view, grants>>

-----------------------------------------------------------------------------
\* The step of a call that waits for mu, and the steps that wait for nobody.
Acquire(c) == Refuse(c) \/ LockForSnap(c) \/ LockForResponse(c) \/ Insert(c)

Proceed(c) ==
  OpenTruncate(c) \/ WriteBytes(c) \/ SaveFails(c) \/ Commit(c) \/ Saved(c)

Request(c) ==
  \E s \in Sessions :
    \/ InitCall(c, s)
    \/ \E k \in Captures : SubmitSnapCall(c, s, k)
    \/ SubmitResponseCall(c, s)

Next ==
  \/ \E c \in Callers : Request(c) \/ Acquire(c) \/ Proceed(c)
  \/ Crash \/ Start \/ StartRefused

Spec == Init /\ [][Next]_vars

\* A goroutine that can run does run, and sync.Mutex hands itself to a waiter
\* that has waited for a millisecond, so nobody waits for it for ever.  Nothing
\* makes a client call or the process start.
Fairness == \A c \in Callers : WF_vars(Proceed(c)) /\ SF_vars(Acquire(c))

FairSpec == Spec /\ Fairness

-----------------------------------------------------------------------------
\* While the process runs, the map is what the callers have been told; while
\* it does not, there is no map, no caller and no mutex.
MemoryFollowsPhase ==
  IF phase = "up"
  THEN sessions = view
  ELSE /\ sessions = [s \in Sessions |-> NoSession]
       /\ mu = NoCaller
       /\ \A c \in Callers : pc[c] = "idle"

Persisting(c) == pc[c] \in {"open", "write", "close", "insert"}

\* The mutex is held by exactly the submission that is persisting: there is
\* never a second one, and an error path that forgot to unlock would show here.
MutexHeld ==
  \A c \in Callers :
    mu = c <=> Persisting(c) /\ args[c].op # "init"

\* A call that persists writes the successor of the record its session is at,
\* even though the record was read before the file system calls.
NextIsSuccessor ==
  \A c \in Callers :
    /\ pc[c] = "lock" => args[c].op \in {"snap", "response"}
    /\ args[c].op = "snap" => args[c].capture \in Captures
    /\ Persisting(c) =>
         /\ args[c].op # "none"
         /\ Advances(view[args[c].id], next[c])
         /\ args[c].op = "init" => next[c] = Opened
         /\ args[c].op = "snap" => next[c].step = "awaitResponse"
         /\ args[c].op = "response" => next[c].step = "done"
    /\ pc[c] = "insert" => args[c].op = "init"
    /\ pc[c] = "write" => disk[args[c].id] = Torn
    /\ pc[c] \in {"close", "insert"} => disk[args[c].id] = next[c]

\* No two goroutines ever have the same record file open for writing.
OneWriterPerFile ==
  \A c, d \in Callers :
    Persisting(c) /\ Persisting(d) /\ args[c].id = args[d].id => c = d

\* An id is on disk or in a map only if it was drawn.
OnlyDrawn ==
  /\ \A s \in Sessions \ drawn : disk[s] = NoSession /\ view[s] = NoSession
  /\ \A c \in Callers : Persisting(c) => args[c].id \in drawn

\* A session has a photo from SubmitSnap on, and none before.
PhotoFromSubmission ==
  \A s \in Sessions :
    view[s].capture = NoCapture <=> view[s].step \in {"none", "awaitSnap"}

\* The file of a session is never behind what its callers have been told, at
\* most one step ahead of it, or torn: the order "persist, then commit" of
\* SubmitSnap, SubmitResponse and Init, under failed writes and crashes.
WriteAhead ==
  \A s \in Sessions :
    disk[s] \in {view[s], Torn} \/ Advances(view[s], disk[s])

\* SubmitResponse hands out a session's capture at most once, whatever
\* duplicates arrive, whatever fails and however often the server restarts.
AnalysedAtMostOnce == \A s \in Sessions : grants[s] <= 1

GrantedIsDone == \A s \in Sessions : grants[s] > 0 => view[s].step = "done"

\* What the calls, the map and the files keep of one another.
Protocol ==
  /\ MemoryFollowsPhase
  /\ MutexHeld
  /\ NextIsSuccessor
  /\ OneWriterPerFile
  /\ OnlyDrawn
  /\ PhotoFromSubmission
  /\ WriteAhead
  /\ AnalysedAtMostOnce
  /\ GrantedIsDone

\* The inductive invariant.
IndInv == TypeOK /\ Protocol

\* The store implements SnapFlow: seen through `view`, a call takes effect at
\* Commit or Insert, and a restart completes a call or loses it whole.
Flow == INSTANCE SnapFlow WITH flow <- view, serving <- (phase = "up")

FlowSpec == Flow!Spec

\* Every call returns, although the file is written with the mutex held.
CallReturns == \A c \in Callers : pc[c] # "idle" ~> pc[c] = "idle"

\* What of it does not depend on who is run when.  A call only goes forward, in
\* at most five steps, ...
StepsLeft == [idle |-> 0, insert |-> 1, close |-> 2, write |-> 3, open |-> 4, lock |-> 5]

CallsGoForward ==
  [][\A c \in Callers : pc[c] # "idle" =>
       pc'[c] = pc[c] \/ StepsLeft[pc'[c]] < StepsLeft[pc[c]]]_vars

\* ... and a call that waits for the mutex waits for another one, which is at a
\* system call and itself waits for nobody.
HolderRuns ==
  \A c \in Callers : pc[c] \in {"lock", "insert"} /\ mu # NoCaller =>
    mu # c /\ pc[mu] \in {"open", "write", "close"}

-----------------------------------------------------------------------------
\* What the comment in SubmitSnap promises: "a failed write leaves the session
\* at its last durably-saved step", so that while nobody saves a session of the
\* map, its file and its entry in the map agree.
FailedWriteLeavesFile ==
  \A s \in Sessions :
    /\ sessions[s] # NoSession
    /\ \A c \in Callers : Persisting(c) => args[c].id # s
    => disk[s] = sessions[s]

\* What the package comment promises: the store can "rehydrate from it on
\* startup -- so state survives a restart".
StateSurvivesRestart == phase # "up" => Loadable
=============================================================================
