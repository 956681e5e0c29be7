-------------------------- MODULE SnapStoreProofs ---------------------------
(***************************************************************************)
(* SnapStore for any number of goroutines, sessions and photos: its types, *)
(* its inductive invariant, what follows from it, and that it implements   *)
(* SnapFlow and, with the last whole content of its files, SnapRecords.    *)
(***************************************************************************)
EXTENDS SnapStoreRecords, TLAPS

\* What the flow's records look like, in the terms the proofs need.
LEMMA RecordShapes ==
  /\ NoSession \in Record /\ Opened \in Record
  /\ \A k \in Captures \cup {NoCapture} : Submitted(k) \in Record
  /\ \A r \in Record : Finished(r) \in Record
  /\ Torn \notin Record
  /\ NoSession # Opened
  BY DEF Record, Steps, NoSession, Opened, Submitted, Finished, Torn

\* Of a step of the flow: it leaves the record changed, it never starts from a
\* finished session, and it comes to a record that is not the empty one.
LEMMA AdvancesFacts ==
  ASSUME NEW old, NEW new, Advances(old, new)
  PROVE  /\ new \in Record /\ old \in Record
         /\ old.step # "done" /\ new # NoSession
         /\ new.capture = NoCapture <=> new.step \in {"none", "awaitSnap"}
  BY NoCaptureAssumption
     DEF Advances, Record, Steps, NoSession, Opened, Submitted, Finished

-----------------------------------------------------------------------------
(***************************************************************************)
(* Types                                                                   *)
(***************************************************************************)

\* A call that has an operation has a session.
LEMMA CallFacts ==
  ASSUME NEW call \in Call, call.op # "none"
  PROVE  /\ call.id \in Sessions
         /\ call.capture \in Captures \cup {NoCapture}
         /\ call.op \in {"init", "snap", "response"}
  BY DEF Call, NoCall

\* A call that returns leaves the types right.
LEMMA ReturnType ==
  ASSUME TypeOK, NEW c \in Callers, Return(c)
  PROVE  /\ pc' \in [Callers -> PcValues]
         /\ args' \in [Callers -> Call]
         /\ next' \in [Callers -> Record]
         /\ mu' \in Callers \cup {NoCaller}
  BY RecordShapes DEF TypeOK, Return, MuAfterReturn, PcValues, Call

\* The store begins well typed.
LEMMA TypeInit == Init => TypeOK
  BY RecordShapes DEF Init, TypeOK, FileContent, PcValues, Call

\* Every step keeps the types.
LEMMA TypeStep == TypeOK /\ [Next]_vars => TypeOK'
  <1> SUFFICES ASSUME TypeOK, [Next]_vars PROVE TypeOK'
      OBVIOUS
  <1> USE DEF TypeOK
  <1>1. ASSUME NEW c \in Callers, NEW s \in Sessions, InitCall(c, s)
        PROVE  TypeOK'
    BY <1>1, RecordShapes DEF InitCall, Call, PcValues
  <1>2. ASSUME NEW c \in Callers, NEW s \in Sessions,
               \/ \E k \in Captures : SubmitSnapCall(c, s, k)
               \/ SubmitResponseCall(c, s)
        PROVE  TypeOK'
    BY <1>2 DEF SubmitSnapCall, SubmitResponseCall, SubmitCall, Call, PcValues
  <1>3. ASSUME NEW c \in Callers, Refuse(c) PROVE TypeOK'
    BY <1>3, ReturnType DEF Refuse
  <1>4. ASSUME NEW c \in Callers, LockForSnap(c) PROVE TypeOK'
    BY <1>4, CallFacts, RecordShapes DEF LockForSnap, LockAndPersist, PcValues
  <1>5. ASSUME NEW c \in Callers, LockForResponse(c) PROVE TypeOK'
    BY <1>5, CallFacts, RecordShapes DEF LockForResponse, LockAndPersist, PcValues
  <1>6. ASSUME NEW c \in Callers, OpenTruncate(c) PROVE TypeOK'
    BY <1>6 DEF OpenTruncate, FileContent, PcValues
  <1>7. ASSUME NEW c \in Callers, WriteBytes(c) PROVE TypeOK'
    BY <1>7 DEF WriteBytes, FileContent, PcValues
  <1>8. ASSUME NEW c \in Callers, SaveFails(c) PROVE TypeOK'
    BY <1>8, ReturnType DEF SaveFails
  <1>9. ASSUME NEW c \in Callers, Commit(c) PROVE TypeOK'
    <2>1. sessions' \in [Sessions -> Record] /\ view' \in [Sessions -> Record]
      BY <1>9 DEF Commit
    <2>2. grants' \in [Sessions -> Nat]
      <3>1. CASE args[c].op = "response"
        <4>1. args[c].id \in Sessions
          BY <3>1, CallFacts
        <4> QED  BY <1>9, <3>1, <4>1 DEF Commit
      <3>2. CASE args[c].op # "response"
        BY <1>9, <3>2 DEF Commit
      <3> QED  BY <3>1, <3>2
    <2> QED  BY <1>9, <2>1, <2>2, ReturnType DEF Commit
  <1>10. ASSUME NEW c \in Callers, Saved(c) PROVE TypeOK'
    BY <1>10 DEF Saved, PcValues
  <1>11. ASSUME NEW c \in Callers, Insert(c) PROVE TypeOK'
    BY <1>11, ReturnType DEF Insert
  <1>12. ASSUME Crash PROVE TypeOK'
    BY <1>12, RecordShapes DEF Crash, PcValues, Call
  <1>13. ASSUME Start PROVE TypeOK'
    <2>1. disk \in [Sessions -> Record]
      BY <1>13 DEF Start, Loadable, FileContent
    <2> QED  BY <1>13, <2>1 DEF Start, Rehydrated
  <1>14. ASSUME StartRefused PROVE TypeOK'
    BY <1>14 DEF StartRefused
  <1>15. CASE UNCHANGED vars
    BY <1>15 DEF vars
  <1> QED
    BY <1>1, <1>2, <1>3, <1>4, <1>5, <1>6, <1>7, <1>8, <1>9, <1>10, <1>11,
       <1>12, <1>13, <1>14, <1>15
       DEF Next, Request, Acquire, Proceed

\* Every variable keeps its type.
THEOREM TypeCorrect == Spec => []TypeOK
  BY TypeInit, TypeStep, PTL DEF Spec

-----------------------------------------------------------------------------
(***************************************************************************)
(* The inductive invariant.  Every lemma below is about one group of       *)
(* actions and takes the invariant in the state before the step.           *)
(***************************************************************************)

\* A first start finds an empty directory.
LEMMA IndInit == Init => Protocol
  BY NoCallerAssumption
     DEF Init, Protocol, MemoryFollowsPhase, MutexHeld, NextIsSuccessor,
         OneWriterPerFile, OnlyDrawn, PhotoFromSubmission, WriteAhead,
         AnalysedAtMostOnce, GrantedIsDone, Persisting, NoCall, NoSession

\* A caller that persists works on a session of its own.
LEMMA PersistingFacts ==
  ASSUME TypeOK, Protocol, NEW c \in Callers, Persisting(c)
  PROVE  /\ args[c].id \in Sessions /\ args[c].id \in drawn
         /\ phase = "up"
         /\ sessions[args[c].id] = view[args[c].id]
         /\ Advances(view[args[c].id], next[c])
         /\ grants[args[c].id] = 0
         /\ \A d \in Callers \ {c} : Persisting(d) => args[d].id # args[c].id
  <1>1. /\ args[c].op # "none" /\ args[c].id \in drawn
        /\ Advances(view[args[c].id], next[c])
    BY DEF Protocol, NextIsSuccessor, OnlyDrawn
  <1>2. args[c].id \in Sessions
    BY <1>1, CallFacts DEF TypeOK
  <1>3. phase = "up" /\ sessions = view
    BY DEF Protocol, MemoryFollowsPhase, Persisting, TypeOK
  <1>4. view[args[c].id].step # "done"
    BY <1>1, AdvancesFacts
  <1>5. grants[args[c].id] = 0
    BY <1>2, <1>4 DEF Protocol, GrantedIsDone, TypeOK
  <1> QED
    BY <1>1, <1>2, <1>3, <1>5 DEF Protocol, OneWriterPerFile

\* Init draws a fresh id and makes its record.
LEMMA IndInitCall ==
  ASSUME TypeOK, Protocol, NEW c \in Callers, NEW s \in Sessions, InitCall(c, s)
  PROVE  Protocol'
  <1> USE DEF TypeOK
  <1>1. /\ phase = "up" /\ pc[c] = "idle" /\ s \notin drawn
        /\ pc' = [pc EXCEPT ![c] = "open"]
        /\ args' = [args EXCEPT ![c] =
                      [op |-> "init", id |-> s, capture |-> NoCapture]]
        /\ next' = [next EXCEPT ![c] = Opened]
        /\ drawn' = drawn \cup {s}
        /\ UNCHANGED <<phase, sessions, mu, disk, view, grants>>
    BY DEF InitCall
  <1>2. view[s] = NoSession /\ disk[s] = NoSession
    BY <1>1 DEF Protocol, OnlyDrawn
  <1>3. MemoryFollowsPhase'
    BY <1>1 DEF Protocol, MemoryFollowsPhase
  <1>4. MutexHeld'
    BY <1>1 DEF Protocol, MutexHeld, Persisting
  <1>5. NextIsSuccessor'
    BY <1>1, <1>2 DEF Protocol, NextIsSuccessor, Persisting, Advances
  <1>6. OneWriterPerFile'
    BY <1>1 DEF Protocol, OneWriterPerFile, OnlyDrawn, Persisting
  <1>7. OnlyDrawn'
    BY <1>1 DEF Protocol, OnlyDrawn, Persisting
  <1>8. PhotoFromSubmission' /\ WriteAhead' /\ AnalysedAtMostOnce' /\ GrantedIsDone'
    BY <1>1 DEF Protocol, PhotoFromSubmission, WriteAhead, AnalysedAtMostOnce,
                GrantedIsDone
  <1> QED  BY <1>3, <1>4, <1>5, <1>6, <1>7, <1>8 DEF Protocol

\* A submission is called, and waits for the mutex.
LEMMA IndSubmitCall ==
  ASSUME TypeOK, Protocol, NEW c \in Callers, NEW s \in Sessions,
         \/ \E k \in Captures : SubmitSnapCall(c, s, k)
         \/ SubmitResponseCall(c, s)
  PROVE  Protocol'
  <1> USE DEF TypeOK
  <1>1. PICK call : /\ call.op \in {"snap", "response"}
                    /\ call.op = "snap" => call.capture \in Captures
                    /\ SubmitCall(c, call)
    <2>1. CASE \E k \in Captures : SubmitSnapCall(c, s, k)
      BY <2>1 DEF SubmitSnapCall
    <2>2. CASE SubmitResponseCall(c, s)
      BY <2>2 DEF SubmitResponseCall
    <2> QED  BY <2>1, <2>2
  <1>2. /\ phase = "up" /\ pc[c] = "idle"
        /\ pc' = [pc EXCEPT ![c] = "lock"]
        /\ args' = [args EXCEPT ![c] = call]
        /\ UNCHANGED <<phase, sessions, mu, disk, next, drawn, view, grants>>
    BY <1>1 DEF SubmitCall
  <1>3. MemoryFollowsPhase' /\ MutexHeld'
    BY <1>2 DEF Protocol, MemoryFollowsPhase, MutexHeld, Persisting
  <1>4. NextIsSuccessor'
    BY <1>1, <1>2 DEF Protocol, NextIsSuccessor, Persisting
  <1>5. OneWriterPerFile' /\ OnlyDrawn'
    BY <1>2 DEF Protocol, OneWriterPerFile, OnlyDrawn, Persisting
  <1>6. PhotoFromSubmission' /\ WriteAhead' /\ AnalysedAtMostOnce' /\ GrantedIsDone'
    BY <1>2 DEF Protocol, PhotoFromSubmission, WriteAhead, AnalysedAtMostOnce,
                GrantedIsDone
  <1> QED  BY <1>3, <1>4, <1>5, <1>6 DEF Protocol

\* A call that returns without an effect.
LEMMA IndReturn ==
  ASSUME TypeOK, Protocol, NEW c \in Callers, Return(c),
         pc[c] # "idle",
         UNCHANGED <<phase, sessions, disk, drawn, view, grants>>
  PROVE  Protocol'
  <1> USE DEF TypeOK
  <1>1. /\ pc' = [pc EXCEPT ![c] = "idle"]
        /\ args' = [args EXCEPT ![c] = NoCall]
        /\ next' = [next EXCEPT ![c] = NoSession]
        /\ mu' = MuAfterReturn(c)
    BY DEF Return
  <1>2. MemoryFollowsPhase'
    BY <1>1 DEF Protocol, MemoryFollowsPhase, MuAfterReturn
  <1>3. MutexHeld'
    BY <1>1, NoCallerAssumption
       DEF Protocol, MutexHeld, Persisting, MuAfterReturn
  <1>4. NextIsSuccessor'
    BY <1>1 DEF Protocol, NextIsSuccessor, Persisting, NoCall
  <1>5. OneWriterPerFile' /\ OnlyDrawn'
    BY <1>1 DEF Protocol, OneWriterPerFile, OnlyDrawn, Persisting
  <1>6. PhotoFromSubmission' /\ WriteAhead' /\ AnalysedAtMostOnce' /\ GrantedIsDone'
    BY DEF Protocol, PhotoFromSubmission, WriteAhead, AnalysedAtMostOnce,
           GrantedIsDone
  <1> QED  BY <1>2, <1>3, <1>4, <1>5, <1>6 DEF Protocol

\* The mutex is free, the record is at the right step and r is its successor.
LEMMA IndLock ==
  ASSUME TypeOK, Protocol, NEW c \in Callers, NEW r \in Record,
         LockAndPersist(c, r),
         args[c].op \in {"snap", "response"},
         Advances(sessions[args[c].id], r),
         args[c].op = "snap" => r.step = "awaitResponse",
         args[c].op = "response" => r.step = "done"
  PROVE  Protocol'
  <1> USE DEF TypeOK
  <1>1. /\ pc[c] = "lock" /\ mu = NoCaller /\ mu' = c
        /\ sessions[args[c].id].step \in {"awaitSnap", "awaitResponse"}
        /\ pc' = [pc EXCEPT ![c] = "open"]
        /\ next' = [next EXCEPT ![c] = r]
        /\ UNCHANGED <<phase, sessions, disk, args, drawn, view, grants>>
    BY DEF LockAndPersist, Accepts, StepFor
  <1>2. args[c].id \in Sessions
    BY CallFacts
  <1>3. phase = "up" /\ sessions = view
    BY <1>1 DEF Protocol, MemoryFollowsPhase
  <1>4. args[c].id \in drawn
    BY <1>1, <1>2, <1>3 DEF Protocol, OnlyDrawn, NoSession
  <1>5. \A d \in Callers : Persisting(d) =>
            args[d].op = "init" /\ args[d].id # args[c].id
    <2> SUFFICES ASSUME NEW d \in Callers, Persisting(d)
                 PROVE  args[d].op = "init" /\ args[d].id # args[c].id
        OBVIOUS
    <2>1. args[d].op = "init"
      BY <1>1, NoCallerAssumption DEF Protocol, MutexHeld
    <2>2. Advances(view[args[d].id], Opened)
      BY <2>1 DEF Protocol, NextIsSuccessor
    <2>3. view[args[d].id] = NoSession
      BY <2>2 DEF Advances, Opened, Submitted, Finished, NoSession
    <2> QED  BY <1>1, <1>3, <2>1, <2>3 DEF NoSession
  <1>6. MemoryFollowsPhase'
    BY <1>1, <1>3 DEF Protocol, MemoryFollowsPhase
  <1>7. MutexHeld'
    BY <1>1, <1>5, NoCallerAssumption DEF Protocol, MutexHeld, Persisting
  <1>8. NextIsSuccessor'
    BY <1>1, <1>3 DEF Protocol, NextIsSuccessor, Persisting
  <1>9. OneWriterPerFile'
    BY <1>1, <1>5 DEF Protocol, OneWriterPerFile, Persisting
  <1>10. OnlyDrawn'
    BY <1>1, <1>4 DEF Protocol, OnlyDrawn, Persisting
  <1>11. PhotoFromSubmission' /\ WriteAhead' /\ AnalysedAtMostOnce' /\ GrantedIsDone'
    BY <1>1 DEF Protocol, PhotoFromSubmission, WriteAhead, AnalysedAtMostOnce,
                GrantedIsDone
  <1> QED  BY <1>6, <1>7, <1>8, <1>9, <1>10, <1>11 DEF Protocol

\* SubmitSnap looks its session up under the mutex.
LEMMA IndLockForSnap ==
  ASSUME TypeOK, Protocol, NEW c \in Callers, LockForSnap(c)
  PROVE  Protocol'
  <1> DEFINE call == args[c]
  <1>1. call.op = "snap" /\ call.id \in Sessions /\ call.capture \in Captures
    BY CallFacts DEF LockForSnap, TypeOK, Protocol, NextIsSuccessor
  <1>2. LockAndPersist(c, Submitted(call.capture))
    BY DEF LockForSnap
  <1>3. sessions[call.id].step = "awaitSnap"
    BY <1>1, <1>2 DEF LockAndPersist, Accepts, StepFor
  <1>4. sessions = view
    BY <1>2 DEF LockAndPersist, TypeOK, Protocol, MemoryFollowsPhase
  <1>5. sessions[call.id] = Opened
    BY <1>1, <1>3, <1>4
       DEF TypeOK, Record, Protocol, PhotoFromSubmission, Opened
  <1>6. Advances(sessions[call.id], Submitted(call.capture))
    BY <1>1, <1>5 DEF Advances
  <1>7. Submitted(call.capture) \in Record
    BY <1>1, RecordShapes
  <1>8. Submitted(call.capture).step = "awaitResponse"
    BY DEF Submitted
  <1> QED
    BY <1>1, <1>2, <1>6, <1>7, <1>8, IndLock

\* SubmitResponse looks its session up under the mutex.
LEMMA IndLockForResponse ==
  ASSUME TypeOK, Protocol, NEW c \in Callers, LockForResponse(c)
  PROVE  Protocol'
  <1> DEFINE call == args[c]
             r == sessions[call.id]
  <1>1. call.op = "response" /\ call.id \in Sessions
    BY CallFacts DEF LockForResponse, TypeOK
  <1>2. LockAndPersist(c, Finished(r))
    BY DEF LockForResponse
  <1>3. r.step = "awaitResponse"
    BY <1>1, <1>2 DEF LockAndPersist, Accepts, StepFor
  <1>4. sessions = view
    BY <1>2 DEF LockAndPersist, TypeOK, Protocol, MemoryFollowsPhase
  <1>5. r \in Record /\ r.capture \in Captures
    BY <1>1, <1>3, <1>4 DEF TypeOK, Record, Protocol, PhotoFromSubmission
  <1>6. Advances(r, Finished(r))
    <2>1. r = Submitted(r.capture)
      BY <1>3, <1>5 DEF Record, Submitted
    <2> QED  BY <1>5, <2>1 DEF Advances
  <1>7. Finished(r) \in Record /\ Finished(r).step = "done"
    BY <1>5, RecordShapes DEF Finished
  <1> QED
    BY <1>1, <1>2, <1>6, <1>7, IndLock

\* The truncated file, and the file with its bytes.
LEMMA IndFileWrite ==
  ASSUME TypeOK, Protocol, NEW c \in Callers,
         OpenTruncate(c) \/ WriteBytes(c) \/ Saved(c)
  PROVE  Protocol'
  <1> USE DEF TypeOK
  <1>1. /\ pc[c] \in {"open", "write", "close"}
        /\ \E p \in {"write", "close", "insert"} : pc' = [pc EXCEPT ![c] = p]
        /\ \/ pc'[c] = "write" /\ disk' = [disk EXCEPT ![args[c].id] = Torn]
           \/ pc'[c] = "close" /\ disk' = [disk EXCEPT ![args[c].id] = next[c]]
           \/ /\ pc'[c] = "insert" /\ disk' = disk
              /\ pc[c] = "close" /\ args[c].op = "init"
        /\ UNCHANGED <<phase, sessions, mu, args, next, drawn, view, grants>>
    BY DEF OpenTruncate, WriteBytes, Saved
  <1>2. /\ args[c].id \in Sessions /\ args[c].id \in drawn
        /\ Advances(view[args[c].id], next[c])
        /\ \A d \in Callers \ {c} : Persisting(d) => args[d].id # args[c].id
    BY <1>1, PersistingFacts DEF Persisting
  <1>3. \A d \in Callers : Persisting(d)' <=> Persisting(d)
    BY <1>1 DEF Persisting
  <1>4. MemoryFollowsPhase' /\ MutexHeld'
    BY <1>1, <1>3 DEF Protocol, MemoryFollowsPhase, MutexHeld
  <1>5. NextIsSuccessor'
    <2> SUFFICES ASSUME NEW d \in Callers
                 PROVE  NextIsSuccessor!(d)'
        BY DEF NextIsSuccessor
    <2>1. CASE d = c
      BY <1>1, <1>2, <2>1 DEF Protocol, NextIsSuccessor, Persisting
    <2>2. CASE d # c
      <3>1. Persisting(d) => disk'[args[d].id] = disk[args[d].id]
        BY <1>1, <1>2, <2>2, PersistingFacts
      <3> QED  BY <1>1, <2>2, <3>1 DEF Protocol, NextIsSuccessor, Persisting
    <2> QED  BY <2>1, <2>2
  <1>6. OneWriterPerFile'
    BY <1>1, <1>3 DEF Protocol, OneWriterPerFile
  <1>7. OnlyDrawn'
    BY <1>1, <1>2, <1>3 DEF Protocol, OnlyDrawn
  <1>8. WriteAhead'
    BY <1>1, <1>2 DEF Protocol, WriteAhead
  <1>9. PhotoFromSubmission' /\ AnalysedAtMostOnce' /\ GrantedIsDone'
    BY <1>1 DEF Protocol, PhotoFromSubmission, AnalysedAtMostOnce, GrantedIsDone
  <1> QED  BY <1>4, <1>5, <1>6, <1>7, <1>8, <1>9 DEF Protocol

\* Commit and Insert publish the record that the file holds.
LEMMA IndPublish ==
  ASSUME TypeOK, Protocol, NEW c \in Callers, Commit(c) \/ Insert(c)
  PROVE  Protocol'
  <1> USE DEF TypeOK
  <1> DEFINE s == args[c].id
  <1>1. /\ pc[c] \in {"close", "insert"}
        /\ pc' = [pc EXCEPT ![c] = "idle"]
        /\ args' = [args EXCEPT ![c] = NoCall]
        /\ next' = [next EXCEPT ![c] = NoSession]
        /\ mu' = MuAfterReturn(c)
        /\ sessions' = [sessions EXCEPT ![s] = next[c]]
        /\ view' = [view EXCEPT ![s] = next[c]]
        /\ \/ grants' = grants
           \/ /\ args[c].op = "response"
              /\ grants' = [grants EXCEPT ![s] = grants[s] + 1]
        /\ UNCHANGED <<phase, disk, drawn>>
    BY DEF Commit, Insert, Return
  <1>2. /\ Persisting(c) /\ phase = "up" /\ sessions = view
        /\ s \in Sessions /\ s \in drawn
        /\ Advances(view[s], next[c]) /\ grants[s] = 0
        /\ \A d \in Callers \ {c} : Persisting(d) => args[d].id # s
    BY <1>1, PersistingFacts DEF Persisting, Protocol, MemoryFollowsPhase
  <1>3. disk[s] = next[c]
    BY <1>1 DEF Protocol, NextIsSuccessor
  <1>4. \A d \in Callers : Persisting(d)' <=> Persisting(d) /\ d # c
    BY <1>1 DEF Persisting
  <1>5. MemoryFollowsPhase'
    BY <1>1, <1>2 DEF MemoryFollowsPhase
  <1>6. MutexHeld'
    BY <1>1, <1>2, <1>4, NoCallerAssumption DEF Protocol, MutexHeld, MuAfterReturn
  <1>7. NextIsSuccessor'
    <2> SUFFICES ASSUME NEW d \in Callers, d # c
                 PROVE  NextIsSuccessor!(d)'
      BY <1>1, <1>4 DEF NextIsSuccessor, NoCall
    <2>1. Persisting(d) => view'[args[d].id] = view[args[d].id]
      BY <1>1, <1>2
    <2> QED  BY <1>1, <1>4, <2>1 DEF Protocol, NextIsSuccessor
  <1>8. OneWriterPerFile'
    BY <1>1, <1>4 DEF Protocol, OneWriterPerFile
  <1>9. OnlyDrawn'
    BY <1>1, <1>2, <1>4 DEF Protocol, OnlyDrawn
  <1>10. PhotoFromSubmission'
    BY <1>1, <1>2, AdvancesFacts DEF Protocol, PhotoFromSubmission
  <1>11. WriteAhead'
    BY <1>1, <1>2, <1>3 DEF Protocol, WriteAhead
  <1>12. AnalysedAtMostOnce'
    BY <1>1, <1>2 DEF Protocol, AnalysedAtMostOnce
  <1>13. GrantedIsDone'
    <2>1. args[c].op = "response" => next[c].step = "done"
      BY <1>2 DEF Protocol, NextIsSuccessor
    <2> QED  BY <1>1, <1>2, <2>1 DEF Protocol, GrantedIsDone
  <1> QED
    BY <1>5, <1>6, <1>7, <1>8, <1>9, <1>10, <1>11, <1>12, <1>13 DEF Protocol

\* The process stops: the map is gone, the files stay as they are.
LEMMA IndCrash ==
  ASSUME TypeOK, Protocol, Crash
  PROVE  Protocol'
  BY NoCallerAssumption
     DEF TypeOK, Crash, Protocol, MemoryFollowsPhase, MutexHeld, NextIsSuccessor,
         OneWriterPerFile, OnlyDrawn, PhotoFromSubmission, WriteAhead,
         AnalysedAtMostOnce, GrantedIsDone, Persisting, NoCall

\* The map is rebuilt from files that are level with the callers' view or one
\* step ahead of it.
LEMMA IndStart ==
  ASSUME TypeOK, Protocol, Start
  PROVE  Protocol'
  <1> USE DEF TypeOK
  <1>1. /\ phase # "up" /\ phase' = "up"
        /\ sessions' = disk /\ view' = disk
        /\ UNCHANGED <<mu, disk, pc, args, next, drawn, grants>>
    BY DEF Start, Rehydrated
  <1>2. \A c \in Callers : pc[c] = "idle"
    BY <1>1 DEF Protocol, MemoryFollowsPhase
  <1>3. \A s \in Sessions : disk[s] = view[s] \/ Advances(view[s], disk[s])
    BY DEF Start, Loadable, Protocol, WriteAhead
  <1>4. MemoryFollowsPhase' /\ WriteAhead'
    BY <1>1 DEF MemoryFollowsPhase, WriteAhead
  <1>5. MutexHeld' /\ NextIsSuccessor' /\ OneWriterPerFile'
    BY <1>1, <1>2
       DEF Protocol, MutexHeld, NextIsSuccessor, OneWriterPerFile, Persisting
  <1>6. OnlyDrawn'
    BY <1>1, <1>2 DEF Protocol, OnlyDrawn, Persisting
  <1>7. PhotoFromSubmission'
    BY <1>1, <1>3, AdvancesFacts DEF Protocol, PhotoFromSubmission
  <1>8. AnalysedAtMostOnce' /\ GrantedIsDone'
    BY <1>1, <1>3, AdvancesFacts DEF Protocol, AnalysedAtMostOnce, GrantedIsDone
  <1> QED  BY <1>4, <1>5, <1>6, <1>7, <1>8 DEF Protocol

\* Every step keeps the protocol.
LEMMA IndStep == TypeOK /\ Protocol /\ [Next]_vars => Protocol'
  <1> SUFFICES ASSUME TypeOK, Protocol, [Next]_vars PROVE Protocol'
      OBVIOUS
  <1>1. ASSUME NEW c \in Callers, Request(c) PROVE Protocol'
    BY <1>1, IndInitCall, IndSubmitCall DEF Request
  <1>2. ASSUME NEW c \in Callers, Refuse(c) \/ SaveFails(c) PROVE Protocol'
    BY <1>2, IndReturn DEF Refuse, SaveFails
  <1>3. ASSUME NEW c \in Callers, LockForSnap(c) \/ LockForResponse(c)
        PROVE  Protocol'
    BY <1>3, IndLockForSnap, IndLockForResponse
  <1>4. ASSUME NEW c \in Callers, OpenTruncate(c) \/ WriteBytes(c) \/ Saved(c)
        PROVE  Protocol'
    BY <1>4, IndFileWrite
  <1>5. ASSUME NEW c \in Callers, Commit(c) \/ Insert(c) PROVE Protocol'
    BY <1>5, IndPublish
  <1>6. ASSUME Crash \/ Start PROVE Protocol'
    BY <1>6, IndCrash, IndStart
  <1>7. ASSUME StartRefused \/ UNCHANGED vars PROVE Protocol'
    BY <1>7
       DEF StartRefused, vars, TypeOK, Protocol, MemoryFollowsPhase, MutexHeld,
           NextIsSuccessor, OneWriterPerFile, OnlyDrawn, PhotoFromSubmission,
           WriteAhead, AnalysedAtMostOnce, GrantedIsDone, Persisting
  <1> QED
    BY <1>1, <1>2, <1>3, <1>4, <1>5, <1>6, <1>7 DEF Next, Acquire, Proceed

\* The whole invariant, mutual exclusion and the order of the writes included.
THEOREM Invariance == Spec => []IndInv
  <1>1. Init => IndInv
    BY TypeInit, IndInit DEF IndInv
  <1>2. IndInv /\ [Next]_vars => IndInv'
    BY TypeStep, IndStep DEF IndInv
  <1> QED  BY <1>1, <1>2, PTL DEF Spec

\* The file is level with what callers were told, one step ahead, or torn.
THEOREM PersistBeforeCommit == Spec => []WriteAhead
  <1>1. IndInv => WriteAhead
    BY DEF IndInv, Protocol
  <1> QED  BY <1>1, Invariance, PTL

\* No session's photo is handed to the analysis twice.
THEOREM NoSecondAnalysis == Spec => []AnalysedAtMostOnce
  <1>1. IndInv => AnalysedAtMostOnce
    BY DEF IndInv, Protocol
  <1> QED  BY <1>1, Invariance, PTL

\* Nobody waits for the mutex in vain: whoever holds it is at a system call, and
\* no call that holds it comes to wait for it.
THEOREM NoDeadlock == Spec => []HolderRuns
  <1>1. IndInv => HolderRuns
    <2> SUFFICES ASSUME IndInv, NEW c \in Callers, pc[c] \in {"lock", "insert"},
                        mu # NoCaller
                 PROVE  mu # c /\ pc[mu] \in {"open", "write", "close"}
        BY DEF HolderRuns
    <2>1. mu \in Callers
      BY DEF IndInv, TypeOK
    <2>2. Persisting(mu) /\ args[mu].op # "init"
      BY <2>1 DEF IndInv, Protocol, MutexHeld
    <2>3. pc[c] = "insert" => args[c].op = "init"
      BY DEF IndInv, Protocol, NextIsSuccessor
    <2>4. pc[mu] # "insert"
      BY <2>1, <2>2 DEF IndInv, Protocol, NextIsSuccessor
    <2> QED  BY <2>2, <2>3, <2>4 DEF Persisting
  <1> QED  BY <1>1, Invariance, PTL

\* A step of one call takes that call forward, and leaves the others where they
\* are.
LEMMA StepForward ==
  ASSUME TypeOK, NEW c \in Callers, NEW l \in PcValues,
         pc' = [pc EXCEPT ![c] = l],
         pc[c] # "idle" => StepsLeft[l] < StepsLeft[pc[c]]
  PROVE  \A d \in Callers : pc[d] # "idle" =>
           pc'[d] = pc[d] \/ StepsLeft[pc'[d]] < StepsLeft[pc[d]]
  BY DEF TypeOK

\* No step, of its own or of another, takes a call back to where it was: with a
\* goroutine that is run, and a mutex that is passed on, it returns.
THEOREM Forward == Spec => CallsGoForward
  <1> DEFINE Ahead == \A c \in Callers : pc[c] # "idle" =>
                        pc'[c] = pc[c] \/ StepsLeft[pc'[c]] < StepsLeft[pc[c]]
  <1>1. /\ StepsLeft["idle"] = 0 /\ StepsLeft["insert"] = 1 /\ StepsLeft["close"] = 2
        /\ StepsLeft["write"] = 3 /\ StepsLeft["open"] = 4 /\ StepsLeft["lock"] = 5
    BY DEF StepsLeft
  <1>2. \A l \in PcValues : l # "idle" => StepsLeft["idle"] < StepsLeft[l]
    BY <1>1 DEF PcValues
  <1>3. ASSUME TypeOK, Next
        PROVE  Ahead
    <2>1. ASSUME NEW c \in Callers, Request(c)
          PROVE  Ahead
      <3>1. pc[c] = "idle" /\ \E l \in {"open", "lock"} : pc' = [pc EXCEPT ![c] = l]
        BY <2>1
           DEF Request, InitCall, SubmitSnapCall, SubmitResponseCall, SubmitCall
      <3> QED  BY <1>3, <3>1, StepForward DEF PcValues
    <2>2. ASSUME NEW c \in Callers,
                 Refuse(c) \/ Insert(c) \/ SaveFails(c) \/ Commit(c)
          PROVE  Ahead
      <3>1. pc[c] # "idle" /\ pc' = [pc EXCEPT ![c] = "idle"]
        BY <2>2 DEF Refuse, Insert, SaveFails, Commit, Return
      <3>2. StepsLeft["idle"] < StepsLeft[pc[c]]
        BY <1>2, <1>3, <3>1 DEF TypeOK
      <3> QED  BY <1>3, <3>1, <3>2, StepForward DEF PcValues
    <2>3. ASSUME NEW c \in Callers,
                 \/ LockForSnap(c) \/ LockForResponse(c)
                 \/ OpenTruncate(c) \/ WriteBytes(c) \/ Saved(c)
          PROVE  Ahead
      <3>1. \/ pc[c] = "lock" /\ pc' = [pc EXCEPT ![c] = "open"]
            \/ pc[c] = "open" /\ pc' = [pc EXCEPT ![c] = "write"]
            \/ pc[c] = "write" /\ pc' = [pc EXCEPT ![c] = "close"]
            \/ pc[c] = "close" /\ pc' = [pc EXCEPT ![c] = "insert"]
        BY <2>3
           DEF LockForSnap, LockForResponse, LockAndPersist, OpenTruncate,
               WriteBytes, Saved
      <3>2. PICK l \in PcValues : /\ pc' = [pc EXCEPT ![c] = l]
                                  /\ StepsLeft[l] < StepsLeft[pc[c]]
        BY <1>1, <3>1 DEF PcValues
      <3> QED  BY <1>3, <3>2, StepForward
    <2>4. ASSUME Crash
          PROVE  Ahead
      <3>1. \A c \in Callers : pc'[c] = "idle"
        BY <2>4 DEF Crash
      <3> QED  BY <1>2, <1>3, <3>1 DEF TypeOK
    <2>5. ASSUME Start \/ StartRefused
          PROVE  Ahead
      BY <2>5 DEF Start, StartRefused
    <2> QED
      BY <1>3, <2>1, <2>2, <2>3, <2>4, <2>5 DEF Next, Acquire, Proceed
  <1>4. TypeOK /\ [Next]_vars => [Ahead]_vars
    BY <1>3
  <1> HIDE DEF Ahead
  <1>5. Spec => [][Ahead]_vars
    BY <1>4, TypeCorrect, PTL DEF Spec
  <1> QED  BY <1>5 DEF CallsGoForward, Ahead

-----------------------------------------------------------------------------
(***************************************************************************)
(* SnapStore implements SnapFlow                                           *)
(***************************************************************************)

\* The store begins as its promise does.
LEMMA FlowInit == Init => Flow!Init
  BY DEF Init, Flow!Init, Flow!NoSession, NoSession

\* Flow is an instance over the same records.
LEMMA FlowRecords ==
  /\ Flow!Record = Record
  /\ \A old, new : Flow!Advances(old, new) <=> Advances(old, new)
  BY DEF Flow!Record, Flow!Steps, Flow!Advances, Flow!NoSession, Flow!Opened,
         Flow!Submitted, Flow!Finished,
         Record, Steps, Advances, NoSession, Opened, Submitted, Finished

\* Every step of the store is a step of its promise, or none.
LEMMA FlowStep ==
  TypeOK /\ TypeOK' /\ Protocol /\ [Next]_vars => [Flow!Next]_(Flow!vars)
  <1> SUFFICES ASSUME TypeOK, TypeOK', Protocol, [Next]_vars
               PROVE  [Flow!Next]_(Flow!vars)
      OBVIOUS
  <1>1. ASSUME NEW c \in Callers, Commit(c) \/ Insert(c)
        PROVE  Flow!Next
    <2> DEFINE s == args[c].id
    <2>1. Persisting(c) /\ view' = [view EXCEPT ![s] = next[c]] /\ phase' = phase
      BY <1>1 DEF Commit, Insert, Persisting
    <2>2. s \in Sessions /\ phase = "up" /\ Advances(view[s], next[c])
      BY <2>1, PersistingFacts
    <2>3. view'[s] = next[c] /\ \A t \in Sessions \ {s} : view'[t] = view[t]
      BY <2>1, <2>2 DEF TypeOK
    <2>4. Flow!Advance(s)
      BY <2>1, <2>2, <2>3, FlowRecords DEF Flow!Advance, TypeOK
    <2> QED  BY <2>2, <2>4 DEF Flow!Next
  <1>2. ASSUME Crash
        PROVE  Flow!Next
    BY <1>2 DEF Crash, Flow!Next, Flow!Stop
  <1>3. ASSUME Start
        PROVE  Flow!Next
    <2>1. phase # "up" /\ phase' = "up" /\ view' = disk
      BY <1>3 DEF Start, Rehydrated
    <2>2. \A s \in Sessions : disk[s] = view[s] \/ Advances(view[s], disk[s])
      BY <1>3 DEF Start, Loadable, Protocol, WriteAhead
    <2> QED  BY <2>1, <2>2, FlowRecords DEF Flow!Next, Flow!Resume, TypeOK
  <1>4. ASSUME StartRefused
        PROVE  UNCHANGED Flow!vars
    BY <1>4 DEF StartRefused, Flow!vars
  <1>5. ASSUME NEW c \in Callers,
               \/ Request(c) \/ Refuse(c) \/ LockForSnap(c) \/ LockForResponse(c)
               \/ OpenTruncate(c) \/ WriteBytes(c) \/ SaveFails(c) \/ Saved(c)
        PROVE  UNCHANGED Flow!vars
    BY <1>5
       DEF Request, InitCall, SubmitSnapCall, SubmitResponseCall, SubmitCall,
           Refuse, LockForSnap, LockForResponse, LockAndPersist, OpenTruncate,
           WriteBytes, SaveFails, Saved, Flow!vars
  <1>6. CASE UNCHANGED vars
    BY <1>6 DEF vars, Flow!vars
  <1> QED
    BY <1>1, <1>2, <1>3, <1>4, <1>5, <1>6 DEF Next, Acquire, Proceed

\* Seen by its callers, the store with its mutex, its files, its failed writes
\* and its restarts moves one session one step at a time.
THEOREM Refinement == Spec => FlowSpec
  <1>1. IndInv /\ IndInv' /\ [Next]_vars => [Flow!Next]_(Flow!vars)
    BY FlowStep DEF IndInv
  <1> QED  BY <1>1, FlowInit, Invariance, PTL DEF Spec, FlowSpec, Flow!Spec

-----------------------------------------------------------------------------
(***************************************************************************)
(* SnapStore implements SnapRecords, what the server assumes of it         *)
(***************************************************************************)

\* The history variable holds a record of each session, the one in its file if
\* that is whole.
RecordedInv == durable \in [Sessions -> Record] /\ DurableIsWhole

\* The store begins as the server assumes.
LEMMA RecordsInit ==
  RecordedInit => Records!Init /\ RecordedInv
  BY RecordShapes
     DEF RecordedInit, Init, Records!Init, Records!NoSession, NoSession, Torn, TornFiles,
         RecordedInv, DurableIsWhole

\* Records is an instance over the same records.
LEMMA RecordsRecords ==
  /\ Records!Record = Record
  /\ \A old, new : Records!Advances(old, new) <=> Advances(old, new)
  BY DEF Records!Record, Records!Steps, Records!Advances, Records!NoSession,
         Records!Opened, Records!Submitted, Records!Finished,
         Record, Steps, Advances, NoSession, Opened, Submitted, Finished

\* What is kept of the files is a record of each session, and follows the whole
\* ones.
LEMMA RecordedKept ==
  ASSUME TypeOK', RecordedInv, Follow
  PROVE  RecordedInv'
  <1>1. disk' \in [Sessions -> FileContent]
    BY DEF TypeOK
  <1>2. \A s \in Sessions : disk'[s] # Torn => disk'[s] \in Record
    BY <1>1 DEF FileContent
  <1>3. \A s \in Sessions : durable'[s] = IF disk'[s] = Torn THEN durable[s] ELSE disk'[s]
    BY DEF Follow
  <1>4. durable' \in [Sessions -> Record]
    BY <1>2 DEF Follow, RecordedInv
  <1> QED  BY <1>3, <1>4 DEF RecordedInv, DurableIsWhole

\* Nothing of it changes where a file is as it was, or becomes torn.
LEMMA RecordedStays ==
  ASSUME RecordedInv, Follow, NEW s,
         \A t \in Sessions \ {s} : disk'[t] = disk[t]
  PROVE  /\ s \in Sessions /\ disk'[s] \in {disk[s], Torn} => durable' = durable
         /\ s \notin Sessions => durable' = durable
         /\ s \in Sessions /\ disk'[s] # Torn =>
              durable' = [durable EXCEPT ![s] = disk'[s]]
  <1>1. /\ durable \in [Sessions -> Record]
        /\ durable' = [t \in Sessions |-> IF disk'[t] = Torn THEN durable[t] ELSE disk'[t]]
    BY DEF RecordedInv, Follow
  <1>2. \A t \in Sessions : disk[t] # Torn => durable[t] = disk[t]
    BY DEF RecordedInv, DurableIsWhole
  <1>3. \A t \in Sessions \ {s} : durable'[t] = durable[t]
    BY <1>1, <1>2
  <1>4. s \in Sessions /\ disk'[s] \in {disk[s], Torn} => durable'[s] = durable[s]
    BY <1>1, <1>2
  <1>5. s \in Sessions /\ disk'[s] # Torn => durable'[s] = disk'[s]
    BY <1>1
  <1> QED  BY <1>1, <1>3, <1>4, <1>5

\* Which files are torn, after one of them has changed.
LEMMA TornFollows ==
  ASSUME NEW s \in Sessions, \A t \in Sessions \ {s} : disk'[t] = disk[t]
  PROVE  /\ disk'[s] # Torn => TornFiles' = TornFiles \ {s}
         /\ disk'[s] = Torn => TornFiles' = TornFiles \cup {s}
  BY DEF TornFiles

\* Every step of the store is one that the server assumes, or none.
LEMMA RecordsStep ==
  ASSUME TypeOK, TypeOK', Protocol, RecordedInv, [Next /\ Follow]_<<vars, durable>>
  PROVE  [Records!Next]_(Records!vars) /\ RecordedInv'
  <1>1. CASE UNCHANGED <<vars, durable>>
    BY <1>1 DEF vars, Records!vars, TornFiles, RecordedInv, DurableIsWhole
  <1>2. CASE Next /\ Follow
    <2>1. RecordedInv'
      BY <1>2, RecordedKept
    <2>2. ASSUME NEW c \in Callers, Commit(c) \/ Insert(c)
          PROVE  Records!Next
      <3> DEFINE s == args[c].id
                 r == next[c]
      <3>1. /\ Persisting(c) /\ pc[c] \in {"close", "insert"}
            /\ view' = [view EXCEPT ![s] = r] /\ phase' = phase /\ disk' = disk
        BY <2>2 DEF Commit, Insert, Persisting
      <3>2. s \in Sessions /\ phase = "up" /\ Advances(view[s], r) /\ r \in Record
        BY <3>1, PersistingFacts, AdvancesFacts
      <3>3. disk[s] = r
        BY <3>1 DEF Protocol, NextIsSuccessor
      <3> HIDE DEF s, r
      <3>4. durable' = [durable EXCEPT ![s] = r]
        BY <1>2, <3>1, <3>2, <3>3, RecordShapes, RecordedStays
      <3>5. TornFiles' = TornFiles \ {s}
        BY <3>1, <3>2, <3>3, TornFollows, RecordShapes
      <3>6. Records!Move(s, r)
        BY <3>1, <3>2, <3>4, <3>5, RecordsRecords DEF Records!Move
      <3> QED  BY <3>2, <3>6, RecordsRecords DEF Records!Next
    <2>3. ASSUME NEW c \in Callers, WriteBytes(c)
          PROVE  Records!Next
      <3> DEFINE s == args[c].id
                 r == next[c]
      <3>1. /\ Persisting(c) /\ disk' = [disk EXCEPT ![s] = r]
            /\ view' = view /\ phase' = phase
        BY <2>3 DEF WriteBytes, Persisting
      <3>2. s \in Sessions /\ phase = "up" /\ Advances(view[s], r) /\ r \in Record
        BY <3>1, PersistingFacts, AdvancesFacts
      <3> HIDE DEF s, r
      <3>3. disk'[s] = r /\ \A t \in Sessions \ {s} : disk'[t] = disk[t]
        BY <3>1, <3>2 DEF TypeOK
      <3>4. durable' = [durable EXCEPT ![s] = r]
        BY <1>2, <3>2, <3>3, RecordShapes, RecordedStays
      <3>5. TornFiles' = TornFiles \ {s}
        BY <3>2, <3>3, TornFollows, RecordShapes
      <3>6. Records!Save(s, r)
        BY <3>1, <3>2, <3>4, <3>5, RecordsRecords DEF Records!Save
      <3> QED  BY <3>2, <3>6, RecordsRecords DEF Records!Next
    <2>4. ASSUME NEW c \in Callers, OpenTruncate(c)
          PROVE  Records!Next
      <3> DEFINE s == args[c].id
                 r == next[c]
      <3>1. /\ Persisting(c) /\ disk' = [disk EXCEPT ![s] = Torn]
            /\ view' = view /\ phase' = phase
        BY <2>4 DEF OpenTruncate, Persisting
      <3>2. s \in Sessions /\ phase = "up" /\ Advances(view[s], r) /\ r \in Record
        BY <3>1, PersistingFacts, AdvancesFacts
      <3> HIDE DEF s, r
      <3>3. disk'[s] = Torn /\ \A t \in Sessions \ {s} : disk'[t] = disk[t]
        BY <3>1, <3>2 DEF TypeOK
      <3>4. durable' = durable
        BY <1>2, <3>2, <3>3, RecordedStays
      <3>5. TornFiles' = TornFiles \cup {s}
        BY <3>2, <3>3, TornFollows
      <3>6. Records!Tear(s, r)
        BY <3>1, <3>2, <3>4, <3>5, RecordsRecords DEF Records!Tear
      <3> QED  BY <3>2, <3>6, RecordsRecords DEF Records!Next
    <2>5. disk' = disk => durable' = durable /\ TornFiles' = TornFiles
      <3>1. CASE Sessions = {}
        BY <1>2, <3>1 DEF Follow, RecordedInv, TornFiles
      <3>2. CASE \E s : s \in Sessions
        BY <1>2, <3>2, RecordedStays DEF TornFiles
      <3> QED  BY <3>1, <3>2
    <2>6. ASSUME Crash
          PROVE  Records!Next
      <3>1. phase = "up" /\ phase' = "down" /\ view' = view /\ disk' = disk
        BY <2>6 DEF Crash
      <3>2. durable' = durable /\ TornFiles' = TornFiles
        BY <2>5, <3>1
      <3>3. Records!Stop
        BY <3>1, <3>2 DEF Records!Stop
      <3> QED  BY <3>3 DEF Records!Next
    <2>7. ASSUME Start
          PROVE  Records!Next
      <3>1. phase # "up" /\ phase' = "up" /\ view' = disk /\ disk' = disk
        BY <2>7 DEF Start, Rehydrated
      <3>2. \A s \in Sessions : disk[s] = durable[s]
        BY <2>7 DEF Start, Loadable, RecordedInv, DurableIsWhole
      <3>3. disk = durable
        BY <3>2 DEF TypeOK, RecordedInv
      <3>4. durable' = durable /\ TornFiles' = TornFiles
        BY <2>5, <3>1
      <3>5. TornFiles = {}
        BY <2>7 DEF Start, Loadable, TornFiles
      <3>6. Records!Start
        BY <3>1, <3>3, <3>4, <3>5 DEF Records!Start
      <3> QED  BY <3>6 DEF Records!Next
    <2>8. ASSUME StartRefused
          PROVE  UNCHANGED Records!vars
      <3>1. phase # "up" /\ phase' = "refused" /\ view' = view /\ disk' = disk
        BY <2>8 DEF StartRefused
      <3>2. durable' = durable /\ TornFiles' = TornFiles
        BY <2>5, <3>1
      <3> QED  BY <3>1, <3>2 DEF Records!vars
    <2>9. ASSUME NEW c \in Callers,
                 \/ Request(c) \/ Refuse(c) \/ LockForSnap(c) \/ LockForResponse(c)
                 \/ SaveFails(c) \/ Saved(c)
          PROVE  UNCHANGED Records!vars
      <3>1. UNCHANGED <<phase, view, disk>>
        BY <2>9
           DEF Request, InitCall, SubmitSnapCall, SubmitResponseCall, SubmitCall,
               Refuse, LockForSnap, LockForResponse, LockAndPersist, SaveFails, Saved
      <3> QED  BY <2>5, <3>1 DEF Records!vars
    <2>10. [Records!Next]_(Records!vars)
      BY <1>2, <2>2, <2>3, <2>4, <2>6, <2>7, <2>8, <2>9 DEF Next, Acquire, Proceed
    <2> QED  BY <2>1, <2>10
  <1> QED  BY <1>1, <1>2

\* What the server assumes of the session store holds of the store with its
\* mutex, its system calls and its refused starts: a call tells its caller only
\* what is on disk, whole; what is on disk beyond that is one step of a call that
\* is under way or has failed, or a file torn by it; and a start goes by files
\* that are whole.
THEOREM RecordsRefinement == RecordedSpec => RecordsSpec
  <1>1. RecordedSpec => Spec
    <2>1. [Next /\ Follow]_<<vars, durable>> => [Next]_vars
      BY DEF vars
    <2>2. RecordedInit => Init
      BY DEF RecordedInit
    <2> QED  BY <2>1, <2>2, PTL DEF RecordedSpec, Spec
  <1>2. IndInv /\ IndInv' /\ RecordedInv /\ [Next /\ Follow]_<<vars, durable>>
          => [Records!Next]_(Records!vars) /\ RecordedInv'
    BY RecordsStep DEF IndInv
  <1>3. RecordedInit => Records!Init /\ RecordedInv
    BY RecordsInit
  <1> QED
    BY <1>1, <1>2, <1>3, Invariance, PTL DEF RecordedSpec, RecordsSpec, Records!Spec

\* What is on disk, beside what the callers know: the same, or one step ahead.
RecordsInv ==
  /\ view \in [Sessions -> Record] /\ durable \in [Sessions -> Record]
  /\ \A s \in Sessions : durable[s] = view[s] \/ Advances(view[s], durable[s])

\* A step that the server assumes is a step of the flow, or none.
LEMMA RecordsFlowStep ==
  ASSUME RecordsInv, [Records!Next]_(Records!vars)
  PROVE  RecordsInv' /\ [Flow!Next]_(Flow!vars)
  <1>1. ASSUME NEW s \in Sessions, NEW r \in Record, Records!Save(s, r)
        PROVE  RecordsInv' /\ UNCHANGED Flow!vars
    <2>1. /\ Advances(view[s], r) /\ view' = view /\ (phase = "up")' = (phase = "up")
          /\ durable' = [durable EXCEPT ![s] = r]
      BY <1>1, RecordsRecords DEF Records!Save
    <2> QED  BY <2>1 DEF RecordsInv, Flow!vars
  <1>2. ASSUME NEW s \in Sessions, NEW r \in Record, Records!Move(s, r)
        PROVE  RecordsInv' /\ Flow!Next
    <2>1. /\ phase = "up" /\ Advances(view[s], r) /\ (phase = "up")' = (phase = "up")
          /\ durable' = [durable EXCEPT ![s] = r] /\ view' = [view EXCEPT ![s] = r]
      BY <1>2, RecordsRecords DEF Records!Move
    <2>2. RecordsInv'
      BY <2>1 DEF RecordsInv
    <2>3. Flow!Advance(s)
      BY <2>1, <2>2, FlowRecords DEF Flow!Advance, RecordsInv
    <2> QED  BY <2>2, <2>3 DEF Flow!Next
  <1>3. ASSUME Records!Stop
        PROVE  RecordsInv' /\ Flow!Next
    <2>1. /\ phase = "up" /\ (phase = "up")' = FALSE /\ view' = view /\ durable' = durable
      BY <1>3 DEF Records!Stop
    <2>2. Flow!Stop
      BY <2>1 DEF Flow!Stop
    <2> QED  BY <2>1, <2>2 DEF RecordsInv, Flow!Next
  <1>4. ASSUME Records!Start
        PROVE  RecordsInv' /\ Flow!Next
    <2>1. /\ phase # "up" /\ (phase = "up")' = TRUE /\ view' = durable /\ durable' = durable
      BY <1>4 DEF Records!Start
    <2>2. Flow!Resume
      BY <2>1, FlowRecords DEF Flow!Resume, RecordsInv
    <2> QED  BY <2>1, <2>2 DEF RecordsInv, Flow!Next
  <1>5. ASSUME NEW s \in Sessions, NEW r \in Record, Records!Tear(s, r)
        PROVE  RecordsInv' /\ UNCHANGED Flow!vars
    BY <1>5 DEF Records!Tear, RecordsInv, Flow!vars
  <1>6. CASE UNCHANGED Records!vars
    BY <1>6 DEF Records!vars, Flow!vars, RecordsInv
  <1> QED
    BY <1>1, <1>2, <1>3, <1>4, <1>5, <1>6, RecordsRecords DEF Records!Next

\* What the server assumes of the session store is no less than the flow: the
\* order of the steps and the photo of a session follow from it alone.
THEOREM RecordsAreFlow == RecordsSpec => FlowSpec
  <1>1. Records!Init => RecordsInv /\ Flow!Init
    BY RecordShapes
       DEF Records!Init, Records!NoSession, Flow!Init, Flow!NoSession, NoSession,
           RecordsInv
  <1> QED
    BY <1>1, RecordsFlowStep, PTL DEF RecordsSpec, FlowSpec, Records!Spec, Flow!Spec
=============================================================================
