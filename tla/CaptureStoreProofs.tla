------------------------- MODULE CaptureStoreProofs -------------------------
(***************************************************************************)
(* CaptureStore for any number of requests and captures: its inductive     *)
(* invariant, from it what a listing promises, and that the store          *)
(* implements CaptureShelf, the server's view of it.                       *)
(***************************************************************************)
EXTENDS CaptureStore, FiniteSetTheorems, SequenceTheorems, TLAPS

\* Moving the head of one sequence to the end of another leaves what the two
\* make up together.
LEMMA MoveHead ==
  ASSUME NEW S, NEW p \in Seq(S), NEW t \in Seq(S), t # <<>>
  PROVE  /\ Append(p, Head(t)) \in Seq(S) /\ Tail(t) \in Seq(S)
         /\ Append(p, Head(t)) \o Tail(t) = p \o t
  <1>1. /\ Head(t) \in S /\ Tail(t) \in Seq(S) /\ Head(t) = t[1]
        /\ Len(t) \in Nat /\ Len(t) # 0 /\ Len(p) \in Nat
        /\ Len(Tail(t)) = Len(t) - 1
        /\ \A i \in 1..Len(Tail(t)) : Tail(t)[i] = t[i + 1]
    BY HeadTailProperties, EmptySeq, LenProperties
  <1> DEFINE a == Append(p, Head(t))
  <1>2. /\ a \in Seq(S) /\ Len(a) = Len(p) + 1 /\ a[Len(p) + 1] = Head(t)
        /\ \A i \in 1..Len(p) : a[i] = p[i]
    BY <1>1, AppendProperties
  <1> HIDE DEF a
  <1>3. /\ a \o Tail(t) \in Seq(S) /\ p \o t \in Seq(S)
        /\ Len(a \o Tail(t)) = Len(p) + Len(t) /\ Len(p \o t) = Len(p) + Len(t)
    <2>1. a \o Tail(t) \in Seq(S) /\ Len(a \o Tail(t)) = Len(a) + Len(Tail(t))
      BY <1>1, <1>2, ConcatProperties
    <2>2. p \o t \in Seq(S) /\ Len(p \o t) = Len(p) + Len(t)
      BY ConcatProperties
    <2>3. Len(a) + Len(Tail(t)) = Len(p) + Len(t)
      BY <1>1, <1>2
    <2> QED  BY <2>1, <2>2, <2>3
  <1>4. ASSUME NEW i \in 1..(Len(p) + Len(t))
        PROVE  (a \o Tail(t))[i] = (p \o t)[i]
    <2>1. (a \o Tail(t))[i] = IF i <= Len(a) THEN a[i] ELSE Tail(t)[i - Len(a)]
      <3>1. a \in Seq(S) /\ Tail(t) \in Seq(S) /\ i \in 1..(Len(a) + Len(Tail(t)))
        BY <1>1, <1>2
      <3> QED  BY <3>1, ConcatProperties
    <2>2. (p \o t)[i] = IF i <= Len(p) THEN p[i] ELSE t[i - Len(p)]
      BY ConcatProperties
    <2>3. CASE i <= Len(p)
      BY <1>1, <1>2, <2>1, <2>2, <2>3
    <2>4. CASE i = Len(p) + 1
      BY <1>1, <1>2, <2>1, <2>2, <2>4
    <2>5. CASE i > Len(p) + 1
      <3>1. i - Len(a) \in 1..Len(Tail(t)) /\ i - Len(a) + 1 = i - Len(p)
        BY <1>1, <1>2, <2>5
      <3> QED  BY <1>1, <1>2, <2>1, <2>2, <2>5, <3>1
    <2>6. i <= Len(p) \/ i = Len(p) + 1 \/ i > Len(p) + 1
      BY <1>1
    <2> QED  BY <2>3, <2>4, <2>5, <2>6
  <1>5. a \o Tail(t) = p \o t
    BY <1>3, <1>4, SeqEqual
  <1> QED  BY <1>1, <1>2, <1>5 DEF a

\* An ordering of a finite set holds each of its elements once.
LEMMA OrderingOfSet ==
  ASSUME NEW S, IsFiniteSet(S), NEW q \in SetToSeqs(S)
  PROVE  q \in Seq(S) /\ IsInjective(q) /\ ToSet(q) = S
  <1> DEFINE n == Cardinality(S)
  <1>1. n \in Nat /\ IsFiniteSet(1..n) /\ Cardinality(1..n) = n
    BY FS_CardinalityType, FS_Interval
  <1>2. q \in [1..n -> S] /\ \A i, j \in 1..n : i # j => q[i] # q[j]
    BY DEF SetToSeqs
  <1> HIDE DEF n
  <1>3. IsInjective(q)
    BY <1>2 DEF IsInjective
  <1>4. q \in Injection(1..n, S)
    BY <1>2, <1>3 DEF Injection
  <1>5. q \in Surjection(1..n, S)
    BY <1>1, <1>4, FS_Injection DEF n
  <1>6. ToSet(q) = S
    BY <1>2, <1>5 DEF ToSet, Surjection
  <1>7. q \in Seq(S)
    BY <1>1, <1>2
  <1> QED  BY <1>3, <1>6, <1>7

\* What is known of a sequence is known of its beginning.
LEMMA BeginningOf ==
  ASSUME NEW S, NEW p \in Seq(S), NEW t \in Seq(S)
  PROVE  /\ DOMAIN p \subseteq DOMAIN (p \o t)
         /\ \A i \in DOMAIN p : (p \o t)[i] = p[i] /\ i \in Nat
         /\ p \o t \in Seq(S)
  BY ConcatProperties, LenProperties

-----------------------------------------------------------------------------
(***************************************************************************)
(* The inductive invariant.  Every lemma below is about one group of       *)
(* actions and takes the invariant in the state before the step.           *)
(***************************************************************************)

\* The store starts empty, with nothing under way.
LEMMA IndInit == Init => IndInv
  <1> SUFFICES ASSUME Init PROVE IndInv
      OBVIOUS
  <1>1. TypeOK
    BY EmptySeq DEF Init, TypeOK, PcValues, Absent, NothingSeen
  <1>2. IsFiniteSet(drawn)
    BY FS_EmptySet DEF Init
  <1>3. WorkFits /\ SavedByOne /\ TimesArePast
    BY NoCaptureAssumption
       DEF Init, WorkFits, SavedByOne, TimesArePast, Absent
  <1>4. LaterIsNewer /\ AnsweredIsIndexed /\ ListingIsWhole /\ IndexedHasBytes
    BY DEF Init, LaterIsNewer, AnsweredIsIndexed, ListingIsWhole, IndexedHasBytes,
           Indexed
  <1> QED  BY <1>1, <1>2, <1>3, <1>4 DEF IndInv

\* Only a running process has a handler that is not idle.
LEMMA UpWhileBusy ==
  ASSUME IndInv, NEW c \in Callers, pc[c] # "idle"
  PROVE  up
  BY DEF IndInv, TypeOK, WorkFits

\* A listing under way is a sequence of captures.
LEMMA ListingType ==
  ASSUME TypeOK, NEW c \in Callers
  PROVE  Listing(c) \in Seq(Captures)
  BY ConcatProperties DEF TypeOK, Listing

\* The listings are left alone by a step that keeps their parts and the map.
LEMMA ListingsKept ==
  ASSUME IndInv, UNCHANGED <<todo, page, seen>>,
         \A c \in Callers : pc'[c] \in {"listing", "listed"}
                             => pc[c] \in {"listing", "listed"},
         \A k \in Indexed : objects'[k] = objects[k]
  PROVE  ListingIsWhole'
  <1> SUFFICES ASSUME NEW c \in Callers, pc'[c] \in {"listing", "listed"}
               PROVE  ListingIsWhole!(c)'
      BY DEF ListingIsWhole
  <1> DEFINE q == Listing(c)
  <1>1. q' = q /\ seen'[c] = seen[c] /\ q \in Seq(Captures)
    BY ListingType DEF Listing, IndInv
  <1>2. /\ IsInjective(q) /\ NewestFirst(q)
        /\ seen[c].lived \subseteq ToSet(q) /\ ToSet(q) \subseteq Indexed
    BY DEF IndInv, ListingIsWhole
  <1> HIDE DEF q
  <1>3. \A i \in DOMAIN q : q[i] \in Indexed
    BY <1>2 DEF ToSet
  <1>4. NewestFirst(q)'
    BY <1>1, <1>2, <1>3 DEF NewestFirst
  <1>5. ToSet(q) \subseteq Indexed'
    BY <1>2 DEF Indexed, IndInv, TypeOK
  <1> QED  BY <1>1, <1>2, <1>4, <1>5 DEF q

\* An upload begins under a fresh id.
LEMMA IndSaveCall ==
  ASSUME IndInv, NEW c \in Callers, NEW k \in Captures, SaveCall(c, k)
  PROVE  IndInv'
  <1>1. /\ up /\ pc[c] = "idle" /\ k \notin drawn
        /\ pc' = [pc EXCEPT ![c] = "open"]
        /\ id' = [id EXCEPT ![c] = k]
        /\ clock' = clock + 1
        /\ drawn' = drawn \cup {k}
        /\ later' = later \cup (acked \X {k})
        /\ UNCHANGED <<up, file, objects, stamp, todo, page, acked, lived, seen>>
    BY DEF SaveCall, Goto
  <1>2. clock \in Nat /\ clock' \in Nat /\ clock < clock' /\ clock' # 0
    BY <1>1 DEF IndInv, TypeOK
  <1>3. TypeOK'
    BY <1>1, <1>2 DEF IndInv, TypeOK, PcValues
  <1>4. IsFiniteSet(drawn')
    BY <1>1, FS_AddElement DEF IndInv
  <1>5. WorkFits'
    BY <1>1, NoCaptureAssumption DEF IndInv, TypeOK, WorkFits
  <1>6. SavedByOne'
    BY <1>1, NoCaptureAssumption
       DEF IndInv, TypeOK, SavedByOne, AnsweredIsIndexed
  <1>7. TimesArePast'
    BY <1>1, <1>2 DEF IndInv, TypeOK, TimesArePast
  <1>8. LaterIsNewer'
    <2> SUFFICES ASSUME NEW i \in Captures, NEW j \in Captures, <<i, j>> \in later'
                 PROVE  LaterIsNewer!(i, j)'
        BY DEF LaterIsNewer
    <2>1. objects[i] \in Nat /\ objects[i] <= clock
      BY DEF IndInv, TypeOK, TimesArePast
    <2>2. CASE <<i, j>> \in later
      BY <1>1, <1>2, <2>1, <2>2 DEF IndInv, TypeOK, LaterIsNewer, Indexed
    <2>3. CASE <<i, j>> \notin later
      <3>1. i \in acked /\ j = k
        BY <1>1, <2>3
      <3>2. objects[k] = Absent
        BY <1>1 DEF IndInv, SavedByOne
      <3> QED
        BY <1>1, <1>2, <2>1, <3>1, <3>2, NoCaptureAssumption
           DEF IndInv, TypeOK, SavedByOne, Indexed
    <2> QED  BY <2>2, <2>3
  <1>9. AnsweredIsIndexed' /\ IndexedHasBytes'
    BY <1>1 DEF IndInv, AnsweredIsIndexed, IndexedHasBytes, Indexed
  <1>10. ListingIsWhole'
    BY <1>1, ListingsKept DEF IndInv, TypeOK
  <1> QED
    BY <1>3, <1>4, <1>5, <1>6, <1>7, <1>8, <1>9, <1>10 DEF IndInv

\* The file, and the time.
LEMMA IndFile ==
  ASSUME IndInv, NEW c \in Callers, Create(c) \/ WriteBytes(c) \/ Stamp(c)
  PROVE  IndInv'
  <1>1. /\ pc[c] \in {"open", "write", "close"}
        /\ \/ /\ pc[c] # "close" /\ stamp' = stamp
              /\ \E l \in {"write", "close"}, f \in {"torn", "full"} :
                   /\ pc' = [pc EXCEPT ![c] = l] /\ (l = "close" => f = "full")
                   /\ file' = [file EXCEPT ![id[c]] = f]
           \/ /\ pc[c] = "close" /\ file' = file
              /\ pc' = [pc EXCEPT ![c] = "index"]
              /\ stamp' = [stamp EXCEPT ![c] = clock]
        /\ UNCHANGED <<up, objects, clock, id, todo, page, history>>
    BY DEF Create, WriteBytes, Stamp, Goto
  <1>2. /\ id[c] \in Captures /\ id[c] \in drawn /\ objects[id[c]] = Absent
        /\ \A d \in Callers \ {c} : id[d] # id[c]
        /\ pc[c] = "close" => file[id[c]] = "full"
    BY <1>1 DEF IndInv, TypeOK, WorkFits, SavedByOne
  <1>3. clock \in Nat /\ clock # 0
    BY <1>2 DEF IndInv, TypeOK, TimesArePast
  <1>4. TypeOK'
    <2>1. pc' \in [Callers -> PcValues]
      BY <1>1 DEF IndInv, TypeOK, PcValues
    <2>2. file' \in [Captures -> {"none", "torn", "full"}]
      BY <1>1 DEF IndInv, TypeOK
    <2>3. stamp' \in [Callers -> Nat]
      BY <1>1, <1>3 DEF IndInv, TypeOK
    <2> QED  BY <1>1, <2>1, <2>2, <2>3 DEF IndInv, TypeOK, history
  <1>5. IsFiniteSet(drawn')
    BY <1>1 DEF IndInv, history
  <1>6. WorkFits'
    BY <1>1 DEF IndInv, TypeOK, WorkFits
  <1>7. SavedByOne'
    BY <1>1, <1>2 DEF IndInv, TypeOK, SavedByOne, history
  <1>8. TimesArePast'
    <2>1. /\ stamp'[c] <= clock /\ (pc'[c] = "index" => stamp'[c] # 0)
          /\ \A d \in Callers \ {c} : stamp'[d] = stamp[d] /\ pc'[d] = pc[d]
      BY <1>1, <1>3 DEF IndInv, TypeOK, TimesArePast
    <2> QED
      BY <1>1, <1>3, <2>1 DEF IndInv, TimesArePast, Absent, history
  <1>9. LaterIsNewer'
    BY <1>1 DEF IndInv, TypeOK, LaterIsNewer, Indexed, history
  <1>10. AnsweredIsIndexed'
    BY <1>1 DEF IndInv, AnsweredIsIndexed, Indexed, history
  <1>11. IndexedHasBytes'
    BY <1>1, <1>2 DEF IndInv, TypeOK, IndexedHasBytes, Indexed
  <1>12. ListingIsWhole'
    BY <1>1, ListingsKept DEF IndInv, TypeOK, history
  <1> QED
    BY <1>4, <1>5, <1>6, <1>7, <1>8, <1>9, <1>10, <1>11, <1>12 DEF IndInv

\* The capture enters the map, after its file is complete.
LEMMA IndIndex ==
  ASSUME IndInv, NEW c \in Callers, Index(c)
  PROVE  IndInv'
  <1> DEFINE k == id[c]
  <1>1. /\ pc[c] = "index"
        /\ objects' = [objects EXCEPT ![k] = stamp[c]]
        /\ stamp' = [stamp EXCEPT ![c] = Absent]
        /\ pc' = [pc EXCEPT ![c] = "answer"]
        /\ UNCHANGED <<up, file, clock, id, todo, page, history>>
    BY DEF Index, Goto
  <1>2. /\ k \in Captures /\ k # NoCapture /\ k \in drawn \ acked
        /\ \A d \in Callers \ {c} : id[d] # k
        /\ file[k] = "full" /\ objects[k] = Absent
    BY <1>1 DEF IndInv, TypeOK, WorkFits, SavedByOne
  <1>3. /\ stamp[c] \in Nat /\ stamp[c] # Absent /\ stamp[c] <= clock
        /\ clock \in Nat /\ Absent \in Nat /\ Absent <= clock
    BY <1>1 DEF IndInv, TypeOK, TimesArePast, Absent
  <1>4. objects'[k] = stamp[c] /\ \A j \in Captures \ {k} : objects'[j] = objects[j]
    BY <1>1, <1>2 DEF IndInv, TypeOK
  <1>5. TypeOK'
    BY <1>1, <1>3 DEF IndInv, TypeOK, PcValues, history
  <1>6. IsFiniteSet(drawn')
    BY <1>1 DEF IndInv, history
  <1>7. WorkFits'
    BY <1>1 DEF IndInv, TypeOK, WorkFits
  <1>8. SavedByOne'
    <2>1. \A j \in Captures \ drawn' : objects'[j] = Absent
      BY <1>1, <1>2, <1>4 DEF IndInv, SavedByOne, history
    <2>2. ASSUME NEW d \in Callers, id'[d] # NoCapture
          PROVE  /\ id'[d] \in drawn' \ acked'
                 /\ \A e \in Callers \ {d} : id'[e] # id'[d]
                 /\ pc'[d] \in {"close", "index", "answer"} => file'[id'[d]] = "full"
                 /\ objects'[id'[d]] # Absent <=> pc'[d] = "answer"
      <3>1. CASE d = c
        BY <1>1, <1>2, <1>3, <1>4, <2>2, <3>1 DEF IndInv, TypeOK, history
      <3>2. CASE d # c
        BY <1>1, <1>2, <1>4, <2>2, <3>2 DEF IndInv, TypeOK, SavedByOne, history
      <3> QED  BY <3>1, <3>2
    <2> QED  BY <2>1, <2>2 DEF SavedByOne
  <1>9. TimesArePast'
    BY <1>1, <1>3, <1>4 DEF IndInv, TypeOK, TimesArePast, history
  <1>10. LaterIsNewer'
    <2> SUFFICES ASSUME NEW i \in Captures, NEW j \in Captures, <<i, j>> \in later'
                 PROVE  LaterIsNewer!(i, j)'
        BY DEF LaterIsNewer
    <2>1. <<i, j>> \in later /\ i \in acked /\ i # k /\ objects'[i] = objects[i]
      BY <1>1, <1>2, <1>4 DEF IndInv, LaterIsNewer, history
    <2>2. j = k => objects[i] < stamp[c]
      BY <1>1, <2>1 DEF IndInv, LaterIsNewer
    <2> QED
      BY <1>1, <1>2, <1>4, <2>1, <2>2
         DEF IndInv, TypeOK, LaterIsNewer, Indexed, history
  <1>11. AnsweredIsIndexed' /\ IndexedHasBytes'
    BY <1>1, <1>2, <1>3, <1>4
       DEF IndInv, AnsweredIsIndexed, IndexedHasBytes, Indexed, history
  <1>12. ListingIsWhole'
    <2>1. \A j \in Indexed : objects'[j] = objects[j]
      BY <1>2, <1>4 DEF Indexed
    <2> QED
      BY <1>1, <2>1, ListingsKept DEF IndInv, TypeOK, history
  <1> QED
    BY <1>5, <1>6, <1>7, <1>8, <1>9, <1>10, <1>11, <1>12 DEF IndInv

\* The save ends, with an error or with an answer that names the capture.
LEMMA IndSaveEnds ==
  ASSUME IndInv, NEW c \in Callers, SaveFails(c) \/ AnswerUpload(c)
  PROVE  IndInv'
  <1>1. /\ pc[c] \in {"open", "write", "close", "answer"}
        /\ pc' = [pc EXCEPT ![c] = "idle"]
        /\ id' = [id EXCEPT ![c] = NoCapture]
        /\ \/ acked' = acked /\ lived' = lived
           \/ /\ pc[c] = "answer" /\ acked' = acked \cup {id[c]}
              /\ lived' = lived \cup {id[c]}
        /\ UNCHANGED <<up, file, objects, clock, stamp, todo, page, drawn, seen, later>>
    BY DEF SaveFails, AnswerUpload, Goto, history
  <1>2. /\ up /\ id[c] \in Captures /\ id[c] \in drawn \ acked
        /\ \A d \in Callers \ {c} : id[d] # id[c]
        /\ pc[c] = "answer" => objects[id[c]] # Absent
    BY <1>1, UpWhileBusy DEF IndInv, TypeOK, WorkFits, SavedByOne
  <1>3. TypeOK'
    BY <1>1, <1>2 DEF IndInv, TypeOK, PcValues
  <1>4. IsFiniteSet(drawn')
    BY <1>1 DEF IndInv
  <1>5. WorkFits'
    BY <1>1 DEF IndInv, TypeOK, WorkFits
  <1>6. SavedByOne'
    BY <1>1, <1>2 DEF IndInv, TypeOK, SavedByOne
  <1>7. TimesArePast'
    BY <1>1 DEF IndInv, TypeOK, TimesArePast
  <1>8. LaterIsNewer'
    BY <1>1, NoCaptureAssumption DEF IndInv, TypeOK, LaterIsNewer, Indexed
  <1>9. AnsweredIsIndexed' /\ IndexedHasBytes'
    BY <1>1, <1>2 DEF IndInv, AnsweredIsIndexed, IndexedHasBytes, Indexed
  <1>10. ListingIsWhole'
    BY <1>1, ListingsKept DEF IndInv, TypeOK
  <1> QED
    BY <1>3, <1>4, <1>5, <1>6, <1>7, <1>8, <1>9, <1>10 DEF IndInv

-----------------------------------------------------------------------------
\* A step of one listing: the map, the saves and the other listings stay.
LEMMA IndListing ==
  ASSUME IndInv, NEW c \in Callers,
         pc[c] \in {"idle", "listing", "listed"}, up,
         NEW l \in {"idle", "listing", "listed"}, pc' = [pc EXCEPT ![c] = l],
         NEW t \in Seq(Captures), todo' = [todo EXCEPT ![c] = t],
         NEW p \in Seq(Captures), page' = [page EXCEPT ![c] = p],
         NEW v \in [acked : SUBSET Captures, lived : SUBSET Captures],
         seen' = [seen EXCEPT ![c] = v],
         UNCHANGED <<up, file, objects, clock, id, stamp, drawn, acked, lived, later>>,
         l = "idle" => t = <<>> /\ p = <<>>,
         l = "listed" => t = <<>>,
         l # "idle" => /\ IsInjective(p \o t) /\ NewestFirst(p \o t)
                       /\ v.lived \subseteq ToSet(p \o t)
                       /\ ToSet(p \o t) \subseteq Indexed
  PROVE  IndInv'
  <1>1. TypeOK'
    <2>1. seen' \in [Callers -> [acked : SUBSET Captures, lived : SUBSET Captures]]
      BY DEF IndInv, TypeOK
    <2> QED  BY <2>1 DEF IndInv, TypeOK, PcValues
  <1>2. WorkFits'
    BY DEF IndInv, TypeOK, WorkFits
  <1>3. SavedByOne'
    BY DEF IndInv, TypeOK, WorkFits, SavedByOne
  <1>4. TimesArePast' /\ LaterIsNewer'
    BY DEF IndInv, TypeOK, WorkFits, TimesArePast, LaterIsNewer, Indexed
  <1>5. IsFiniteSet(drawn') /\ AnsweredIsIndexed' /\ IndexedHasBytes'
    BY DEF IndInv, AnsweredIsIndexed, IndexedHasBytes, Indexed
  <1>6. ListingIsWhole'
    <2> SUFFICES ASSUME NEW d \in Callers, pc'[d] \in {"listing", "listed"}
                 PROVE  ListingIsWhole!(d)'
        BY DEF ListingIsWhole
    <2>1. CASE d = c
      <3>1. Listing(d)' = p \o t /\ seen'[d] = v /\ l # "idle"
        BY <2>1 DEF Listing, IndInv, TypeOK
      <3>2. NewestFirst(p \o t)' /\ Indexed' = Indexed
        BY <3>1 DEF NewestFirst, Indexed
      <3> QED  BY <3>1, <3>2
    <2>2. CASE d # c
      <3>1. Listing(d)' = Listing(d) /\ seen'[d] = seen[d] /\ pc'[d] = pc[d]
        BY <2>2 DEF Listing, IndInv, TypeOK
      <3>2. NewestFirst(Listing(d)) => NewestFirst(Listing(d))'
        BY <3>1 DEF NewestFirst
      <3>3. Indexed' = Indexed
        BY DEF Indexed
      <3> QED  BY <3>1, <3>2, <3>3 DEF IndInv, ListingIsWhole
    <2> QED  BY <2>1, <2>2
  <1> QED
    BY <1>1, <1>2, <1>3, <1>4, <1>5, <1>6 DEF IndInv

\* A listing takes its snapshot of the map.
LEMMA IndListCall ==
  ASSUME IndInv, NEW c \in Callers, ListCall(c)
  PROVE  IndInv'
  <1>1. PICK q \in SetToSeqs(Indexed) :
          NewestFirst(q) /\ todo' = [todo EXCEPT ![c] = q]
    BY DEF ListCall
  <1>2. /\ up /\ pc[c] = "idle" /\ pc' = [pc EXCEPT ![c] = "listing"]
        /\ seen' = [seen EXCEPT ![c] = [acked |-> acked, lived |-> lived]]
        /\ UNCHANGED <<up, file, objects, clock, id, stamp, page, drawn, acked, lived, later>>
    BY DEF ListCall, Goto
  <1>3. IsFiniteSet(Indexed)
    <2>1. Indexed \subseteq drawn
      BY DEF IndInv, SavedByOne, Indexed
    <2> QED  BY <2>1, FS_Subset DEF IndInv
  <1>4. q \in Seq(Indexed) /\ IsInjective(q) /\ ToSet(q) = Indexed
    BY <1>3, OrderingOfSet
  <1>5. q \in Seq(Captures)
    <2>1. Indexed \subseteq Captures
      BY DEF Indexed
    <2> QED  BY <1>4, <2>1, SeqMonotonic
  <1>6. page[c] = <<>> /\ <<>> \in Seq(Captures) /\ <<>> \o q = q
        /\ page' = [page EXCEPT ![c] = <<>>]
    BY <1>2, <1>5, ConcatEmptySeq, EmptySeq DEF IndInv, TypeOK, WorkFits
  <1> DEFINE p == page[c]
  <1>7. lived \subseteq Indexed /\ acked \in SUBSET Captures /\ lived \in SUBSET Captures
    BY DEF IndInv, AnsweredIsIndexed, TypeOK
  <1> DEFINE v == [acked |-> acked, lived |-> lived]
  <1>8. /\ v \in [acked : SUBSET Captures, lived : SUBSET Captures]
        /\ v.lived \subseteq ToSet(q)
    BY <1>4, <1>7
  <1>9. /\ p \in Seq(Captures) /\ page' = [page EXCEPT ![c] = p]
        /\ IsInjective(p \o q) /\ NewestFirst(p \o q)
        /\ v.lived \subseteq ToSet(p \o q) /\ ToSet(p \o q) \subseteq Indexed
    BY <1>1, <1>4, <1>6, <1>8
  <1> HIDE DEF p, v
  <1>10. seen' = [seen EXCEPT ![c] = v]
    BY <1>2 DEF v
  <1> QED
    BY <1>1, <1>2, <1>5, <1>8, <1>9, <1>10, IndListing

\* A listing reads the next capture of its snapshot.
LEMMA IndGetNext ==
  ASSUME IndInv, NEW c \in Callers, GetNext(c)
  PROVE  IndInv'
  <1> DEFINE t == Tail(todo[c])
             p == Append(page[c], Head(todo[c]))
  <1>1. /\ pc[c] = "listing" /\ todo[c] # <<>> /\ up
        /\ page' = [page EXCEPT ![c] = p]
        /\ todo' = [todo EXCEPT ![c] = t]
        /\ UNCHANGED <<up, file, objects, clock, pc, id, stamp>>
        /\ UNCHANGED <<drawn, acked, lived, seen, later>>
    BY UpWhileBusy DEF GetNext, history
  <1>2. /\ t \in Seq(Captures) /\ p \in Seq(Captures) /\ p \o t = Listing(c)
    <2>1. page[c] \in Seq(Captures) /\ todo[c] \in Seq(Captures)
      BY DEF IndInv, TypeOK
    <2>2. todo[c] # <<>>
      BY <1>1
    <2> QED
      BY <2>1, <2>2, MoveHead, Zenon DEF Listing
  <1>3. /\ pc' = [pc EXCEPT ![c] = "listing"]
        /\ seen' = [seen EXCEPT ![c] = seen[c]]
        /\ seen[c] \in [acked : SUBSET Captures, lived : SUBSET Captures]
    BY <1>1 DEF IndInv, TypeOK
  <1>4. /\ IsInjective(p \o t) /\ NewestFirst(p \o t)
        /\ seen[c].lived \subseteq ToSet(p \o t)
        /\ ToSet(p \o t) \subseteq Indexed
    <2>1. /\ IsInjective(Listing(c)) /\ NewestFirst(Listing(c))
          /\ seen[c].lived \subseteq ToSet(Listing(c))
          /\ ToSet(Listing(c)) \subseteq Indexed
      BY <1>1 DEF IndInv, ListingIsWhole
    <2> HIDE DEF t, p
    <2> QED  BY <1>2, <2>1
  <1> HIDE DEF t, p
  <1> QED
    BY <1>1, <1>2, <1>3, <1>4, IndListing

\* A listing has read all of its snapshot.
LEMMA IndListReady ==
  ASSUME IndInv, NEW c \in Callers, ListReady(c)
  PROVE  IndInv'
  <1>1. /\ pc[c] = "listing" /\ todo[c] = <<>> /\ up
        /\ pc' = [pc EXCEPT ![c] = "listed"]
        /\ UNCHANGED <<up, file, objects, clock, id, stamp, todo, page>>
        /\ UNCHANGED <<drawn, acked, lived, seen, later>>
    BY UpWhileBusy DEF ListReady, Goto, history
  <1>2. /\ page' = [page EXCEPT ![c] = page[c]] /\ page[c] \in Seq(Captures)
        /\ todo' = [todo EXCEPT ![c] = todo[c]] /\ todo[c] \in Seq(Captures)
        /\ seen' = [seen EXCEPT ![c] = seen[c]]
        /\ seen[c] \in [acked : SUBSET Captures, lived : SUBSET Captures]
    BY <1>1 DEF IndInv, TypeOK
  <1>3. /\ IsInjective(page[c] \o todo[c]) /\ NewestFirst(page[c] \o todo[c])
        /\ seen[c].lived \subseteq ToSet(page[c] \o todo[c])
        /\ ToSet(page[c] \o todo[c]) \subseteq Indexed
    BY <1>1 DEF IndInv, ListingIsWhole, Listing
  <1> QED
    BY <1>1, <1>2, <1>3, IndListing

\* A listing is answered, or fails.
LEMMA IndListEnds ==
  ASSUME IndInv, NEW c \in Callers, GetFails(c) \/ AnswerList(c)
  PROVE  IndInv'
  <1>1. /\ pc[c] \in {"listing", "listed"}
        /\ pc' = [pc EXCEPT ![c] = "idle"]
        /\ todo' = [todo EXCEPT ![c] = <<>>] /\ page' = [page EXCEPT ![c] = <<>>]
        /\ seen' = [seen EXCEPT ![c] = NothingSeen]
        /\ UNCHANGED <<up, file, objects, clock, id, stamp, drawn, acked, lived, later>>
    BY DEF GetFails, AnswerList, EndListing, Goto
  <1>2. up
    BY <1>1, UpWhileBusy
  <1>3. /\ <<>> \in Seq(Captures)
        /\ NothingSeen \in [acked : SUBSET Captures, lived : SUBSET Captures]
    BY EmptySeq DEF NothingSeen
  <1> QED
    BY <1>1, <1>2, <1>3, IndListing

-----------------------------------------------------------------------------
\* Of the process that stops, the files stay.
LEMMA IndProcess ==
  ASSUME IndInv, Crash \/ Start
  PROVE  IndInv'
  <1>1. /\ objects' = [k \in Captures |-> Absent]
        /\ up' \in BOOLEAN
        /\ UNCHANGED <<file, clock, drawn, acked, later>>
    BY DEF Crash, Start, history
  <1>2. lived' = {}
    BY DEF Crash, Start, history, IndInv, AnsweredIsIndexed
  <1>3. /\ \A c \in Callers : /\ pc'[c] = "idle" /\ id'[c] = NoCapture
                              /\ todo'[c] = <<>> /\ page'[c] = <<>>
                              /\ stamp'[c] <= clock
        /\ pc' \in [Callers -> PcValues]
        /\ id' \in [Callers -> Captures \cup {NoCapture}]
        /\ stamp' \in [Callers -> Nat]
        /\ todo' \in [Callers -> Seq(Captures)]
        /\ page' \in [Callers -> Seq(Captures)]
        /\ seen' \in [Callers -> [acked : SUBSET Captures, lived : SUBSET Captures]]
    <2>1. CASE Crash
      <3>1. NothingSeen \in [acked : SUBSET Captures, lived : SUBSET Captures]
        BY DEF NothingSeen
      <3>2. Absent \in Nat /\ Absent <= clock /\ <<>> \in Seq(Captures)
        BY EmptySeq DEF Absent, IndInv, TypeOK
      <3> QED
        BY <2>1, <3>1, <3>2 DEF Crash, PcValues
    <2>2. CASE Start
      <3>1. \A c \in Callers : /\ pc[c] = "idle" /\ id[c] = NoCapture
                               /\ todo[c] = <<>> /\ page[c] = <<>>
        BY <2>2 DEF Start, IndInv, WorkFits
      <3> QED
        BY <2>2, <3>1 DEF Start, history, IndInv, TypeOK, TimesArePast
    <2> QED  BY <2>1, <2>2
  <1>4. Absent \in Nat /\ Absent <= clock
    BY DEF Absent, IndInv, TypeOK
  <1>5. TypeOK' /\ IsFiniteSet(drawn')
    BY <1>1, <1>2, <1>3, <1>4 DEF IndInv, TypeOK
  <1>6. WorkFits' /\ SavedByOne' /\ TimesArePast'
    BY <1>1, <1>3, <1>4 DEF IndInv, WorkFits, SavedByOne, TimesArePast
  <1>7. LaterIsNewer'
    BY <1>1, <1>3, NoCaptureAssumption DEF IndInv, LaterIsNewer, Indexed
  <1>8. AnsweredIsIndexed' /\ ListingIsWhole' /\ IndexedHasBytes'
    BY <1>1, <1>2, <1>3
       DEF IndInv, AnsweredIsIndexed, ListingIsWhole, IndexedHasBytes, Indexed
  <1> QED  BY <1>5, <1>6, <1>7, <1>8 DEF IndInv

\* Every step keeps the invariant.
LEMMA IndStep == IndInv /\ [Next]_vars => IndInv'
  <1> SUFFICES ASSUME IndInv, [Next]_vars PROVE IndInv'
      OBVIOUS
  <1>1. ASSUME NEW c \in Callers, Request(c) PROVE IndInv'
    BY <1>1, IndSaveCall, IndListCall DEF Request
  <1>2. ASSUME NEW c \in Callers, Proceed(c) PROVE IndInv'
    BY <1>2, IndFile, IndIndex, IndSaveEnds, IndGetNext, IndListReady, IndListEnds
       DEF Proceed
  <1>3. CASE Crash \/ Start
    BY <1>3, IndProcess
  <1>4. CASE UNCHANGED vars
    <2>1. TypeOK' /\ IsFiniteSet(drawn') /\ WorkFits' /\ SavedByOne'
      BY <1>4 DEF vars, IndInv, TypeOK, WorkFits, SavedByOne
    <2>2. TimesArePast' /\ LaterIsNewer' /\ AnsweredIsIndexed' /\ IndexedHasBytes'
      BY <1>4
         DEF vars, IndInv, TimesArePast, LaterIsNewer, AnsweredIsIndexed,
             IndexedHasBytes, Indexed
    <2>3. ListingIsWhole'
      BY <1>4, ListingsKept DEF vars
    <2> QED  BY <2>1, <2>2, <2>3 DEF IndInv
  <1> QED  BY <1>1, <1>2, <1>3, <1>4 DEF Next

\* What saves and listings may rely on at every place.
THEOREM Invariance == Spec => []IndInv
  BY IndInit, IndStep, PTL DEF Spec

\* Every variable keeps its type.
THEOREM TypeCorrect == Spec => []TypeOK
  <1>1. IndInv => TypeOK
    BY DEF IndInv
  <1> QED  BY <1>1, Invariance, PTL

\* The map never names a capture whose file is missing or torn.
THEOREM BytesBeforeIndex == Spec => []IndexedHasBytes
  <1>1. IndInv => IndexedHasBytes
    BY DEF IndInv
  <1> QED  BY <1>1, Invariance, PTL

\* An answered listing holds, once each, the captures answered before it began.
THEOREM CompleteListing == Spec => []ListsWhatWasAnswered
  <1>1. IndInv => ListsWhatWasAnswered
    <2> SUFFICES ASSUME IndInv, NEW c \in Callers, pc[c] = "listed"
                 PROVE  /\ seen[c].lived \subseteq ToSet(page[c])
                        /\ IsInjective(page[c])
        BY DEF ListsWhatWasAnswered
    <2>1. todo[c] = <<>> /\ page[c] \in Seq(Captures)
      BY DEF IndInv, WorkFits, TypeOK
    <2>2. Listing(c) = page[c]
      BY <2>1, ConcatEmptySeq DEF Listing
    <2>3. IsInjective(Listing(c)) /\ seen[c].lived \subseteq ToSet(Listing(c))
      BY DEF IndInv, ListingIsWhole
    <2> QED  BY <2>2, <2>3
  <1> QED  BY <1>1, Invariance, PTL

\* Of two captures in a listing, the one uploaded after the other was answered
\* comes first, wherever the reads of the listing are.
THEOREM OrderedListing == Spec => []ListsNewestFirst
  <1>1. IndInv => ListsNewestFirst
    <2> SUFFICES ASSUME IndInv, NEW c \in Callers,
                        NEW i \in DOMAIN page[c], NEW j \in DOMAIN page[c],
                        <<page[c][i], page[c][j]>> \in later
                 PROVE  j < i
        BY DEF ListsNewestFirst
    <2> DEFINE q == Listing(c)
    <2>1. page[c] \in Seq(Captures) /\ todo[c] \in Seq(Captures)
      BY DEF IndInv, TypeOK
    <2>2. /\ i \in DOMAIN q /\ j \in DOMAIN q /\ i \in Nat /\ j \in Nat
          /\ q[i] = page[c][i] /\ q[j] = page[c][j]
      BY <2>1, BeginningOf DEF Listing
    <2>3. pc[c] \in {"listing", "listed"}
      <3>1. page[c] # <<>>
        BY <2>1, EmptySeq
      <3> QED  BY <3>1 DEF IndInv, WorkFits
    <2>4. NewestFirst(q) /\ ToSet(q) \subseteq Indexed
      BY <2>3 DEF IndInv, ListingIsWhole
    <2>5. {q[i], q[j]} \subseteq Indexed
      BY <2>2, <2>4 DEF ToSet
    <2> HIDE DEF q
    <2>6. q[i] \in Captures /\ q[j] \in Captures
      BY <2>5 DEF Indexed
    <2>7. /\ objects[q[i]] < objects[q[j]]
          /\ objects[q[i]] \in Nat /\ objects[q[j]] \in Nat
      BY <2>2, <2>5, <2>6 DEF IndInv, LaterIsNewer, TypeOK
    <2>8. i < j => objects[q[i]] >= objects[q[j]]
      BY <2>2, <2>4 DEF NewestFirst
    <2>9. i # j
      BY <2>7
    <2> QED  BY <2>2, <2>7, <2>8, <2>9
  <1> QED  BY <1>1, Invariance, PTL

-----------------------------------------------------------------------------
(***************************************************************************)
(* The store implements CaptureShelf                                       *)
(***************************************************************************)

\* A file is not there until the save that drew its id creates it, so that no
\* save ever truncates a capture; and there is no map without a process.
FilesInv ==
  /\ \A k \in Captures \ drawn : file[k] = "none"
  /\ \A c \in Callers : pc[c] = "open" => file[id[c]] = "none"
  /\ ~up => Indexed = {}

\* A step that leaves the files and the map alone.
LEMMA FilesKept ==
  ASSUME FilesInv, UNCHANGED <<file, objects>>, up' => up, up => up', drawn \subseteq drawn',
         \A c \in Callers : pc'[c] = "open" =>
            \/ pc[c] = "open" /\ id'[c] = id[c]
            \/ id'[c] \in Captures \ drawn
  PROVE  FilesInv' /\ UNCHANGED <<Stored, Indexed>>
  BY DEF FilesInv, Indexed, Stored, Absent

\* A save that writes to its file: the capture is stored when the bytes are.
LEMMA ShelfFile ==
  ASSUME IndInv, FilesInv, NEW c \in Callers, Create(c) \/ WriteBytes(c)
  PROVE  FilesInv' /\ [Shelf!Next]_(Shelf!vars)
  <1> DEFINE k == id[c]
  <1>1. /\ pc[c] \in {"open", "write"} /\ pc'[c] # "open"
        /\ \A d \in Callers \ {c} : pc'[d] = pc[d]
        /\ UNCHANGED <<up, objects, id, drawn>>
    BY DEF IndInv, TypeOK, Create, WriteBytes, Goto, history
  <1>2. /\ k \in drawn /\ k \in Captures /\ up
        /\ \A d \in Callers \ {c} : id[d] # k
    BY <1>1 DEF IndInv, TypeOK, WorkFits, SavedByOne
  <1>3. PICK f : /\ file' = [file EXCEPT ![k] = f]
                 /\ f = "full" \/ (f # "full" /\ file[k] # "full")
    BY DEF Create, WriteBytes, FilesInv
  <1> HIDE DEF k
  <1>4. file'[k] = f /\ \A j \in Captures \ {k} : file'[j] = file[j]
    BY <1>2, <1>3 DEF IndInv, TypeOK
  <1>5. Indexed' = Indexed
    BY <1>1 DEF Indexed
  <1>6. FilesInv'
    <2>1. \A j \in Captures \ drawn' : file'[j] = "none"
      BY <1>1, <1>2, <1>4 DEF FilesInv
    <2>2. ASSUME NEW d \in Callers, pc'[d] = "open"
          PROVE  file'[id'[d]] = "none"
      <3>1. d # c /\ pc[d] = "open" /\ id'[d] = id[d] /\ id[d] # k
        BY <1>1, <1>2, <2>2
      <3>2. id[d] \in Captures
        BY <3>1 DEF IndInv, TypeOK, WorkFits
      <3> QED  BY <1>4, <3>1, <3>2 DEF FilesInv
    <2> QED  BY <1>1, <1>2, <2>1, <2>2 DEF FilesInv
  <1>7. CASE f = "full"
    <2>1. Stored' = Stored \cup {k}
      BY <1>2, <1>4, <1>7 DEF Stored
    <2>2. Shelf!Keep(k)
      BY <1>1, <1>2, <1>5, <2>1 DEF Shelf!Keep
    <2> QED  BY <1>2, <1>6, <2>2 DEF Shelf!Next
  <1>8. CASE f # "full"
    <2>1. Stored' = Stored
      BY <1>3, <1>4, <1>8 DEF Stored
    <2> QED  BY <1>1, <1>5, <1>6, <2>1 DEF Shelf!vars
  <1> QED  BY <1>7, <1>8

\* The capture enters the map, and is stored by then.
LEMMA ShelfIndex ==
  ASSUME IndInv, FilesInv, NEW c \in Callers, Index(c)
  PROVE  FilesInv' /\ Shelf!Next
  <1> DEFINE k == id[c]
  <1>1. /\ pc[c] = "index" /\ objects' = [objects EXCEPT ![k] = stamp[c]]
        /\ pc' = [pc EXCEPT ![c] = "answer"]
        /\ UNCHANGED <<up, file, id, drawn>>
    BY DEF Index, Goto, history
  <1>2. k \in Captures /\ up /\ file[k] = "full" /\ stamp[c] # Absent
    BY <1>1 DEF IndInv, TypeOK, WorkFits, SavedByOne, TimesArePast
  <1> HIDE DEF k
  <1>3. Indexed' = Indexed \cup {k}
    BY <1>1, <1>2 DEF IndInv, TypeOK, Indexed
  <1>4. Stored' = Stored /\ k \in Stored
    BY <1>1, <1>2 DEF Stored
  <1>5. FilesInv'
    BY <1>1, <1>2 DEF IndInv, TypeOK, FilesInv
  <1>6. Shelf!Add(k)
    BY <1>1, <1>2, <1>3, <1>4 DEF Shelf!Add
  <1> QED  BY <1>2, <1>5, <1>6 DEF Shelf!Next

\* Every step of the store is one the server assumes, or none.
LEMMA ShelfStep ==
  ASSUME IndInv, FilesInv, [Next]_vars
  PROVE  FilesInv' /\ [Shelf!Next]_(Shelf!vars)
  <1>1. ASSUME NEW c \in Callers, NEW k \in Captures, SaveCall(c, k)
        PROVE  FilesInv' /\ UNCHANGED Shelf!vars
    <2>1. /\ k \notin drawn /\ drawn' = drawn \cup {k} /\ id'[c] = k
          /\ \A d \in Callers \ {c} : pc'[d] = pc[d] /\ id'[d] = id[d]
          /\ UNCHANGED <<up, file, objects>>
      BY <1>1 DEF IndInv, TypeOK, SaveCall, Goto
    <2>2. FilesInv' /\ UNCHANGED <<Stored, Indexed>>
      BY <2>1, FilesKept
    <2> QED  BY <2>1, <2>2 DEF Shelf!vars
  <1>2. ASSUME NEW c \in Callers,
               \/ ListCall(c) \/ SaveFails(c) \/ Stamp(c) \/ AnswerUpload(c)
               \/ GetNext(c) \/ GetFails(c) \/ ListReady(c) \/ AnswerList(c)
        PROVE  FilesInv' /\ UNCHANGED Shelf!vars
    <2>1. UNCHANGED <<up, file, objects, drawn>>
      BY <1>2
         DEF ListCall, SaveFails, Stamp, AnswerUpload, GetNext, GetFails, ListReady,
             AnswerList, history
    <2>2. pc'[c] # "open" /\ \A d \in Callers \ {c} : pc'[d] = pc[d] /\ id'[d] = id[d]
      BY <1>2
         DEF ListCall, SaveFails, Stamp, AnswerUpload, GetNext, GetFails, ListReady,
             AnswerList, EndListing, Goto, IndInv, TypeOK
    <2>3. FilesInv' /\ UNCHANGED <<Stored, Indexed>>
      BY <2>1, <2>2, FilesKept
    <2> QED  BY <2>1, <2>3 DEF Shelf!vars
  <1>3. ASSUME Crash
        PROVE  FilesInv' /\ Shelf!Next
    <2>1. /\ up /\ up' = FALSE /\ file' = file /\ drawn' = drawn
          /\ Indexed' = {} /\ \A c \in Callers : pc'[c] = "idle"
      BY <1>3 DEF Crash, Indexed
    <2>2. FilesInv'
      BY <2>1 DEF FilesInv
    <2>3. Shelf!Stop
      BY <2>1 DEF Shelf!Stop, Stored
    <2> QED  BY <2>2, <2>3 DEF Shelf!Next
  <1>4. ASSUME Start
        PROVE  FilesInv' /\ Shelf!Next
    <2>1. /\ ~up /\ up' = TRUE /\ Indexed' = {}
          /\ UNCHANGED <<file, pc, id, drawn>>
      BY <1>4 DEF Start, Indexed, history
    <2>2. FilesInv'
      BY <2>1 DEF FilesInv
    <2>3. Shelf!Start
      BY <2>1 DEF FilesInv, Shelf!Start, Stored
    <2> QED  BY <2>2, <2>3 DEF Shelf!Next
  <1>5. ASSUME UNCHANGED vars
        PROVE  FilesInv' /\ UNCHANGED Shelf!vars
    BY <1>5 DEF vars, FilesInv, Shelf!vars, Stored, Indexed
  <1> QED
    BY <1>1, <1>2, <1>3, <1>4, <1>5, ShelfFile, ShelfIndex DEF Next, Request, Proceed

\* The server may take a save as two steps, the bytes and the entry in the map:
\* whatever requests overlap, fail or are cut off, stored bytes stay, and an
\* entry is made only of a capture that is stored.
THEOREM ShelfRefinement == Spec => ShelfSpec
  <1>1. Init => FilesInv /\ Shelf!Init
    BY DEF Init, FilesInv, Indexed, Stored, Shelf!Init
  <1>2. IndInv /\ FilesInv /\ [Next]_vars => FilesInv' /\ [Shelf!Next]_(Shelf!vars)
    BY ShelfStep
  <1> QED
    BY <1>1, <1>2, Invariance, PTL DEF Spec, ShelfSpec, Shelf!Spec
=============================================================================
