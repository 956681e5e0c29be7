--------------------------- MODULE HttpEdgeProofs ---------------------------
(***************************************************************************)
(* A request through httpapi, for any types of image, environments, number *)
(* of assets and any draft a model may write: what its status line tells   *)
(* of what was done, and its answer of what was drafted.                   *)
(***************************************************************************)
EXTENDS HttpEdge, AnalysisProofs

\* A request that is good has the fields of its route, if the route reads any.
LEMMA GoodRequest ==
  ASSUME request \in Requests, ~ BadRequest, Registered(request.route)
  PROVE  /\ request.route \in Routes
         /\ Reads(request.route) =>
              /\ request.fields \in Fields(request.route)
              /\ ~ HandlerOf(request.route, request.fields).bad
  <1>1. request.route \in Routes
    BY DEF Registered
  <1>2. ASSUME Reads(request.route)
        PROVE  /\ request.fields \in Fields(request.route)
               /\ ~ HandlerOf(request.route, request.fields).bad
    <2>1. request.fields # Unreadable /\ ~ HandlerOf(request.route, request.fields).bad
      BY <1>2 DEF BadRequest
    <2>2. request \in UNION {[method : {"POST"}, route : {rt}, fields : Fields(rt)] : rt \in Routes}
      BY <2>1 DEF Requests
    <2>3. PICK rt \in Routes : request \in [method : {"POST"}, route : {rt}, fields : Fields(rt)]
      BY <2>2
    <2> QED  BY <2>1, <2>3
  <1> QED  BY <1>1, <1>2

\* The calls of each route, of which AnalyzeAssets has one for each asset.
LEMMA CallsOf ==
  ASSUME request \in Requests, ~ BadRequest, Registered(request.route)
  PROVE  /\ request.route = "UploadScreenshot" => Calls = <<"save">>
         /\ request.route = "ListCaptures" => Calls = <<"list">>
         /\ request.route = "InitializeSnapAndSolve" => Calls = <<"init">>
         /\ request.route = "SubmitSnap" => Calls = <<"save", "submit">>
         /\ request.route = "SubmitSnapResponse" => Calls = <<"respond", "get", "analyse">>
         /\ request.route = "CreateSession" => Calls = <<"create">>
         /\ request.route = "Prompt" => Calls = <<"prompt">>
         /\ request.route \in {"healthz", "GetLessonContent"} => Calls = <<>>
         /\ request.route = "AnalyzeAssets" =>
              /\ request.fields.assets \in Nat
              /\ Calls = <<"exists", "assets">>
                         \o [i \in 1..request.fields.assets |-> "get"] \o <<"analyse">>
         /\ request.route \in {"UploadScreenshot", "SubmitSnap"} => ~ BadImage(request.fields.image)
  <1>1. /\ request.route \in Routes
        /\ Reads(request.route) =>
              /\ request.fields \in Fields(request.route)
              /\ ~ HandlerOf(request.route, request.fields).bad
    BY GoodRequest
  <1>2. CASE request.route = "AnalyzeAssets"
    <2>1. request.fields.assets \in 0..MaxAssets
      BY <1>1, <1>2 DEF Reads, Fields
    <2>2. request.fields.assets \in Nat
      BY <2>1, MaxAssetsAssumption
    <2>3. Calls = <<"exists", "assets">>
                    \o [i \in 1..request.fields.assets |-> "get"] \o <<"analyse">>
      BY <1>2 DEF Calls, HandlerOf, AnalyzeAssets, Handler
    <2> QED  BY <1>2, <2>2, <2>3
  <1>3. CASE request.route \in {"UploadScreenshot", "SubmitSnap"}
    BY <1>1, <1>3 DEF Reads, Calls, HandlerOf, UploadScreenshot, SubmitSnap, Handler
  <1>4. CASE request.route \notin {"UploadScreenshot", "SubmitSnap", "AnalyzeAssets"}
    BY <1>1, <1>4
       DEF Calls, HandlerOf, ListCaptures, InitializeSnapAndSolve, SubmitSnapResponse,
           CreateSession, GetLessonContent, DevPrompt, Health, Handler, Routes
  <1> QED  BY <1>2, <1>3, <1>4

\* The calls of AnalyzeAssets: one look-up, then one read per asset.
LEMMA AssetsCalls ==
  ASSUME NEW n \in Nat
  PROVE  LET calls == <<"exists", "assets">> \o [i \in 1..n |-> "get"] \o <<"analyse">>
         IN /\ calls \in Seq(CallNames) /\ Len(calls) = n + 3
            /\ calls[1] = "exists" /\ calls[2] = "assets" /\ calls[n + 3] = "analyse"
            /\ \A i \in 3..(n + 2) : calls[i] = "get"
  <1> DEFINE first == <<"exists", "assets">>
             gets == [i \in 1..n |-> "get"]
             last == <<"analyse">>
  <1>1. /\ first \in Seq(CallNames) /\ Len(first) = 2
        /\ first[1] = "exists" /\ first[2] = "assets"
    BY DEF CallNames
  <1>2. gets \in Seq(CallNames) /\ Len(gets) = n /\ \A i \in 1..n : gets[i] = "get"
    <2>1. gets \in [1..n -> CallNames]
      BY DEF CallNames
    <2>2. gets \in Seq(CallNames)
      BY <2>1
    <2> QED  BY <2>1, <2>2, LenProperties
  <1>3. last \in Seq(CallNames) /\ Len(last) = 1 /\ last[1] = "analyse"
    BY DEF CallNames
  <1> HIDE DEF first, gets, last
  <1>4. /\ first \o gets \in Seq(CallNames) /\ Len(first \o gets) = n + 2
        /\ \A i \in 1..(n + 2) : (first \o gets)[i] = IF i <= 2 THEN first[i] ELSE gets[i - 2]
    <2>1. /\ first \o gets \in Seq(CallNames) /\ Len(first \o gets) = Len(first) + Len(gets)
          /\ \A i \in 1..(Len(first) + Len(gets)) :
               (first \o gets)[i] = IF i <= Len(first) THEN first[i] ELSE gets[i - Len(first)]
      <3>1. first \in Seq(CallNames) /\ gets \in Seq(CallNames)
        BY <1>1, <1>2
      <3> QED  BY <3>1, ConcatProperties
    <2> QED  BY <2>1, <1>1, <1>2
  <1> DEFINE init == first \o gets
             calls == init \o last
  <1>5. /\ calls \in Seq(CallNames) /\ Len(calls) = n + 3
        /\ \A i \in 1..(n + 3) : calls[i] = IF i <= n + 2 THEN init[i] ELSE last[i - (n + 2)]
    <2>0. init \in Seq(CallNames) /\ Len(init) = n + 2
      BY <1>4
    <2> HIDE DEF init
    <2>1. /\ calls \in Seq(CallNames) /\ Len(calls) = Len(init) + Len(last)
          /\ \A i \in 1..(Len(init) + Len(last)) :
               calls[i] = IF i <= Len(init) THEN init[i] ELSE last[i - Len(init)]
      BY <2>0, <1>3, ConcatProperties
    <2> QED  BY <2>0, <2>1, <1>3
  <1> HIDE DEF calls
  <1>6. /\ calls[1] = "exists" /\ calls[2] = "assets" /\ calls[n + 3] = "analyse"
        /\ \A i \in 3..(n + 2) : calls[i] = "get"
    <2>1. calls[1] = init[1] /\ calls[2] = init[2]
      <3> HIDE DEF init
      <3>1. /\ 1 \in 1..(n + 3) /\ 1 <= n + 2
            /\ 2 \in 1..(n + 3) /\ 2 <= n + 2
        OBVIOUS
      <3> QED  BY <1>5, <3>1
    <2>2. init[1] = "exists" /\ init[2] = "assets"
      BY <1>1, <1>4
    <2>3. calls[n + 3] = "analyse"
      <3>1. calls[n + 3] = last[(n + 3) - (n + 2)] /\ (n + 3) - (n + 2) = 1
        BY <1>5
      <3> QED  BY <1>3, <3>1
    <2>4. ASSUME NEW i \in 3..(n + 2)
          PROVE  calls[i] = "get"
      <3>1. i \in 1..(n + 2) /\ i \in 1..(n + 3) /\ i <= n + 2 /\ ~ (i <= 2) /\ i - 2 \in 1..n
        OBVIOUS
      <3>2. calls[i] = init[i]
        BY <1>5, <3>1
      <3>3. init[i] = gets[i - 2]
        BY <1>4, <3>1
      <3> QED  BY <1>2, <3>1, <3>2, <3>3
    <2> HIDE DEF init
    <2> QED  BY <2>1, <2>2, <2>3, <2>4
  <1> QED  BY <1>5, <1>6 DEF calls, first, gets, last

-----------------------------------------------------------------------------
\* What the failures of a route's calls can bring; and what comes before a call
\* that can be answered 404 or 409.
FailuresKnown ==
  \A i \in 1..Len(Calls) : FailureOf(Calls[i]) \subseteq {404, 409, 500}

OwnFaultEarly ==
  \A i \in 1..Len(Calls) :
    FailureOf(Calls[i]) \cap {404, 409} # {} =>
      \A j \in 1..(i - 1) : Calls[j] \in {"save", "assets"} \cup Reading

\* What the order of its calls says of a handler: the model is asked last, and
\* only after a photo was loaded; what can be answered 404 or 409 comes before
\* anything is changed, but for the photo of a SubmitSnap.
LEMMA CallsFacts ==
  ASSUME request \in Requests, ~ BadRequest, Registered(request.route)
  PROVE  /\ Calls \in Seq(CallNames)
         /\ \A i \in 1..Len(Calls) :
              /\ Calls[i] \in CallNames
              /\ Calls[i] \in {"analyse", "prompt"} => i = Len(Calls)
              /\ Calls[i] = "assets" => request.route = "AnalyzeAssets" /\ i = 2
              /\ Calls[i] = "analyse" /\ (request.route = "AnalyzeAssets" => request.fields.assets # 0)
                   => \E j \in 1..(i - 1) : Calls[j] = "get"
              /\ Calls[i] = "save" => ~ BadImage(request.fields.image)
         /\ FailuresKnown /\ OwnFaultEarly
         /\ request.route = "AnalyzeAssets" =>
              Calls[2] = "assets" /\ Len(Calls) > 2 /\ Calls[1] # "analyse"
         /\ ({Calls[i] : i \in 1..Len(Calls)} \ {"assets"}) \ Reading =
              IF request.route \in DOMAIN Promised THEN Promised[request.route] ELSE {}
  <1>1. request.route \in Routes
    BY GoodRequest
  <1>2. CASE request.route = "AnalyzeAssets"
    <2> DEFINE n == request.fields.assets
    <2>1. n \in Nat /\ Calls = <<"exists", "assets">> \o [i \in 1..n |-> "get"] \o <<"analyse">>
      BY <1>2, CallsOf
    <2> HIDE DEF n
    <2>2. /\ Calls \in Seq(CallNames) /\ Len(Calls) = n + 3
          /\ Calls[1] = "exists" /\ Calls[2] = "assets" /\ Calls[n + 3] = "analyse"
          /\ \A i \in 3..(n + 2) : Calls[i] = "get"
      BY <2>1, AssetsCalls
    <2>3. \A i \in 1..Len(Calls) :
            i = 1 \/ i = 2 \/ i \in 3..(n + 2) \/ i = n + 3
      BY <2>1, <2>2
    <2>4. \A i \in 1..Len(Calls) :
            /\ Calls[i] \in {"exists", "assets", "get", "analyse"}
            /\ Calls[i] = "analyse" => i = n + 3
            /\ Calls[i] = "assets" => i = 2
            /\ i < n + 3 => Calls[i] # "analyse"
      BY <2>1, <2>2, <2>3
    <2>5. \A i \in 1..Len(Calls) : FailureOf(Calls[i]) \subseteq {404, 409, 500}
      BY <1>2, <2>4 DEF FailureOf
    <2>6. ASSUME NEW i \in 1..Len(Calls), FailureOf(Calls[i]) \cap {404, 409} # {}
          PROVE  \A j \in 1..(i - 1) : Calls[j] \in {"save", "assets"} \cup Reading
      BY <2>1, <2>2, <2>4 DEF Reading
    <2>7. n # 0 => 3 \in 1..(n + 3 - 1) /\ Calls[3] = "get"
      BY <2>1, <2>2
    <2>8. ({Calls[i] : i \in 1..Len(Calls)} \ {"assets"}) \ Reading = {"analyse"}
      <3>1. n + 3 \in 1..Len(Calls)
        BY <2>1, <2>2
      <3> QED  BY <3>1, <2>2, <2>4 DEF Reading
    <2>9. Promised["AnalyzeAssets"] = {"analyse"} /\ "AnalyzeAssets" \in DOMAIN Promised
      BY DEF Promised
    <2> QED
      <3>1. \A i \in 1..Len(Calls) :
              /\ Calls[i] \in CallNames
              /\ Calls[i] \in {"analyse", "prompt"} => i = Len(Calls)
              /\ Calls[i] = "assets" => request.route = "AnalyzeAssets" /\ i = 2
              /\ Calls[i] = "save" => ~ BadImage(request.fields.image)
        BY <1>2, <2>2, <2>4 DEF CallNames
      <3>2. \A i \in 1..Len(Calls) :
              Calls[i] = "analyse" /\ (request.route = "AnalyzeAssets" => request.fields.assets # 0)
                => \E j \in 1..(i - 1) : Calls[j] = "get"
        <4> SUFFICES ASSUME NEW i \in 1..Len(Calls), Calls[i] = "analyse",
                            request.fields.assets # 0
                     PROVE  \E j \in 1..(i - 1) : Calls[j] = "get"
            BY <1>2
        <4>1. i = n + 3 /\ n # 0
          BY <2>4 DEF n
        <4>2. 3 \in 1..(i - 1)
          BY <4>1, <2>1
        <4>3. Calls[3] = "get"
          BY <4>1, <2>7
        <4> QED  BY <4>2, <4>3
      <3>3. Calls[2] = "assets" /\ Len(Calls) > 2 /\ Calls[1] # "analyse"
        BY <2>1, <2>2
      <3>4. FailuresKnown /\ OwnFaultEarly
        BY <2>5, <2>6 DEF FailuresKnown, OwnFaultEarly
      <3> QED  BY <1>2, <2>2, <2>8, <2>9, <3>1, <3>2, <3>3, <3>4
  <1>3. CASE request.route \in {"UploadScreenshot", "SubmitSnap"}
    <2>1. ~ BadImage(request.fields.image)
      BY <1>3, CallsOf
    <2>2. CASE request.route = "UploadScreenshot"
      <3>1. Calls = <<"save">>
        BY <2>2, CallsOf
      <3> QED  BY <2>1, <2>2, <3>1
             DEF CallNames, FailureOf, FailuresKnown, OwnFaultEarly, Reading, Promised
    <2>3. CASE request.route = "SubmitSnap"
      <3>1. Calls = <<"save", "submit">>
        BY <2>3, CallsOf
      <3> QED  BY <2>1, <2>3, <3>1
             DEF CallNames, FailureOf, FailuresKnown, OwnFaultEarly, Reading, Promised
    <2> QED  BY <1>3, <2>2, <2>3
  <1>4. CASE request.route = "SubmitSnapResponse"
    <2>1. Calls = <<"respond", "get", "analyse">>
      BY <1>4, CallsOf
    <2> QED  BY <1>4, <2>1
           DEF CallNames, FailureOf, FailuresKnown, OwnFaultEarly, Reading, Promised
  <1>5. CASE request.route \in {"ListCaptures", "InitializeSnapAndSolve", "CreateSession", "Prompt"}
    <2>1. CASE request.route = "ListCaptures"
      <3>1. Calls = <<"list">>
        BY <2>1, CallsOf
      <3> QED  BY <2>1, <3>1
             DEF CallNames, FailureOf, FailuresKnown, OwnFaultEarly, Reading, Promised
    <2>2. CASE request.route = "InitializeSnapAndSolve"
      <3>1. Calls = <<"init">>
        BY <2>2, CallsOf
      <3> QED  BY <2>2, <3>1
             DEF CallNames, FailureOf, FailuresKnown, OwnFaultEarly, Reading, Promised
    <2>3. CASE request.route = "CreateSession"
      <3>1. Calls = <<"create">>
        BY <2>3, CallsOf
      <3> QED  BY <2>3, <3>1
             DEF CallNames, FailureOf, FailuresKnown, OwnFaultEarly, Reading, Promised
    <2>4. CASE request.route = "Prompt"
      <3>1. Calls = <<"prompt">>
        BY <2>4, CallsOf
      <3> QED  BY <2>4, <3>1
             DEF CallNames, FailureOf, FailuresKnown, OwnFaultEarly, Reading, Promised
    <2> QED  BY <1>5, <2>1, <2>2, <2>3, <2>4
  <1>6. CASE request.route \in {"healthz", "GetLessonContent"}
    <2>1. Calls = <<>>
      BY <1>6, CallsOf
    <2> QED  BY <1>6, <2>1
           DEF CallNames, FailureOf, FailuresKnown, OwnFaultEarly, Reading, Promised
  <1> QED  BY <1>1, <1>2, <1>3, <1>4, <1>5, <1>6 DEF Routes

-----------------------------------------------------------------------------
\* What the last element adds to the elements of a sequence.
LEMMA ToSetFacts ==
  ASSUME NEW S, NEW s \in Seq(S), NEW e \in S
  PROVE  ToSet(Append(s, e)) = ToSet(s) \cup {e}
  <1>1. /\ Len(s) \in Nat /\ DOMAIN s = 1..Len(s)
        /\ DOMAIN Append(s, e) = 1..(Len(s) + 1)
        /\ \A i \in 1..Len(s) : Append(s, e)[i] = s[i]
        /\ Append(s, e)[Len(s) + 1] = e
    <2>1. Append(s, e) \in Seq(S) /\ Len(Append(s, e)) = Len(s) + 1
      BY AppendProperties
    <2>2. DOMAIN Append(s, e) = 1..Len(Append(s, e))
      BY <2>1, LenProperties
    <2> QED  BY <2>1, <2>2, AppendProperties, LenProperties
  <1> HIDE DEF ToSet
  <1>2. ToSet(s) = {s[i] : i \in 1..Len(s)}
    BY <1>1 DEF ToSet
  <1>3. ToSet(Append(s, e)) = {Append(s, e)[i] : i \in 1..(Len(s) + 1)}
    BY <1>1 DEF ToSet
  <1>4. \A i \in 1..(Len(s) + 1) : i \in 1..Len(s) \/ i = Len(s) + 1
    BY <1>1
  <1>5. Len(s) + 1 \in 1..(Len(s) + 1) /\ \A i \in 1..Len(s) : i \in 1..(Len(s) + 1)
    BY <1>1
  <1> QED  BY <1>1, <1>2, <1>3, <1>4, <1>5

\* Where a handler is: the call it is about to make, and those it has made.
LEMMA Place ==
  ASSUME IndInv, at = "handler"
  PROVE  /\ request \in Requests /\ ~ BadRequest /\ Registered(request.route)
         /\ Calls \in Seq(CallNames) /\ Len(Calls) \in Nat /\ Len(todo) \in Nat
         /\ Made \in 0..Len(Calls) /\ Len(todo) = Len(Calls) - Made
         /\ todo = <<>> <=> Made = Len(Calls)
         /\ todo # <<>> => /\ Made + 1 \in 1..Len(Calls)
                           /\ Head(todo) = Calls[Made + 1]
                           /\ Tail(todo) \in Seq(CallNames)
                           /\ Len(Tail(todo)) = Len(todo) - 1
                           /\ \A i \in 1..Len(Tail(todo)) : Tail(todo)[i] = Calls[Made + 1 + i]
  <1>1. /\ request \in Requests /\ ~ BadRequest /\ Registered(request.route)
        /\ todo \in Seq(CallNames) /\ Made \in 0..Len(Calls)
        /\ \A i \in 1..Len(todo) : todo[i] = Calls[Made + i]
    BY DEF IndInv, EdgeTypeOK, CallsInOrder
  <1>2. Calls \in Seq(CallNames)
    BY <1>1, CallsFacts
  <1>3. /\ Len(Calls) \in Nat /\ Len(todo) \in Nat /\ Len(todo) = Len(Calls) - Made
        /\ todo = <<>> <=> Len(todo) = 0
    BY <1>1, <1>2, LenProperties, EmptySeq DEF Made
  <1>4. ASSUME todo # <<>>
        PROVE  /\ Made + 1 \in 1..Len(Calls)
               /\ Head(todo) = Calls[Made + 1]
               /\ Tail(todo) \in Seq(CallNames)
               /\ Len(Tail(todo)) = Len(todo) - 1
               /\ \A i \in 1..Len(Tail(todo)) : Tail(todo)[i] = Calls[Made + 1 + i]
    <2>1. /\ Head(todo) = todo[1] /\ Tail(todo) \in Seq(CallNames)
          /\ Len(Tail(todo)) = Len(todo) - 1
          /\ \A i \in 1..Len(Tail(todo)) : Tail(todo)[i] = todo[i + 1]
      BY <1>1, <1>4, HeadTailProperties
    <2>2. Len(todo) # 0 /\ 1 \in 1..Len(todo)
      BY <1>3, <1>4
    <2>3. \A i \in 1..Len(Tail(todo)) :
            i + 1 \in 1..Len(todo) /\ Made + (i + 1) = Made + 1 + i
      BY <2>1, <1>1, <1>3
    <2> QED  BY <2>1, <2>2, <2>3, <1>1, <1>3
  <1> QED  BY <1>1, <1>2, <1>3, <1>4

\* What was done is what the calls made do, and the analysis, if it was asked
\* for.
LEMMA Done ==
  ASSUME IndInv, at = "handler"
  PROVE  ToSet(effects) = ({Calls[i] : i \in 1..Made} \ {"assets"})
                          \cup (IF input = "none" THEN {} ELSE {"analyse"})
  BY DEF IndInv, CallsInOrder

\* Whoever asks the model for an analysis, or is about to, has loaded a photo.
LEMMA AnalysisHasPhoto ==
  ASSUME IndInv, at = "handler",
         "analyse" \in ToSet(effects) \/ (todo # <<>> /\ Head(todo) = "analyse")
  PROVE  images > 0
  <1>1. /\ request \in Requests /\ ~ BadRequest /\ Registered(request.route)
        /\ Len(Calls) \in Nat /\ Made \in 0..Len(Calls)
        /\ todo # <<>> => Made + 1 \in 1..Len(Calls) /\ Head(todo) = Calls[Made + 1]
    BY Place
  <1>2. PICK i \in 1..Len(Calls) : i <= Made + 1 /\ Calls[i] = "analyse"
    <2>1. CASE todo # <<>> /\ Head(todo) = "analyse"
      BY <2>1, <1>1
    <2>2. CASE "analyse" \in ToSet(effects) /\ input # "none"
      BY <2>2, <2>1 DEF IndInv, CallsInOrder
    <2>3. CASE "analyse" \in ToSet(effects) /\ input = "none"
      <3>1. PICK i \in 1..Made : Calls[i] = "analyse"
        BY <2>3, Done
      <3> QED  BY <3>1, <1>1
    <2> QED  BY <2>1, <2>2, <2>3
  <1>3. request.route = "AnalyzeAssets" => request.fields.assets # 0
    <2> SUFFICES ASSUME request.route = "AnalyzeAssets" PROVE request.fields.assets # 0
        OBVIOUS
    <2>1. Calls[2] = "assets" /\ Len(Calls) > 2 /\ Calls[1] # "analyse"
      BY <1>1, CallsFacts
    <2>2. i = Len(Calls)
      BY <1>1, <1>2, CallsFacts
    <2>3. Made >= 2
      BY <1>1, <1>2, <2>1, <2>2
    <2> QED  BY <2>3 DEF IndInv, PhotosCount
  <1>4. PICK j \in 1..(i - 1) : Calls[j] = "get"
    BY <1>1, <1>2, <1>3, CallsFacts
  <1>5. j \in 1..Made
    BY <1>1, <1>2, <1>4
  <1>6. "get" \in ToSet(effects)
    BY <1>4, <1>5, Done
  <1> QED  BY <1>6 DEF IndInv, PhotosCount

-----------------------------------------------------------------------------
(***************************************************************************)
(* The inductive invariant.                                                *)
(***************************************************************************)

\* A request comes in with nothing done and nothing written.
LEMMA IndInit == EdgeInit => IndInv
  <1> SUFFICES ASSUME EdgeInit PROVE IndInv
      OBVIOUS
  <1>1. /\ request \in Requests /\ at = "middleware" /\ todo = <<>> /\ effects = <<>>
        /\ images = 0 /\ stored = "none" /\ written = <<>> /\ recorded = 200
        /\ span = [state |-> "none", status |-> 0]
        /\ AnalysisInit
    BY DEF EdgeInit
  <1>2. DraftFits /\ AnswerFits /\ input = "none"
    BY <1>1, AnalysisStarts DEF AnalysisInit
  <1>3. EdgeTypeOK
    <2>1. <<>> \in Seq(CallNames)
      BY EmptySeq
    <2> QED  BY <1>1, <2>1 DEF EdgeTypeOK
  <1>4. CallsInOrder /\ PhotosCount /\ NothingYet
    BY <1>1, <1>2 DEF CallsInOrder, PhotosCount, NothingYet
  <1>5. TraceTellsAnswer /\ StatusTellsEffect /\ StoredTypeIsTrue
    BY <1>1 DEF TraceTellsAnswer, StatusTellsEffect, StoredTypeIsTrue
  <1> QED  BY <1>2, <1>3, <1>4, <1>5 DEF IndInv

\* What a status line may say of what was done.
LEMMA IndAnswered ==
  ASSUME IndInv, at # "done", at' = "done",
         NEW s, written' = Append(written, s),
         \/ span'.state = "none" /\ s = 204
         \/ span'.state = "ended" /\ span'.status = s /\ s # 0
         \/ span'.state = "ended" /\ span'.status = 0 /\ s = 500,
         request' = request, UNCHANGED stored,
         effects' \in Seq(CallNames), todo' \in Seq(CallNames), images' \in Nat,
         DraftFits', AnswerFits',
         "analyse" \in ToSet(effects') => images' > 0,
         s \in {200, 201} =>
           ToSet(effects') \ Reading =
             IF request.route \in DOMAIN Promised THEN Promised[request.route] ELSE {},
         s \in {204, 400, 405} => ToSet(effects') \ Reading = {},
         s \in {404, 409} => ToSet(effects') \ Reading \subseteq {"save"},
         s = 502 => ToSet(effects') \cap {"analyse", "prompt"} # {}
  PROVE  IndInv'
  <1>1. written = <<>>
    BY DEF IndInv, TraceTellsAnswer
  <1>2. written' = <<s>> /\ Len(written') = 1 /\ written'[1] = s /\ written' # <<>>
    BY <1>1
  <1>3. TraceTellsAnswer'
    <2>1. /\ span'.state = "none" => s = 204
          /\ span'.state # "none" => s = IF span'.status = 0 THEN 500 ELSE span'.status
      OBVIOUS
    <2> QED  BY <1>2, <2>1 DEF TraceTellsAnswer
  <1>4. StatusTellsEffect'
    <2>1. \A x \in {"analyse", "prompt"} : x \notin Reading
      BY DEF Reading
    <2> DEFINE changed == ToSet(effects') \ Reading
    <2>2. /\ s \in {200, 201} /\ request.route \in DOMAIN Promised =>
               changed = Promised[request.route]
          /\ s \in {200, 201} /\ request.route \notin DOMAIN Promised => changed = {}
          /\ s \in {204, 400, 405} => changed = {}
          /\ s \in {404, 409} => changed \subseteq {"save"}
          /\ s = 502 => changed \cap {"analyse", "prompt"} # {}
          /\ "analyse" \in changed => images' > 0
      BY <2>1
    <2> QED  BY <1>2, <2>2 DEF StatusTellsEffect
  <1>5. EdgeTypeOK'
    BY DEF IndInv, EdgeTypeOK
  <1>6. StoredTypeIsTrue'
    BY DEF IndInv, StoredTypeIsTrue
  <1>7. CallsInOrder' /\ PhotosCount' /\ NothingYet'
    BY DEF CallsInOrder, PhotosCount, NothingYet
  <1> QED  BY <1>3, <1>4, <1>5, <1>6, <1>7 DEF IndInv

\* What the definitions of a request are made of does not change.
LEMMA SameRequest ==
  ASSUME UNCHANGED <<devMode, request>>
  PROVE  /\ Calls' = Calls /\ BadRequest' = BadRequest
         /\ Registered(request.route)' = Registered(request.route)
  BY DEF Calls, BadRequest, Registered

\* The answers before anything is done.
LEMMA IndEarlyAnswer ==
  ASSUME IndInv, Preflight \/ NoRoute \/ RefuseRequest
  PROVE  IndInv'
  <1>1. /\ at = "middleware" /\ UNCHANGED <<request, todo, images, effects, stored, analysisVars>>
    BY DEF Preflight, NoRoute, RefuseRequest, Enters, Routed
  <1>2. /\ effects = <<>> /\ ToSet(effects) = {} /\ images \in Nat
        /\ span = [state |-> "none", status |-> 0]
        /\ effects \in Seq(CallNames) /\ todo \in Seq(CallNames)
    BY <1>1 DEF IndInv, NothingYet, EdgeTypeOK, ToSet
  <1>3. DraftFits' /\ AnswerFits'
    BY <1>1, AnalysisStep DEF IndInv
  <1>4. CASE Preflight
    <2>1. at' = "done" /\ written' = Append(written, 204) /\ span' = span
      BY <1>4 DEF Preflight
    <2> QED  BY <1>1, <1>2, <1>3, <2>1, IndAnswered
  <1>5. CASE NoRoute \/ RefuseRequest
    <2>1. PICK s \in {404, 405, 400} : Answer(s)
      BY <1>5 DEF NoRoute, RefuseRequest
    <2>2. /\ at' = "done" /\ written' = Append(written, s)
          /\ span'.state = "ended" /\ span'.status = s /\ s # 0
      BY <2>1 DEF Answer
    <2> QED  BY <1>1, <1>2, <1>3, <2>2, IndAnswered
  <1> QED  BY <1>4, <1>5

\* A request is turned down, or its handler begins.
LEMMA IndAccept ==
  ASSUME IndInv, Accept
  PROVE  IndInv'
  <1>1. /\ at = "middleware" /\ at' = "handler" /\ todo' = Calls /\ ~ BadRequest
        /\ Registered(request.route)
        /\ span' = [state |-> "open", status |-> 0]
        /\ UNCHANGED <<devMode, request, images, effects, stored, lesson, written, recorded,
                       analysisVars>>
    BY DEF Accept, Routed, Enters
  <1>2. /\ request \in Requests /\ images = 0 /\ effects = <<>> /\ input = "none"
        /\ effects \in Seq(CallNames) /\ images \in Nat
    BY <1>1 DEF IndInv, NothingYet, EdgeTypeOK
  <1>3. Calls \in Seq(CallNames) /\ Len(Calls) \in Nat
    BY <1>1, <1>2, CallsFacts, LenProperties
  <1>4. DraftFits' /\ AnswerFits'
    BY <1>1, AnalysisStep DEF IndInv
  <1>5. EdgeTypeOK'
    BY <1>1, <1>2, <1>3 DEF EdgeTypeOK
  <1>6. Calls' = Calls /\ BadRequest' = BadRequest /\ Registered(request.route)'
    BY <1>1, SameRequest
  <1>7. Made' = 0
    BY <1>1, <1>3, <1>6 DEF Made
  <1>8. input' = "none" /\ ToSet(effects') = {}
    BY <1>1, <1>2 DEF analysisVars, ToSet
  <1>9. CallsInOrder'
    <2>1. \A i \in 1..Len(todo') : todo'[i] = Calls[0 + i]
      BY <1>1, <1>3
    <2>2. {Calls[i] : i \in 1..0} = {}
      OBVIOUS
    <2>3. 0 \in 0..Len(Calls)
      BY <1>3
    <2> QED  BY <1>1, <1>6, <1>7, <1>8, <2>1, <2>2, <2>3 DEF CallsInOrder
  <1>10. PhotosCount' /\ NothingYet'
    BY <1>1, <1>7, <1>8 DEF PhotosCount, NothingYet, IndInv
  <1>11. TraceTellsAnswer' /\ StatusTellsEffect' /\ StoredTypeIsTrue'
    BY <1>1 DEF IndInv, TraceTellsAnswer, StatusTellsEffect, StoredTypeIsTrue
  <1> QED  BY <1>4, <1>5, <1>9, <1>10, <1>11 DEF IndInv

-----------------------------------------------------------------------------
\* A handler that ends before it has asked for an analysis has done what the
\* calls before this one do.
LEMMA DoneSoFar ==
  ASSUME IndInv, at = "handler", todo # <<>>, Head(todo) # "analyse"
  PROVE  /\ input = "none"
         /\ ToSet(effects) = {Calls[i] : i \in 1..Made} \ {"assets"}
  BY Done DEF IndInv, CallsInOrder

\* All the calls of a handler that has none left, or whose last one this is.
LEMMA DoneAll ==
  ASSUME IndInv, at = "handler",
         NEW done, done = ToSet(effects)
                          \cup (IF todo = <<>> THEN {} ELSE {Head(todo)}),
         todo # <<>> => Head(todo) \in {"analyse", "prompt"}
  PROVE  done \ Reading =
           IF request.route \in DOMAIN Promised THEN Promised[request.route] ELSE {}
  <1>1. /\ request \in Requests /\ ~ BadRequest /\ Registered(request.route)
        /\ Len(Calls) \in Nat /\ Made \in 0..Len(Calls)
        /\ todo = <<>> <=> Made = Len(Calls)
        /\ todo # <<>> => Made + 1 \in 1..Len(Calls) /\ Head(todo) = Calls[Made + 1]
    BY Place
  <1>2. ToSet(effects) = ({Calls[i] : i \in 1..Made} \ {"assets"})
                         \cup (IF input = "none" THEN {} ELSE {"analyse"})
    BY Done
  <1>3. input # "none" => Head(todo) = "analyse" /\ todo # <<>>
    BY DEF IndInv, CallsInOrder
  <1>4. done = {Calls[i] : i \in 1..Len(Calls)} \ {"assets"}
    <2>1. CASE todo = <<>>
      BY <2>1, <1>1, <1>2, <1>3
    <2>2. CASE todo # <<>>
      <3>1. Made + 1 = Len(Calls) /\ Head(todo) = Calls[Len(Calls)]
        BY <2>2, <1>1, CallsFacts
      <3>2. \A i \in 1..Len(Calls) : i \in 1..Made \/ i = Len(Calls)
        BY <3>1, <1>1
      <3>3. Len(Calls) \in 1..Len(Calls) /\ \A i \in 1..Made : i \in 1..Len(Calls)
        BY <3>1, <1>1
      <3>4. {Calls[i] : i \in 1..Len(Calls)} = {Calls[i] : i \in 1..Made} \cup {Head(todo)}
        BY <3>1, <3>2, <3>3
      <3>5. done = (({Calls[i] : i \in 1..Made} \ {"assets"})
                    \cup (IF input = "none" THEN {} ELSE {"analyse"})) \cup {Head(todo)}
        BY <2>2, <1>2
      <3> QED  BY <2>2, <3>4, <3>5, <1>3
    <2> QED  BY <2>1, <2>2
  <1> QED  BY <1>1, <1>4, CallsFacts

\* A call is through; what it does is done.
LEMMA IndCallDone ==
  ASSUME IndInv, Pending, Head(todo) # "analyse",
         todo' = Tail(todo), at' = at,
         NEW new \in SUBSET {Head(todo)},
         effects' \in Seq(CallNames), ToSet(effects') = ToSet(effects) \cup new,
         new = {Head(todo)} \ {"assets"},
         images' \in Nat, images <= images', Head(todo) = "get" => images' > 0,
         Head(todo) = "assets" => request.fields.assets # 0,
         StoredTypeIsTrue',
         UNCHANGED <<devMode, request, written, recorded, span, analysisVars>>
  PROVE  IndInv'
  <1>1. /\ request \in Requests /\ ~ BadRequest /\ Registered(request.route)
        /\ Calls \in Seq(CallNames) /\ Len(Calls) \in Nat /\ Len(todo) \in Nat
        /\ Made \in 0..Len(Calls) /\ Len(todo) = Len(Calls) - Made
        /\ Made + 1 \in 1..Len(Calls) /\ Head(todo) = Calls[Made + 1]
        /\ Tail(todo) \in Seq(CallNames) /\ Len(Tail(todo)) = Len(todo) - 1
        /\ \A i \in 1..Len(Tail(todo)) : Tail(todo)[i] = Calls[Made + 1 + i]
    BY Place DEF Pending
  <1>2. at = "handler" /\ at' = "handler" /\ images \in Nat
    BY DEF Pending, IndInv, EdgeTypeOK
  <1>3. /\ Calls' = Calls /\ BadRequest' = BadRequest
        /\ Registered(request.route)' = Registered(request.route)
    BY SameRequest
  <1>4. Made' = Made + 1
    BY <1>1, <1>3 DEF Made
  <1>5. input' = "none" /\ ToSet(effects) = {Calls[i] : i \in 1..Made} \ {"assets"}
    BY <1>2, DoneSoFar DEF Pending, analysisVars
  <1>6. EdgeTypeOK'
    BY <1>1, <1>2 DEF IndInv, EdgeTypeOK
  <1>7. DraftFits' /\ AnswerFits'
    BY AnalysisStep DEF IndInv
  <1>8. CallsInOrder'
    <2>1. {Calls[i] : i \in 1..(Made + 1)} = {Calls[i] : i \in 1..Made} \cup {Head(todo)}
      <3>1. \A i \in 1..(Made + 1) : i \in 1..Made \/ i = Made + 1
        BY <1>1
      <3>2. Made + 1 \in 1..(Made + 1) /\ \A i \in 1..Made : i \in 1..(Made + 1)
        BY <1>1
      <3> QED  BY <1>1, <3>1, <3>2
    <2>2. ToSet(effects') = {Calls[i] : i \in 1..(Made + 1)} \ {"assets"}
      BY <1>5, <2>1
    <2>3. /\ Made' \in 0..Len(Calls')
          /\ \A i \in 1..Len(todo') : todo'[i] = Calls'[Made' + i]
      BY <1>1, <1>3, <1>4
    <2>4. ToSet(effects)' = ({Calls'[i] : i \in 1..Made'} \ {"assets"})
                             \cup (IF input' = "none" THEN {} ELSE {"analyse"})
      BY <1>3, <1>4, <1>5, <2>2 DEF ToSet
    <2> QED  BY <1>1, <1>3, <1>5, <2>3, <2>4 DEF CallsInOrder
  <1>9. PhotosCount'
    <2>1. "get" \in ToSet(effects') => images' > 0
      BY <1>2 DEF IndInv, PhotosCount
    <2>2. request.route = "AnalyzeAssets" /\ Made + 1 >= 2 => request.fields.assets # 0
      <3> SUFFICES ASSUME request.route = "AnalyzeAssets", Made + 1 >= 2
                   PROVE  request.fields.assets # 0
          OBVIOUS
      <3>1. CASE Made >= 2
        BY <3>1, <1>2 DEF IndInv, PhotosCount
      <3>2. CASE Made = 1
        <4>1. Head(todo) = "assets"
          BY <3>2, <1>1, CallsFacts
        <4> QED  BY <4>1
      <3> QED  BY <3>1, <3>2, <1>1
    <2> QED  BY <1>4, <2>1, <2>2 DEF PhotosCount, ToSet
  <1>10. NothingYet'
    BY <1>2 DEF IndInv, NothingYet
  <1>11. TraceTellsAnswer' /\ StatusTellsEffect'
    BY <1>2 DEF IndInv, TraceTellsAnswer, StatusTellsEffect
  <1> QED  BY <1>6, <1>7, <1>8, <1>9, <1>10, <1>11 DEF IndInv

\* A photo is stored only with a type that its detection gives.
LEMMA DetectedType ==
  ASSUME NEW image, DetectImageContentType(image) # "none"
  PROVE  /\ DetectImageContentType(image) \in SupportedTypes
         /\ image.sniffed \in SupportedTypes => DetectImageContentType(image) = image.sniffed
  BY DEF DetectImageContentType, TypeOfExtension, SupportedTypes

\* A call below the handler succeeds.
LEMMA IndCallSucceeds ==
  ASSUME IndInv, CallSucceeds
  PROVE  IndInv'
  <1>1. /\ Pending /\ FailureOf(Head(todo)) # {} /\ todo' = Tail(todo) /\ at' = at
        /\ effects' = Append(effects, Head(todo))
        /\ images' = (IF Head(todo) = "get" THEN images + 1 ELSE images)
        /\ stored' = (IF Head(todo) = "save" THEN DetectImageContentType(request.fields.image)
                      ELSE stored)
        /\ UNCHANGED <<devMode, request, written, recorded, span, analysisVars>>
    BY DEF CallSucceeds
  <1>2. Head(todo) # "analyse" /\ Head(todo) # "assets"
    BY <1>1 DEF FailureOf
  <1>3. effects \in Seq(CallNames) /\ images \in Nat /\ Head(todo) \in CallNames
    BY <1>1, HeadTailProperties DEF IndInv, EdgeTypeOK, Pending
  <1>4. /\ effects' \in Seq(CallNames)
        /\ ToSet(effects') = ToSet(effects) \cup {Head(todo)}
    BY <1>1, <1>3, ToSetFacts, AppendProperties
  <1>5. images' \in Nat /\ images <= images' /\ (Head(todo) = "get" => images' > 0)
    BY <1>1, <1>3
  <1>6. StoredTypeIsTrue'
    <2>1. CASE Head(todo) = "save"
      <3>1. /\ request \in Requests /\ ~ BadRequest /\ Registered(request.route)
            /\ Made + 1 \in 1..Len(Calls) /\ Head(todo) = Calls[Made + 1]
        BY <1>1, Place DEF Pending
      <3>2. ~ BadImage(request.fields.image)
        BY <2>1, <3>1, CallsFacts
      <3>3. DetectImageContentType(request.fields.image) # "none"
        BY <3>2 DEF BadImage
      <3> QED  BY <1>1, <2>1, <3>3, DetectedType DEF StoredTypeIsTrue
    <2>2. CASE Head(todo) # "save"
      BY <1>1, <2>2 DEF IndInv, StoredTypeIsTrue
    <2> QED  BY <2>1, <2>2
  <1>7. {Head(todo)} \in SUBSET {Head(todo)} /\ {Head(todo)} = {Head(todo)} \ {"assets"}
    BY <1>2
  <1> QED  BY <1>1, <1>2, <1>4, <1>5, <1>6, <1>7, IndCallDone

\* A call below the handler fails, and the handler writes its status.
LEMMA IndCallFails ==
  ASSUME IndInv, CallFails
  PROVE  IndInv'
  <1>1. PICK s \in FailureOf(Head(todo)) : Answer(s)
    BY DEF CallFails
  <1>2. /\ Pending /\ at = "handler" /\ todo # <<>>
        /\ UNCHANGED <<request, todo, images, effects, stored, analysisVars>>
        /\ at' = "done" /\ written' = Append(written, s)
        /\ span'.state = "ended" /\ span'.status = s
    BY <1>1 DEF CallFails, Pending, Answer
  <1>3. /\ request \in Requests /\ ~ BadRequest /\ Registered(request.route)
        /\ Made + 1 \in 1..Len(Calls) /\ Head(todo) = Calls[Made + 1]
        /\ Made \in 0..Len(Calls) /\ Len(Calls) \in Nat
    BY <1>2, Place
  <1>4. s \in {404, 409, 500}
    <2> DEFINE n == Made + 1
    <2>0. request \in Requests /\ ~ BadRequest /\ Registered(request.route)
      BY <1>3
    <2>1. n \in 1..Len(Calls) /\ Head(todo) = Calls[n]
      BY <1>3
    <2> HIDE DEF n
    <2>2. \A i \in 1..Len(Calls) : FailureOf(Calls[i]) \subseteq {404, 409, 500}
      <3>1. FailuresKnown
        BY <2>0, CallsFacts
      <3> QED  BY <3>1 DEF FailuresKnown
    <2>3. FailureOf(Calls[n]) \subseteq {404, 409, 500}
      <3> DEFINE P(i) == FailureOf(Calls[i]) \subseteq {404, 409, 500}
      <3>1. \A i \in 1..Len(Calls) : P(i)
        BY <2>2
      <3> HIDE DEF P
      <3>2. P(n)
        BY <2>1, <3>1
      <3> QED  BY <3>2 DEF P
    <2> QED  BY <1>1, <2>1, <2>3
  <1>5. Head(todo) # "analyse"
    BY <1>1 DEF FailureOf
  <1>6. ToSet(effects) = {Calls[i] : i \in 1..Made} \ {"assets"}
    BY <1>2, <1>5, DoneSoFar
  <1>7. s \in {404, 409} => ToSet(effects) \ Reading \subseteq {"save"}
    <2> SUFFICES ASSUME s \in {404, 409}
                 PROVE  \A j \in 1..Made : Calls[j] \in {"save", "assets"} \cup Reading
        BY <1>6
    <2> DEFINE n == Made + 1
    <2>1. n \in 1..Len(Calls) /\ FailureOf(Calls[n]) \cap {404, 409} # {}
      BY <1>1, <1>3
    <2> HIDE DEF n
    <2>2. \A i \in 1..Len(Calls) :
            FailureOf(Calls[i]) \cap {404, 409} # {} =>
              \A j \in 1..(i - 1) : Calls[j] \in {"save", "assets"} \cup Reading
      <3>1. OwnFaultEarly
        BY <1>3, CallsFacts
      <3> QED  BY <3>1 DEF OwnFaultEarly
    <2> DEFINE P(i) == FailureOf(Calls[i]) \cap {404, 409} # {}
               Q(i) == \A j \in 1..(i - 1) : Calls[j] \in {"save", "assets"} \cup Reading
    <2> HIDE DEF P, Q
    <2>3. Q(n)
      <3>1. P(n) /\ \A i \in 1..Len(Calls) : P(i) => Q(i)
        BY <2>1, <2>2 DEF P, Q
      <3> QED  BY <2>1, <3>1
    <2>4. n - 1 = Made
      BY <1>3 DEF n
    <2> QED  BY <2>3, <2>4 DEF Q
  <1>8. DraftFits' /\ AnswerFits'
    BY <1>2, AnalysisStep DEF IndInv
  <1>9. "analyse" \in ToSet(effects) => images > 0
    BY <1>2, AnalysisHasPhoto
  <1>10. /\ effects' \in Seq(CallNames) /\ todo' \in Seq(CallNames) /\ images' \in Nat
         /\ effects' = effects /\ images' = images
    BY <1>2 DEF IndInv, EdgeTypeOK
  <1>11. /\ s # 0 /\ s \notin {200, 201} /\ s \notin {204, 400, 405} /\ s # 502
    BY <1>4
  <1>12. /\ "analyse" \in ToSet(effects') => images' > 0
         /\ s \in {404, 409} => ToSet(effects') \ Reading \subseteq {"save"}
    BY <1>7, <1>9, <1>10
  <1>13. /\ at # "done" /\ at' = "done" /\ written' = Append(written, s)
         /\ span'.state = "ended" /\ span'.status = s
         /\ request' = request /\ UNCHANGED stored
    BY <1>2
  <1>14. effects' \in Seq(CallNames) /\ todo' \in Seq(CallNames) /\ images' \in Nat
    BY <1>10
  <1> QED  BY <1>8, <1>11, <1>12, <1>13, <1>14, IndAnswered

\* AnalyzeAssets wants one asset at least.
LEMMA IndCheckAssets ==
  ASSUME IndInv, CheckAssets
  PROVE  IndInv'
  <1>1. /\ Pending /\ at = "handler" /\ todo # <<>> /\ Head(todo) = "assets"
        /\ UNCHANGED <<devMode, request, images, effects, stored, lesson, analysisVars>>
    BY DEF CheckAssets, Pending
  <1>2. effects \in Seq(CallNames) /\ todo \in Seq(CallNames) /\ images \in Nat
    BY DEF IndInv, EdgeTypeOK
  <1>3. CASE request.fields.assets = 0
    <2>1. /\ at' = "done" /\ written' = Append(written, 400) /\ UNCHANGED todo
          /\ span'.state = "ended" /\ span'.status = 400
      BY <1>3 DEF CheckAssets, Answer
    <2>2. ToSet(effects) \ Reading = {}
      <3>1. /\ request \in Requests /\ ~ BadRequest /\ Registered(request.route)
            /\ Made + 1 \in 1..Len(Calls) /\ Head(todo) = Calls[Made + 1]
            /\ Made \in 0..Len(Calls) /\ Len(Calls) \in Nat
        BY <1>1, Place
      <3>2. request.route = "AnalyzeAssets" /\ Made + 1 = 2
        BY <1>1, <3>1, CallsFacts
      <3>3. Made = 1 /\ Calls[1] = "exists"
        <4>1. /\ request.fields.assets \in Nat
              /\ Calls = <<"exists", "assets">>
                         \o [i \in 1..request.fields.assets |-> "get"] \o <<"analyse">>
          BY <3>1, <3>2, CallsOf
        <4>2. Calls[1] = "exists"
          BY <4>1, AssetsCalls
        <4> QED  BY <3>1, <3>2, <4>2
      <3>4. ToSet(effects) = {Calls[i] : i \in 1..1} \ {"assets"}
        BY <1>1, <3>3, DoneSoFar
      <3> QED  BY <3>3, <3>4 DEF Reading
    <2>3. DraftFits' /\ AnswerFits'
      BY <1>1, AnalysisStep DEF IndInv
    <2>4. "analyse" \in ToSet(effects) => images > 0
      BY <1>1, AnalysisHasPhoto
    <2>5. effects' = effects /\ images' = images /\ request' = request /\ UNCHANGED stored
      BY <1>1
    <2> QED  BY <1>1, <1>2, <2>1, <2>2, <2>3, <2>4, <2>5, IndAnswered
  <1>4. CASE request.fields.assets # 0
    <2>1. /\ todo' = Tail(todo) /\ UNCHANGED <<at, written, recorded, span>>
      BY <1>4 DEF CheckAssets
    <2>2. {} \in SUBSET {Head(todo)} /\ {} = {Head(todo)} \ {"assets"}
      BY <1>1
    <2>3. effects' = effects /\ images' = images /\ images <= images
      BY <1>1, <1>2
    <2>4. StoredTypeIsTrue'
      BY <1>1 DEF IndInv, StoredTypeIsTrue
    <2>5. ToSet(effects') = ToSet(effects) \cup {}
      BY <2>3
    <2> QED  BY <1>1, <1>2, <1>4, <2>1, <2>2, <2>3, <2>4, <2>5, IndCallDone
  <1> QED  BY <1>3, <1>4

\* The model is asked; it fails at once or the handler goes on with what the
\* provider handed back.
LEMMA IndAskModel ==
  ASSUME IndInv, AskModel
  PROVE  IndInv'
  <1>1. /\ Pending /\ at = "handler" /\ todo # <<>> /\ Head(todo) = "analyse"
        /\ input = "none" /\ CallReturns(images)
        /\ effects' = Append(effects, "analyse")
        /\ UNCHANGED <<devMode, request, todo, images, stored, lesson>>
    BY DEF AskModel, Pending
  <1>2. effects \in Seq(CallNames) /\ todo \in Seq(CallNames) /\ images \in Nat
    BY DEF IndInv, EdgeTypeOK
  <1>3. /\ effects' \in Seq(CallNames)
        /\ ToSet(effects') = ToSet(effects) \cup {"analyse"}
    <2>1. "analyse" \in CallNames
      BY DEF CallNames
    <2> QED  BY <1>1, <1>2, <2>1, ToSetFacts, AppendProperties
  <1>4. images > 0
    BY <1>1, AnalysisHasPhoto
  <1>5. DraftFits' /\ AnswerFits'
    BY <1>1, AnalysisStep DEF IndInv
  <1>6. CASE answer' # Nothing
    <2>1. /\ at' = "done" /\ written' = Append(written, 502)
          /\ span'.state = "ended" /\ span'.status = 502
      BY <1>6 DEF AskModel, Answer
    <2>2. ToSet(effects') \cap {"analyse", "prompt"} # {}
      BY <1>3
    <2>3. request' = request /\ images' = images /\ todo' = todo /\ UNCHANGED stored
      BY <1>1
    <2> QED  BY <1>1, <1>2, <1>3, <1>4, <1>5, <2>1, <2>2, <2>3, IndAnswered
  <1>7. CASE answer' = Nothing
    <2>1. UNCHANGED <<at, written, recorded, span>>
      BY <1>7 DEF AskModel
    <2>2. input' # "none"
      <3>1. Nothing # AnalysisFailed
        BY DEF Nothing, AnalysisFailed
      <3>2. PICK reply \in Replies :
              LET got == CallStructured(images, reply)
              IN IF got = "failed" THEN answer' = AnalysisFailed /\ UNCHANGED input
                                   ELSE input' = got /\ UNCHANGED answer
        BY <1>1 DEF CallReturns
      <3>3. CallStructured(images, reply) \in {"failed", "strict", "loose"}
        BY DEF CallStructured, AnthropicCallStructured, OpenAICallStructured
      <3> QED  BY <1>7, <3>1, <3>2, <3>3
    <2>3. EdgeTypeOK'
      BY <1>1, <1>2, <1>3, <2>1 DEF IndInv, EdgeTypeOK
    <2>4. /\ Calls' = Calls /\ BadRequest' = BadRequest
          /\ Registered(request.route)' = Registered(request.route)
      BY <1>1, SameRequest
    <2>5. Made' = Made
      BY <1>1, <2>4 DEF Made
    <2>6. CallsInOrder'
      <3>1. ToSet(effects) = ({Calls[i] : i \in 1..Made} \ {"assets"})
        BY <1>1, Done
      <3>2. ToSet(effects)' = ({Calls'[i] : i \in 1..Made'} \ {"assets"})
                              \cup (IF input' = "none" THEN {} ELSE {"analyse"})
        BY <1>3, <2>2, <2>4, <2>5, <3>1 DEF ToSet
      <3> QED  BY <1>1, <2>1, <2>4, <2>5, <3>2 DEF IndInv, CallsInOrder
    <2>7. PhotosCount'
      BY <1>1, <1>4, <2>5 DEF IndInv, PhotosCount
    <2>8. NothingYet' /\ TraceTellsAnswer' /\ StatusTellsEffect'
      BY <1>1, <2>1 DEF IndInv, NothingYet, TraceTellsAnswer, StatusTellsEffect
    <2>9. StoredTypeIsTrue'
      BY <1>1 DEF IndInv, StoredTypeIsTrue
    <2> QED  BY <1>5, <2>3, <2>6, <2>7, <2>8, <2>9 DEF IndInv
  <1> QED  BY <1>6, <1>7

\* The provider's input is decoded, or is not.
LEMMA IndDecode ==
  ASSUME IndInv, Decode
  PROVE  IndInv'
  <1>1. UNCHANGED edgeVars /\ (DecodeStrict \/ DecodeLoose)
    BY DEF Decode
  <1>2. UNCHANGED <<devMode, request, at, todo, images, effects, stored, written, recorded,
                    span, input>>
    BY <1>1 DEF edgeVars, DecodeStrict, DecodeLoose
  <1>3. DraftFits' /\ AnswerFits'
    BY <1>1, AnalysisStep DEF IndInv
  <1>4. /\ Calls' = Calls /\ BadRequest' = BadRequest
        /\ Registered(request.route)' = Registered(request.route) /\ Made' = Made
    BY <1>2, SameRequest DEF Made
  <1>5. EdgeTypeOK' /\ NothingYet'
    BY <1>2 DEF IndInv, EdgeTypeOK, NothingYet
  <1>6. ToSet(effects)' = ToSet(effects)
    BY <1>2 DEF ToSet
  <1>7. CallsInOrder'
    BY <1>2, <1>4, <1>6 DEF IndInv, CallsInOrder
  <1>8. PhotosCount'
    BY <1>2, <1>4, <1>6 DEF IndInv, PhotosCount
  <1>9. TraceTellsAnswer' /\ StatusTellsEffect' /\ StoredTypeIsTrue'
    BY <1>2 DEF IndInv, TraceTellsAnswer, StatusTellsEffect, StoredTypeIsTrue
  <1> QED  BY <1>3, <1>5, <1>7, <1>8, <1>9 DEF IndInv

\* The analysis has ended, one way or the other.
LEMMA IndConclude ==
  ASSUME IndInv, Conclude
  PROVE  IndInv'
  <1> DEFINE s == IF answer'.status = "failed" THEN 502 ELSE 200
  <1>1. /\ at = "handler" /\ todo # <<>> /\ Head(todo) = "analyse"
        /\ DecodeFails \/ Refuse \/ ShowEvaluation \/ ShowExtract
        /\ UNCHANGED <<devMode, request, todo, images, effects, stored, lesson>>
        /\ at' = "done" /\ written' = Append(written, s)
        /\ span'.state = "ended" /\ span'.status = s
    BY DEF Conclude, Pending, Answer
  <1>2. DraftFits' /\ AnswerFits'
    BY <1>1, AnalysisStep DEF IndInv
  <1>3. input # "none"
    BY <1>1 DEF IndInv, DraftFits, DecodeFails, Refuse, ShowEvaluation, ShowExtract
  <1>4. "analyse" \in ToSet(effects)
    BY <1>1, <1>3, Done
  <1>5. images > 0
    BY <1>1, AnalysisHasPhoto
  <1>6. ToSet(effects) \ Reading =
          IF request.route \in DOMAIN Promised THEN Promised[request.route] ELSE {}
    <2>1. ToSet(effects) = ToSet(effects) \cup (IF todo = <<>> THEN {} ELSE {Head(todo)})
      BY <1>1, <1>4
    <2> QED  BY <1>1, <2>1, DoneAll
  <1>7. /\ effects' = effects /\ images' = images /\ request' = request /\ UNCHANGED stored
        /\ effects' \in Seq(CallNames) /\ todo' \in Seq(CallNames) /\ images' \in Nat
    BY <1>1 DEF IndInv, EdgeTypeOK
  <1>8. s \in {200, 502}
    OBVIOUS
  <1> HIDE DEF s
  <1> QED  BY <1>1, <1>2, <1>4, <1>5, <1>6, <1>7, <1>8, IndAnswered

\* The developer prompt is asked for and answered.
LEMMA IndAskPrompt ==
  ASSUME IndInv, AskPrompt
  PROVE  IndInv'
  <1>1. /\ at = "handler" /\ todo # <<>> /\ Head(todo) = "prompt"
        /\ effects' = Append(effects, "prompt")
        /\ UNCHANGED <<devMode, request, todo, images, stored, lesson, analysisVars>>
        /\ ImplicitOK \/ Answer(502)
    BY DEF AskPrompt, Pending
  <1>2. /\ effects \in Seq(CallNames) /\ todo \in Seq(CallNames) /\ images \in Nat
        /\ recorded = 200
    BY <1>1 DEF IndInv, EdgeTypeOK, NothingYet
  <1>3. PICK s \in {200, 502} :
          /\ at' = "done" /\ written' = Append(written, s)
          /\ span'.state = "ended" /\ span'.status = s
    BY <1>1, <1>2 DEF ImplicitOK, Answer
  <1>4. /\ effects' \in Seq(CallNames)
        /\ ToSet(effects') = ToSet(effects) \cup {"prompt"}
    <2>1. "prompt" \in CallNames
      BY DEF CallNames
    <2> QED  BY <1>1, <1>2, <2>1, ToSetFacts, AppendProperties
  <1>5. DraftFits' /\ AnswerFits'
    BY <1>1, AnalysisStep DEF IndInv
  <1>6. "analyse" \in ToSet(effects') => images > 0
    BY <1>1, <1>4, AnalysisHasPhoto
  <1>7. ToSet(effects') \ Reading =
          IF request.route \in DOMAIN Promised THEN Promised[request.route] ELSE {}
    <2>1. ToSet(effects') = ToSet(effects) \cup (IF todo = <<>> THEN {} ELSE {Head(todo)})
      BY <1>1, <1>4
    <2> QED  BY <1>1, <2>1, DoneAll
  <1>8. ToSet(effects') \cap {"analyse", "prompt"} # {}
    BY <1>4
  <1>9. images' = images /\ request' = request /\ UNCHANGED stored /\ todo' = todo
    BY <1>1
  <1> QED  BY <1>1, <1>2, <1>3, <1>4, <1>5, <1>6, <1>7, <1>8, <1>9, IndAnswered

\* A handler has made all its calls and writes its message.
LEMMA IndSucceed ==
  ASSUME IndInv, Succeed
  PROVE  IndInv'
  <1>1. /\ at = "handler" /\ todo = <<>>
        /\ UNCHANGED <<devMode, request, todo, images, effects, stored, analysisVars>>
        /\ ImplicitOK \/ Answer(Success)
    BY DEF Succeed
  <1>2. /\ effects \in Seq(CallNames) /\ todo \in Seq(CallNames) /\ images \in Nat
        /\ recorded = 200
    BY <1>1 DEF IndInv, EdgeTypeOK, NothingYet
  <1>3. PICK s \in {200, 201} :
          /\ at' = "done" /\ written' = Append(written, s)
          /\ span'.state = "ended" /\ span'.status = s
    BY <1>1, <1>2 DEF ImplicitOK, Answer, Success
  <1>4. DraftFits' /\ AnswerFits'
    BY <1>1, AnalysisStep DEF IndInv
  <1>5. "analyse" \in ToSet(effects) => images > 0
    BY <1>1, AnalysisHasPhoto
  <1>6. ToSet(effects) \ Reading =
          IF request.route \in DOMAIN Promised THEN Promised[request.route] ELSE {}
    <2>1. ToSet(effects) = ToSet(effects) \cup (IF todo = <<>> THEN {} ELSE {Head(todo)})
      BY <1>1
    <2> QED  BY <1>1, <2>1, DoneAll
  <1>7. /\ effects' = effects /\ images' = images /\ request' = request
        /\ UNCHANGED stored /\ todo' = todo
    BY <1>1
  <1> QED  BY <1>1, <1>2, <1>3, <1>4, <1>5, <1>6, <1>7, IndAnswered

\* A panic ends the handler: 500, and a span without a status.
LEMMA IndPanic ==
  ASSUME IndInv, Panic
  PROVE  IndInv'
  <1>1. /\ at = "handler" /\ at' = "done" /\ written' = Append(written, 500)
        /\ span'.state = "ended" /\ span'.status = 0
        /\ UNCHANGED <<devMode, request, todo, images, effects, stored, analysisVars>>
    BY DEF Panic
  <1>2. effects \in Seq(CallNames) /\ todo \in Seq(CallNames) /\ images \in Nat
    BY DEF IndInv, EdgeTypeOK
  <1>3. DraftFits' /\ AnswerFits'
    BY <1>1, AnalysisStep DEF IndInv
  <1>4. "analyse" \in ToSet(effects) => images > 0
    BY <1>1, AnalysisHasPhoto
  <1>5. /\ effects' = effects /\ images' = images /\ request' = request
        /\ UNCHANGED stored /\ todo' = todo
    BY <1>1
  <1> QED  BY <1>1, <1>2, <1>3, <1>4, <1>5, IndAnswered

\* The invariant is about the variables of the request only.
LEMMA IndUnchanged ==
  ASSUME IndInv, UNCHANGED vars
  PROVE  IndInv'
  <1>1. /\ UNCHANGED <<devMode, request, at, todo, images, effects, stored, lesson,
                       written, recorded, span, input>>
        /\ UNCHANGED analysisVars
    BY DEF vars, edgeVars, analysisVars
  <1>2. DraftFits' /\ AnswerFits'
    BY <1>1, AnalysisStep DEF IndInv
  <1>3. /\ Calls' = Calls /\ BadRequest' = BadRequest
        /\ Registered(request.route)' = Registered(request.route) /\ Made' = Made
        /\ ToSet(effects)' = ToSet(effects)
    BY <1>1, SameRequest DEF Made, ToSet
  <1>4. EdgeTypeOK' /\ NothingYet'
    BY <1>1 DEF IndInv, EdgeTypeOK, NothingYet
  <1>5. CallsInOrder'
    BY <1>1, <1>3 DEF IndInv, CallsInOrder
  <1>6. PhotosCount'
    BY <1>1, <1>3 DEF IndInv, PhotosCount
  <1>7. TraceTellsAnswer' /\ StatusTellsEffect' /\ StoredTypeIsTrue'
    BY <1>1 DEF IndInv, TraceTellsAnswer, StatusTellsEffect, StoredTypeIsTrue
  <1> QED  BY <1>2, <1>4, <1>5, <1>6, <1>7 DEF IndInv

\* Every step keeps the invariant.
LEMMA IndStep == IndInv /\ [EdgeNext]_vars => IndInv'
  <1> SUFFICES ASSUME IndInv, [EdgeNext]_vars PROVE IndInv'
      OBVIOUS
  <1>1. CASE Preflight \/ NoRoute \/ RefuseRequest
    BY <1>1, IndEarlyAnswer
  <1>2. CASE Accept
    BY <1>2, IndAccept
  <1>3. CASE CallSucceeds \/ CallFails
    BY <1>3, IndCallSucceeds, IndCallFails
  <1>4. CASE CheckAssets
    BY <1>4, IndCheckAssets
  <1>5. CASE AskModel \/ Decode \/ Conclude
    BY <1>5, IndAskModel, IndDecode, IndConclude
  <1>6. CASE AskPrompt
    BY <1>6, IndAskPrompt
  <1>7. CASE Succeed \/ Panic
    BY <1>7, IndSucceed, IndPanic
  <1>8. CASE UNCHANGED vars
    BY <1>8, IndUnchanged
  <1> QED  BY <1>1, <1>2, <1>3, <1>4, <1>5, <1>6, <1>7, <1>8 DEF EdgeNext

-----------------------------------------------------------------------------
(***************************************************************************)
(* The lesson of an answer.                                                *)
(***************************************************************************)

\* The lesson of an answer is the one its request names.
LessonIsAnswer ==
  lesson # NoLesson =>
    lesson = GetLesson(request.fields.lessonId, GetEnv(request.fields.language, "en"))

\* A lesson is written once, at the end, and is what the request asks for.
LEMMA LessonStep ==
  ASSUME LessonIsAnswer, [EdgeNext]_vars
  PROVE  LessonIsAnswer'
  <1>1. request' = request
    BY DEF EdgeNext, vars, edgeVars, Preflight, NoRoute, RefuseRequest, Accept,
           CallSucceeds, CallFails, CheckAssets, AskModel, Decode, Conclude, AskPrompt,
           Succeed, Panic
  <1>2. CASE Succeed
    <2>1. \/ lesson' = GetLesson(request.fields.lessonId,
                                 GetEnv(request.fields.language, "en"))
          \/ lesson' = lesson
      BY <1>2 DEF Succeed
    <2> QED  BY <1>1, <2>1 DEF LessonIsAnswer
  <1>3. CASE ~ Succeed
    <2>1. lesson' = lesson
      BY <1>3 DEF EdgeNext, vars, edgeVars, Preflight, NoRoute, RefuseRequest, Accept,
                  CallSucceeds, CallFails, CheckAssets, AskModel, Decode, Conclude,
                  AskPrompt, Panic
    <2> QED  BY <1>1, <2>1 DEF LessonIsAnswer
  <1> QED  BY <1>2, <1>3

\* Blocks without a step are in order.
LEMMA NoSteps ==
  ASSUME NEW blocks, \A i \in DOMAIN blocks : blocks[i] \notin {"1", "2", "3"}
  PROVE  InOrder(blocks)
  <1>1. \A n \in 1..3 : StepNumbers[n] \in {"1", "2", "3"}
    BY DEF StepNumbers
  <1> QED  BY <1>1 DEF InOrder

\* What LessonServed asks of the body of a lesson.
Sound(body) ==
  /\ body.context > 0 /\ body.sections # <<>>
  /\ \A i \in DOMAIN body.sections : InOrder(body.sections[i])
  /\ "1" \in ToSet(body.worked) /\ InOrder(body.worked)

\* So they are, lesson by lesson: linear equations,
LEMMA LinearSound ==
  ASSUME NEW lang \in {"en", "es"}
  PROVE  Sound(LinearEquations[lang])
  <1> DEFINE a == <<"text", "math", "text">>
             b == <<"text", "1", "2">>
             c == <<"text", "text", "math", "math", "graph", "1", "2", "3">>
             w == <<"text", "math", "1", "2", "text">>
  <1>1. /\ LinearEquations["en"] = Lesson("algebra", 2, <<a, b, c>>, w)
        /\ LinearEquations["es"] = Lesson("algebra_es", 2, <<a, b, c>>, w)
    BY DEF LinearEquations
  <1>2. InOrder(a)
    BY NoSteps
  <1>3. InOrder(b)
    BY DEF InOrder, StepNumbers
  <1>4. InOrder(c)
    BY DEF InOrder, StepNumbers
  <1>5. InOrder(w) /\ "1" \in ToSet(w)
    BY DEF InOrder, StepNumbers, ToSet
  <1> QED  BY <1>1, <1>2, <1>3, <1>4, <1>5 DEF Sound, Lesson

\* quadratic equations,
LEMMA QuadraticSound ==
  ASSUME NEW lang \in {"en", "es"}
  PROVE  Sound(QuadraticEquations[lang])
  <1> DEFINE a == <<"math", "text">>
             formula == <<"text", "math", "text", "math", "math", "math">>
             graph == Append(formula, "graph")
             w == <<"text", "math", "1", "2", "3">>
  <1>1. /\ QuadraticEquations["en"] = Lesson("algebra", 1, <<a, graph>>, w)
        /\ QuadraticEquations["es"] = Lesson("algebra_es", 1, <<a, formula>>, w)
    BY DEF QuadraticEquations
  <1>2. InOrder(a) /\ InOrder(formula)
    BY NoSteps
  <1>3. InOrder(graph)
    <2>1. formula \in Seq({"text", "math", "graph"})
      OBVIOUS
    <2> HIDE DEF formula
    <2>2. graph \in Seq({"text", "math", "graph"})
      BY <2>1
    <2>3. \A i \in DOMAIN graph : graph[i] \in {"text", "math", "graph"}
      BY <2>2, LenProperties
    <2> QED  BY <2>3, NoSteps
  <1>4. InOrder(w) /\ "1" \in ToSet(w)
    BY DEF InOrder, StepNumbers, ToSet
  <1> HIDE DEF a, formula, graph, w
  <1> QED  BY <1>1, <1>2, <1>3, <1>4 DEF Sound, Lesson

\* The worked example of three of the lessons.
LEMMA TwoSteps ==
  LET w == <<"text", "1", "2">> IN InOrder(w) /\ "1" \in ToSet(w)
  BY DEF InOrder, StepNumbers, ToSet

\* the theorem of Pythagoras,
LEMMA PythagoreanSound ==
  ASSUME NEW lang \in {"en", "es"}
  PROVE  Sound(PythagoreanTheorem[lang])
  <1> DEFINE a == <<"text", "math", "geometry">>
             b == <<"text", "math", "text", "math">>
             w == <<"text", "1", "2">>
  <1>1. /\ PythagoreanTheorem["en"] = Lesson("geometry", 1, <<a, b>>, w)
        /\ PythagoreanTheorem["es"] = Lesson("geometry_es", 1, <<a>>, w)
    BY DEF PythagoreanTheorem
  <1>2. InOrder(a) /\ InOrder(b)
    BY NoSteps
  <1> QED  BY <1>1, <1>2, TwoSteps DEF Sound, Lesson

\* derivatives,
LEMMA DerivativesSound ==
  ASSUME NEW lang \in {"en", "es"}
  PROVE  Sound(IntroToDerivatives[lang])
  <1> DEFINE a == <<"text", "math", "graph">>
             b == <<"text", "math">>
             rule == <<"text", "math", "text", "math", "math", "math">>
             w == <<"text", "1", "2">>
             v == <<"text", "1">>
  <1>1. /\ IntroToDerivatives["en"] = Lesson("calculus", 1, <<a, rule>>, w)
        /\ IntroToDerivatives["es"] = Lesson("calculus_es", 1, <<b, Front(rule)>>, v)
    BY DEF IntroToDerivatives
  <1>2. InOrder(a) /\ InOrder(b) /\ InOrder(rule)
    BY NoSteps
  <1>3. InOrder(Front(rule))
    <2>1. Front(rule) = SubSeq(rule, 1, 5)
      BY DEF Front
    <2>2. \A i \in DOMAIN SubSeq(rule, 1, 5) : SubSeq(rule, 1, 5)[i] \in {"text", "math"}
      OBVIOUS
    <2> QED  BY <2>1, <2>2, NoSteps
  <1>4. InOrder(v) /\ "1" \in ToSet(v)
    BY DEF InOrder, StepNumbers, ToSet
  <1> HIDE DEF rule
  <1> QED  BY <1>1, <1>2, <1>3, <1>4, TwoSteps DEF Sound, Lesson

\* and mean and median.
LEMMA StatisticsSound ==
  ASSUME NEW lang \in {"en", "es"}
  PROVE  Sound(Statistics[lang])
  <1> DEFINE a == <<"text", "math">>
             b == <<"text">>
             mean == <<a, b>>
             w == <<"text", "1", "2">>
  <1>1. /\ Statistics["en"] = Lesson("statistics", 1, Append(mean, b), w)
        /\ Statistics["es"] = Lesson("statistics_es", 1, mean, w)
    BY DEF Statistics
  <1>2. InOrder(a) /\ InOrder(b)
    BY NoSteps
  <1> HIDE DEF a, b
  <1>3. mean # <<>> /\ \A i \in DOMAIN mean : InOrder(mean[i])
    BY <1>2
  <1>4. Append(mean, b) # <<>> /\ \A i \in DOMAIN Append(mean, b) : InOrder(Append(mean, b)[i])
    <2>1. mean \in Seq({a, b}) /\ b \in {a, b}
      OBVIOUS
    <2> HIDE DEF mean
    <2>2. Append(mean, b) \in Seq({a, b}) /\ Append(mean, b) # <<>>
      BY <2>1, AppendProperties
    <2>3. \A i \in DOMAIN Append(mean, b) : Append(mean, b)[i] \in {a, b}
      BY <2>2, LenProperties
    <2> QED  BY <1>2, <2>2, <2>3
  <1>5. InOrder(w) /\ "1" \in ToSet(w)
    BY TwoSteps
  <1> DEFINE more == Append(mean, b)
  <1>6. more # <<>> /\ \A i \in DOMAIN more : InOrder(more[i])
    BY <1>4
  <1> HIDE DEF mean, more, w
  <1>7. CASE lang = "en"
    <2>1. Statistics[lang] = Lesson("statistics", 1, more, w)
      BY <1>1, <1>7 DEF more
    <2> QED  BY <2>1, <1>5, <1>6 DEF Sound, Lesson
  <1>8. CASE lang = "es"
    <2>1. Statistics[lang] = Lesson("statistics_es", 1, mean, w)
      BY <1>1, <1>8
    <2> QED  BY <2>1, <1>3, <1>5 DEF Sound, Lesson
  <1> QED  BY <1>7, <1>8

\* Every lesson of the catalog, in both languages.
LEMMA LessonsSound ==
  ASSUME NEW id \in DOMAIN Lessons, NEW lang \in {"en", "es"}
  PROVE  Sound(Lessons[id][lang])
  <1>1. \/ Lessons[id] = LinearEquations \/ Lessons[id] = QuadraticEquations
        \/ Lessons[id] = PythagoreanTheorem \/ Lessons[id] = IntroToDerivatives
        \/ Lessons[id] = Statistics
    BY DEF Lessons
  <1> QED  BY <1>1, LinearSound, QuadraticSound, PythagoreanSound, DerivativesSound,
              StatisticsSound

-----------------------------------------------------------------------------
(***************************************************************************)
(* What is shown, of every request.                                        *)
(***************************************************************************)

\* The inductive invariant holds from the arrival of a request to its answer.
THEOREM Invariance == EdgeSpec => []IndInv
  BY IndInit, IndStep, PTL DEF EdgeSpec

\* A request is answered with one status line, which its trace has too.
THEOREM TracedAnswer == EdgeSpec => []TraceTellsAnswer
  <1>1. IndInv => TraceTellsAnswer
    BY DEF IndInv
  <1> QED  BY <1>1, Invariance, PTL

\* The status line says what was done: all of it, nothing, or how far it went.
THEOREM TrueStatus == EdgeSpec => []StatusTellsEffect
  <1>1. IndInv => StatusTellsEffect
    BY DEF IndInv
  <1> QED  BY <1>1, Invariance, PTL

\* A photo is stored under a type the providers take, its own if that is one.
THEOREM TrueType == EdgeSpec => []StoredTypeIsTrue
  <1>1. IndInv => StoredTypeIsTrue
    BY DEF IndInv
  <1> QED  BY <1>1, Invariance, PTL

\* No problem that reaches a student lacks a part, whatever the model wrote.
THEOREM CompleteAnswer == EdgeSpec => []AnswerIsComplete
  <1>1. IndInv => AnswerIsComplete
    BY Completeness DEF IndInv
  <1> QED  BY <1>1, Invariance, PTL

\* The student sees the problem, the steps and the mistakes that were drafted.
THEOREM FaithfulAnswer == EdgeSpec => []ShownAsDrafted
  <1>1. IndInv => ShownAsDrafted
    BY Faithfulness DEF IndInv
  <1> QED  BY <1>1, Invariance, PTL

\* A draft is refused only if it could not have been shown as it is.
THEOREM NeededRefusal == EdgeSpec => []RefusedOnlyIfUnshowable
  <1>1. IndInv => RefusedOnlyIfUnshowable
    BY NoNeedlessRefusal DEF IndInv
  <1> QED  BY <1>1, Invariance, PTL

\* An input that conforms to the schema is refused only where it is empty.
THEOREM SchemaIsEnough == EdgeSpec => []StrictRefusalIsForEmptiness
  <1>1. IndInv => StrictRefusalIsForEmptiness
    BY SchemaAgrees DEF IndInv
  <1> QED  BY <1>1, Invariance, PTL

\* Suggestions are of the topic of the problem, if that is the topic of an English
\* lesson in any case, and else of algebra; they lead to lessons and problems that
\* exist.
THEOREM FittingSuggestions == EdgeSpec => []SuggestionsFit
  <1>1. IndInv => SuggestionsFit
    BY Suggestions DEF IndInv
  <1> QED  BY <1>1, Invariance, PTL

\* A lesson of the catalog is served whole, in the language asked for or English.
THEOREM WholeLesson == EdgeSpec => []LessonServed
  <1>1. EdgeInit => LessonIsAnswer
    BY DEF EdgeInit, LessonIsAnswer
  <1>2. LessonIsAnswer => LessonServed
    <2> SUFFICES ASSUME LessonIsAnswer, lesson # NoLesson,
                        request.fields.lessonId \in DOMAIN Lessons
                 PROVE  LessonServed
        BY DEF LessonServed
    <2> DEFINE id     == request.fields.lessonId
               asked  == request.fields.language
               tongue == IF asked = "es" THEN "es" ELSE "en"
    <2>1. lesson = GetLesson(id, GetEnv(asked, "en"))
      BY DEF LessonIsAnswer
    <2>2. lesson.language = tongue /\ lesson.body = Lessons[id][tongue]
      BY <2>1 DEF GetLesson, GetEnv
    <2>3. Sound(lesson.body)
      BY <2>2, LessonsSound
    <2> QED  BY <2>2, <2>3 DEF LessonServed, Sound
  <1> QED  BY <1>1, <1>2, LessonStep, PTL DEF EdgeSpec
=============================================================================
