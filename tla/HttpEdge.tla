------------------------------ MODULE HttpEdge ------------------------------
(***************************************************************************)
(* One request through internal/httpapi, from the middleware to the status *)
(* line: CORS, recovery and tracing, the routes, decoding and the checks   *)
(* of each handler, the calls it makes below, in order, and what it writes *)
(* when one of them fails; the analysis itself is Analysis.                *)
(*                                                                         *)
(* The stores appear as the calls that reach them and the errors that come *)
(* back (SnapStore, CaptureStore and TutiServer have the rest).  A field   *)
(* of a request is there or empty.  Headers, bodies of errors, attributes  *)
(* of spans other than the status, and log lines are left out.             *)
(***************************************************************************)
EXTENDS Analysis

CONSTANTS
  Sniffed,      \* what http.DetectContentType (external) can say of the bytes
  Extensions,   \* lower-case extensions of file names
  Environments, \* environments of the process: ANALYSIS_BACKEND and DEV_MODE
  MaxAssets     \* bound: assets of one request

ASSUME MaxAssetsAssumption == MaxAssets \in Nat

ASSUME EnvironmentsAssumption ==
  Environments \subseteq [ANALYSIS_BACKEND : STRING, DEV_MODE : STRING]

VARIABLES
  devMode,      \* Server.DevMode
  request,      \* what the client sent
  at,           \* "middleware", "handler" or "done"
  todo,         \* the calls the handler has yet to make
  images,       \* photos loaded for the analysis
  effects,      \* what was done below the handler, in order
  stored,       \* the content type Save was given, or "none"
  lesson,       \* the lesson in the answer, or NoLesson
  written,      \* every status line written, in order; the client sees the first
  recorded,     \* statusRecorder.status
  span          \* the "http.request" span and its status attribute, 0 for none

edgeVars ==
  <<devMode, request, at, todo, images, effects, stored, lesson, written, recorded, span>>

vars == <<edgeVars, analysisVars>>

-----------------------------------------------------------------------------
\* Load (config.go): the environment with its defaults; "" is unset.
GetEnv(v, fallback) == IF v = "" THEN fallback ELSE v

GetEnvBool(v) == v \in {"true", "1"}

Load(env) == [backend |-> GetEnv(env.ANALYSIS_BACKEND, "openai"),
              devMode |-> GetEnvBool(env.DEV_MODE)]

\* analysis.New: the server does not start with another backend.
Started == {config \in {Load(env) : env \in Environments} : config.backend \in Backends}

-----------------------------------------------------------------------------
SupportedTypes == {"image/jpeg", "image/png", "image/gif", "image/webp"}

TypeOfExtension(ext) ==
  CASE ext \in {".jpg", ".jpeg"} -> "image/jpeg"
    [] ext = ".png"              -> "image/png"
    [] ext = ".gif"              -> "image/gif"
    [] ext = ".webp"             -> "image/webp"
    [] OTHER                     -> "none"

\* Broken: the name of the file is asked first.
ExtensionFirst(image) ==
  IF TypeOfExtension(image.ext) # "none" THEN TypeOfExtension(image.ext)
  ELSE IF image.sniffed \in SupportedTypes THEN image.sniffed ELSE "none"

\* "none" for an error.
DetectImageContentType(image) ==
  IF image.sniffed \in SupportedTypes THEN image.sniffed ELSE TypeOfExtension(image.ext)

-----------------------------------------------------------------------------
\* The requests: method, route and, for a body that decodes, its fields.  An
\* empty body decodes to empty fields, except in Prompt.
Images == [data : BOOLEAN, sniffed : Sniffed, ext : Extensions]

Fields(route) ==
  CASE route = "UploadScreenshot"   -> [image : Images]
    [] route = "SubmitSnap"         -> [session : BOOLEAN, image : Images]
    [] route = "SubmitSnapResponse" ->
         [session : BOOLEAN, responseId : {"", "check_work", "solve"}]
    [] route = "AnalyzeAssets"      -> [session : BOOLEAN, assets : 0..MaxAssets]
    [] route = "GetLessonContent"   -> [lessonId : {"", "?"} \cup DOMAIN Lessons,
                                        language : {"", "en", "es", "fr"}]
    [] route = "Prompt"             -> [prompt : BOOLEAN]
    [] OTHER                        -> {[empty |-> TRUE]}

\* handleHealth and handleListCaptures do not read the body.
Reads(route) == route \notin {"healthz", "ListCaptures"}

Routes == {"healthz", "UploadScreenshot", "ListCaptures", "InitializeSnapAndSolve",
           "SubmitSnap", "SubmitSnapResponse", "CreateSession", "AnalyzeAssets",
           "GetLessonContent", "Prompt"}

\* Bodies that are too large, cut off or not the message's JSON.
Unreadable == [unreadable |-> TRUE]

Methods == {"GET", "HEAD", "POST", "OPTIONS", "PUT"}

Requests ==
  {[method |-> m, route |-> rt, fields |-> Unreadable] : m \in Methods, rt \in Routes \cup {"?"}}
  \cup UNION {[method : {"POST"}, route : {rt}, fields : Fields(rt)] : rt \in Routes}

\* The patterns of Routes; a GET pattern takes HEAD too.
Serves(method, route) ==
  IF route = "healthz" THEN method \in {"GET", "HEAD"} ELSE method = "POST"

Registered(route) == route \in Routes /\ (route = "Prompt" => devMode)

\* Each handler: whether it answers the fields of its request with 400 before it
\* calls anything, and the calls it makes, in order, once they are good.
Handler(bad, calls) == [bad |-> bad, calls |-> calls]

BadImage(image) == ~ image.data \/ DetectImageContentType(image) = "none"

UploadScreenshot(f) == Handler(BadImage(f.image), <<"save">>)

ListCaptures == Handler(FALSE, <<"list">>)

InitializeSnapAndSolve == Handler(FALSE, <<"init">>)

SubmitSnap(f) == Handler(~ f.session \/ BadImage(f.image), <<"save", "submit">>)

SubmitSnapResponse(f) ==
  Handler(~ f.session \/ f.responseId = "", <<"respond", "get", "analyse">>)

CreateSession == Handler(FALSE, <<"create">>)

\* Broken: an empty list of assets is not turned down.
AnalyzeAssetsUnchecked(f) ==
  Handler(~ f.session, <<"exists">> \o [i \in 1..f.assets |-> "get"] \o <<"analyse">>)

AnalyzeAssets(f) ==
  Handler(~ f.session,
          <<"exists", "assets">> \o [i \in 1..f.assets |-> "get"] \o <<"analyse">>)

GetLessonContent(f) == Handler(f.lessonId = "", <<>>)

DevPrompt(f) == Handler(~ f.prompt, <<"prompt">>)

Health == Handler(FALSE, <<>>)

HandlerOf(route, f) ==
  CASE route = "healthz"                -> Health
    [] route = "UploadScreenshot"       -> UploadScreenshot(f)
    [] route = "ListCaptures"           -> ListCaptures
    [] route = "InitializeSnapAndSolve" -> InitializeSnapAndSolve
    [] route = "SubmitSnap"             -> SubmitSnap(f)
    [] route = "SubmitSnapResponse"     -> SubmitSnapResponse(f)
    [] route = "CreateSession"          -> CreateSession
    [] route = "AnalyzeAssets"          -> AnalyzeAssets(f)
    [] route = "GetLessonContent"       -> GetLessonContent(f)
    [] route = "Prompt"                 -> DevPrompt(f)

Calls == HandlerOf(request.route, request.fields).calls

\* What is refused with 400: what readProto cannot decode, and of the rest what
\* the handler's own checks turn down.
BadRequest ==
  /\ Reads(request.route)
  /\ request.fields # Unreadable => HandlerOf(request.route, request.fields).bad

\* The statuses its failure can bring.
FailureOf(call) ==
  CASE call \in {"save", "list", "init", "create"} -> {500}
    [] call \in {"submit", "respond"}              -> {404, 409, 500}
    [] call = "exists"                             -> {404}
    [] call = "get"                                ->
         IF request.route = "AnalyzeAssets" THEN {404, 500} ELSE {500}
    [] OTHER                                       -> {}

Success == IF request.route = "UploadScreenshot" THEN 201 ELSE 200

NoLesson == [language |-> "none"]

-----------------------------------------------------------------------------
\* The server has started, and a request arrives.
EdgeInit ==
  /\ \E config \in Started : backend = config.backend /\ devMode = config.devMode
  /\ request \in Requests
  /\ at = "middleware" /\ todo = <<>> /\ images = 0 /\ effects = <<>>
  /\ stored = "none" /\ lesson = NoLesson
  /\ written = <<>> /\ recorded = 200
  /\ span = [state |-> "none", status |-> 0]
  /\ op = CASE request.route = "AnalyzeAssets" -> "assets"
             [] request.route = "SubmitSnapResponse" /\ request.fields # Unreadable
                  /\ request.fields.responseId = "check_work" -> "check_work"
             [] OTHER -> "other"
  /\ AnalysisInit

\* A handler, or the mux, writes its answer through the statusRecorder and
\* returns; withTracing enters what was recorded into its span and ends it.
Answer(status) ==
  /\ written' = Append(written, status)
  /\ recorded' = status
  /\ span' = [state |-> "ended", status |-> status]
  /\ at' = "done"

\* Without a call of WriteHeader the first Write sends 200, past the recorder.
ImplicitOK ==
  /\ written' = Append(written, 200)
  /\ span' = [state |-> "ended", status |-> recorded]
  /\ at' = "done" /\ UNCHANGED recorded

\* withCORS answers every OPTIONS itself.
Preflight ==
  /\ at = "middleware" /\ request.method = "OPTIONS"
  /\ written' = Append(written, 204)
  /\ at' = "done"
  /\ UNCHANGED <<devMode, request, todo, images, effects, stored, lesson, recorded, span,
                 analysisVars>>

Enters == at = "middleware" /\ request.method # "OPTIONS"

\* http.ServeMux (external): no such path, or not with this method.
NoRoute ==
  /\ Enters
  /\ \/ ~ Registered(request.route) /\ Answer(404)
     \/ Registered(request.route) /\ ~ Serves(request.method, request.route) /\ Answer(405)
  /\ UNCHANGED <<devMode, request, todo, images, effects, stored, lesson, analysisVars>>

Routed ==
  Enters /\ Registered(request.route) /\ Serves(request.method, request.route)

\* Broken: no return after the 400 of a handler's own check.
BadRequestGoesOn ==
  /\ Routed /\ BadRequest /\ request.fields # Unreadable
  /\ written' = Append(written, 400) /\ recorded' = 400
  /\ at' = "handler" /\ todo' = Calls
  /\ UNCHANGED <<devMode, request, images, effects, stored, lesson, span, analysisVars>>

RefuseRequest ==
  /\ Routed /\ BadRequest
  /\ Answer(400)
  /\ UNCHANGED <<devMode, request, todo, images, effects, stored, lesson, analysisVars>>

\* The span is open from here on, as it is behind every Answer.
Accept ==
  /\ Routed /\ ~ BadRequest
  /\ at' = "handler" /\ todo' = Calls
  /\ span' = [state |-> "open", status |-> 0]
  /\ UNCHANGED <<devMode, request, images, effects, stored, lesson, written, recorded,
                 analysisVars>>

-----------------------------------------------------------------------------
Pending == at = "handler" /\ todo # <<>>

\* A call of a store succeeds.
CallSucceeds ==
  /\ Pending /\ FailureOf(Head(todo)) # {}
  /\ todo' = Tail(todo)
  /\ effects' = Append(effects, Head(todo))
  /\ images' = IF Head(todo) = "get" THEN images + 1 ELSE images
  /\ stored' = IF Head(todo) = "save" THEN DetectImageContentType(request.fields.image)
                                     ELSE stored
  /\ UNCHANGED <<devMode, request, at, lesson, written, recorded, span, analysisVars>>

\* Broken: the error of a call is dropped.
CallErrorDropped ==
  /\ Pending /\ FailureOf(Head(todo)) # {}
  /\ todo' = Tail(todo)
  /\ UNCHANGED <<devMode, request, at, images, effects, stored, lesson, written, recorded, span,
                 analysisVars>>

CallFails ==
  /\ Pending
  /\ \E status \in FailureOf(Head(todo)) : Answer(status)
  /\ UNCHANGED <<devMode, request, todo, images, effects, stored, lesson, analysisVars>>

\* AnalyzeAssets looks at its list after it has looked for the session.
CheckAssets ==
  /\ Pending /\ Head(todo) = "assets"
  /\ IF request.fields.assets = 0
     THEN Answer(400) /\ UNCHANGED todo
     ELSE todo' = Tail(todo) /\ UNCHANGED <<at, written, recorded, span>>
  /\ UNCHANGED <<devMode, request, images, effects, stored, lesson, analysisVars>>

AskModel ==
  /\ Pending /\ Head(todo) = "analyse" /\ input = "none"
  /\ CallReturns(images)
  /\ effects' = Append(effects, "analyse")
  /\ IF answer' = Nothing THEN UNCHANGED <<at, written, recorded, span>> ELSE Answer(502)
  /\ UNCHANGED <<devMode, request, todo, images, stored, lesson>>

Decode ==
  /\ Pending /\ Head(todo) = "analyse"
  /\ DecodeStrict \/ DecodeLoose
  /\ UNCHANGED edgeVars

\* The analysis ends, and the handler writes what it made of it.
Conclude ==
  /\ Pending /\ Head(todo) = "analyse"
  /\ DecodeFails \/ Refuse \/ ShowEvaluation \/ ShowExtract
  /\ Answer(IF answer'.status = "failed" THEN 502 ELSE 200)
  /\ UNCHANGED <<devMode, request, todo, images, effects, stored, lesson>>

\* RawPrompt, and the answer of handleDevPrompt.
AskPrompt ==
  /\ Pending /\ Head(todo) = "prompt"
  /\ effects' = Append(effects, "prompt")
  /\ \E reply \in TextReplies : IF CallText(reply) THEN ImplicitOK ELSE Answer(502)
  /\ UNCHANGED <<devMode, request, todo, images, stored, lesson, analysisVars>>

\* Every call has been made: 200, or 201 for an upload.
Succeed ==
  /\ at = "handler" /\ todo = <<>>
  /\ IF request.route = "healthz" THEN ImplicitOK ELSE Answer(Success)
  /\ lesson' = IF request.route = "GetLessonContent"
               THEN GetLesson(request.fields.lessonId, GetEnv(request.fields.language, "en"))
               ELSE lesson
  /\ UNCHANGED <<devMode, request, todo, images, effects, stored, analysisVars>>

\* Whatever panics below: the span ends without a status, and withRecover
\* writes 500 to the ResponseWriter the recorder wraps.
Panic ==
  /\ at = "handler"
  /\ written' = Append(written, 500)
  /\ span' = [state |-> "ended", status |-> 0]
  /\ at' = "done"
  /\ UNCHANGED <<devMode, request, todo, images, effects, stored, lesson, recorded,
                 analysisVars>>

EdgeNext ==
  \/ Preflight \/ NoRoute \/ RefuseRequest \/ Accept
  \/ CallSucceeds \/ CallFails \/ CheckAssets
  \/ AskModel \/ Decode \/ Conclude \/ AskPrompt
  \/ Succeed \/ Panic

EdgeSpec == EdgeInit /\ [][EdgeNext]_vars

-----------------------------------------------------------------------------
\* A request is answered with one status line, and its trace has that status:
\* with or without a call of WriteHeader, from a handler or from the mux.  A
\* preflight is not traced, and a panic is answered 500 with no status traced.
TraceTellsAnswer ==
  /\ written # <<>> <=> at = "done"
  /\ at = "done" =>
       /\ Len(written) = 1
       /\ span.state = "none" => written[1] = 204
       /\ span.state # "none" =>
            written[1] = IF span.status = 0 THEN 500 ELSE span.status

\* What each handler changes, or asks of the model.
Promised ==
  [UploadScreenshot |-> {"save"}, InitializeSnapAndSolve |-> {"init"},
   SubmitSnap |-> {"save", "submit"}, SubmitSnapResponse |-> {"respond", "analyse"},
   CreateSession |-> {"create"}, AnalyzeAssets |-> {"analyse"}, Prompt |-> {"prompt"}]

Reading == {"list", "exists", "get"}

\* The status tells the client what has happened: success, that everything its
\* call is for was done; 400 and 405, nothing at all; 404 and 409, nothing but
\* that the photo of a SubmitSnap was stored; 502, that the model was asked,
\* and never without a photo.
StatusTellsEffect ==
  at = "done" =>
    LET status  == written[1]
        changed == ToSet(effects) \ Reading
    IN /\ status \in {200, 201} /\ request.route \in DOMAIN Promised =>
            changed = Promised[request.route]
       /\ status \in {200, 201} /\ request.route \notin DOMAIN Promised => changed = {}
       /\ status \in {204, 400, 405} => changed = {}
       /\ status \in {404, 409} => changed \subseteq {"save"}
       /\ status = 502 => changed \cap {"analyse", "prompt"} # {}
       /\ "analyse" \in changed => images > 0

\* A photo is stored under a type the providers take, which is that of its
\* bytes whenever that is one of them, whatever the file is called.
StoredTypeIsTrue ==
  stored # "none" =>
    /\ stored \in SupportedTypes
    /\ request.fields.image.sniffed \in SupportedTypes =>
         stored = request.fields.image.sniffed

\* The steps of a list of blocks count up from 1: each is there once, and after
\* the one before it.
StepNumbers == <<"1", "2", "3">>

InOrder(blocks) ==
  \A n \in 1..3, i \in DOMAIN blocks : blocks[i] = StepNumbers[n] =>
    /\ \A j \in DOMAIN blocks : blocks[j] = StepNumbers[n] => j = i
    /\ n > 1 => \E j \in 1..(i - 1) : blocks[j] = StepNumbers[n - 1]

\* A lesson the catalog has is served, never the stub, in Spanish or English
\* as asked and in English for any other language; it has a context, sections
\* and a worked example, and the steps of each count up from 1.
LessonServed ==
  lesson # NoLesson /\ request.fields.lessonId \in DOMAIN Lessons =>
    /\ lesson.language = IF request.fields.language = "es" THEN "es" ELSE "en"
    /\ lesson.body.context > 0 /\ lesson.body.sections # <<>>
    /\ \A i \in DOMAIN lesson.body.sections : InOrder(lesson.body.sections[i])
    /\ "1" \in ToSet(lesson.body.worked) /\ InOrder(lesson.body.worked)

-----------------------------------------------------------------------------
(***************************************************************************)
(* What makes these inductive.                                             *)
(***************************************************************************)

CallNames == {"save", "list", "init", "submit", "respond", "get", "analyse",
              "create", "exists", "assets", "prompt"}

EdgeTypeOK ==
  /\ request \in Requests
  /\ at \in {"middleware", "handler", "done"}
  /\ todo \in Seq(CallNames) /\ effects \in Seq(CallNames)
  /\ images \in Nat

\* How many of its calls the handler is through with.
Made == Len(Calls) - Len(todo)

\* A handler makes its calls in their order, each of them once; what it has done
\* is what these calls do, and the analysis is asked for by the last of them.
CallsInOrder ==
  at = "handler" =>
    /\ ~ BadRequest /\ Registered(request.route)
    /\ Made \in 0..Len(Calls)
    /\ \A i \in 1..Len(todo) : todo[i] = Calls[Made + i]
    /\ ToSet(effects) = ({Calls[i] : i \in 1..Made} \ {"assets"})
                        \cup (IF input = "none" THEN {} ELSE {"analyse"})
    /\ input # "none" => Head(todo) = "analyse" /\ todo # <<>>

\* A handler that goes past its list of assets has found one, and each photo that
\* was loaded counts.
PhotosCount ==
  at = "handler" =>
    /\ request.route = "AnalyzeAssets" /\ Made >= 2 => request.fields.assets # 0
    /\ "get" \in ToSet(effects) => images > 0

\* Nothing is done before the request is accepted, and nothing is written before
\* the end.
NothingYet ==
  /\ at = "middleware" =>
       /\ todo = <<>> /\ effects = <<>> /\ images = 0 /\ input = "none"
       /\ span = [state |-> "none", status |-> 0]
  /\ at = "handler" => span.state = "open"
  /\ at # "done" => recorded = 200

IndInv ==
  /\ EdgeTypeOK
  /\ DraftFits /\ AnswerFits
  /\ CallsInOrder /\ PhotosCount /\ NothingYet
  /\ TraceTellsAnswer /\ StatusTellsEffect /\ StoredTypeIsTrue
=============================================================================
