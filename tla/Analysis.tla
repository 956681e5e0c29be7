------------------------------ MODULE Analysis ------------------------------
(***************************************************************************)
(* One analysis: what the service behind a provider (external) replies,    *)
(* what the two providers take from that, how internal/analysis validates  *)
(* and converts the draft, and what the handlers of httpapi                *)
(* (SubmitSnapResponse and AnalyzeAssets) make of it together with the     *)
(* catalog.                                                                *)
(*                                                                         *)
(* A text is present or empty; a block is its kind; hints, step numbers    *)
(* and step references are passed on unread and left out.  A field the     *)
(* model leaves out decodes to Go's zero value, which is in the sets       *)
(* below: an empty text, an empty list, a kind or difficulty that is none  *)
(* of those the code knows.                                                *)
(***************************************************************************)
EXTENDS Catalog, Naturals, SequencesExt

CONSTANTS
  Words,        \* what a topic can come to
  Kinds,        \* kinds of block a model can write
  Difficulties, \* difficulties a model can write
  MaxLen        \* bound: statement blocks, solution steps, mistakes

ASSUME MaxLenAssumption == MaxLen \in Nat

VARIABLES
  op,       \* "check_work", "assets" or "other" (any other response id)
  backend,  \* the provider New chose: "anthropic" or "openai"
  input,    \* what the provider hands back: "none" yet, "strict" or "loose"
  draft,    \* what that decoded to
  answer    \* what the client is told

analysisVars == <<op, backend, input, draft, answer>>

Backends == {"anthropic", "openai"}

-----------------------------------------------------------------------------
\* problemDraft, with stepDraft; the content of a step is at most one block.
StepDraft == [label : BOOLEAN, content : SeqOf(Kinds, 1)]

ProblemDraft ==
  [title : BOOLEAN, topic : Topic(Words), difficulty : Difficulties,
   statement : SeqOf(Kinds, MaxLen), solution : SeqOf(StepDraft, MaxLen)]

\* A problem that is left out: the nil pointer.
NoProblem == [nil |-> TRUE]

\* extractOutput and evaluateOutput; a mistakeDraft is whether it says anything.
ExtractOutput == [blank : BOOLEAN, problem : ProblemDraft \cup {NoProblem}]

EvaluateOutput == [problem : ProblemDraft, mistakes : SeqOf(BOOLEAN, MaxLen)]

NoDraft == [problem |-> NoProblem]

Evaluates == op = "check_work"

-----------------------------------------------------------------------------
\* What schema.go asks of the tool's input, beside which fields there are:
\* two enumerations.  A string may be empty, a list too, and beside blank =
\* FALSE the problem may be missing.

\* Broken: a kind of block the schema has and draft.go has not.
SchemaKindsWithDiagram == {"text", "math", "hint", "diagram"}

SchemaKinds == {"text", "math", "hint"}

SchemaDifficulties == {"easy", "medium", "hard"}

ConformsBlocks(blocks) == \A i \in DOMAIN blocks : blocks[i] \in SchemaKinds

ConformsProblem(p) ==
  /\ p.difficulty \in SchemaDifficulties
  /\ ConformsBlocks(p.statement)
  /\ \A i \in DOMAIN p.solution : ConformsBlocks(p.solution[i].content)

Conforms(d) == d.problem # NoProblem => ConformsProblem(d.problem)

-----------------------------------------------------------------------------
\* What a service replies to a structured call: an error instead; whether the
\* model declined; whether the tool is among the calls it made; and whether it
\* was cut off at MaxTokens.
Replies == [error : BOOLEAN, refusal : BOOLEAN, called : BOOLEAN, cut : BOOLEAN]

\* What callStructured returns: "failed", the input of a tool marked Strict,
\* which conforms to the schema unless it was cut off ...
AnthropicCallStructured(images, reply) ==
  IF images = 0 \/ reply.error \/ reply.refusal \/ ~ reply.called THEN "failed"
  ELSE IF reply.cut THEN "loose" ELSE "strict"

\* ... or one that was only asked to.
OpenAICallStructured(images, reply) ==
  IF images = 0 \/ reply.error \/ ~ reply.called THEN "failed" ELSE "loose"

CallStructured(images, reply) ==
  IF backend = "anthropic" THEN AnthropicCallStructured(images, reply)
                           ELSE OpenAICallStructured(images, reply)

\* callText, which succeeds or not; OpenAI's text may be empty.
TextReplies == [error : BOOLEAN, refusal : BOOLEAN, hasText : BOOLEAN]

AnthropicCallText(reply) == ~ reply.error /\ ~ reply.refusal /\ reply.hasText

OpenAICallText(reply) == ~ reply.error /\ reply.hasText

CallText(reply) ==
  IF backend = "anthropic" THEN AnthropicCallText(reply) ELSE OpenAICallText(reply)

-----------------------------------------------------------------------------
\* The Validate methods.
ValidBlock(kind) == kind \in {"text", "math", "hint"}

\* Broken: the blocks inside a step are not looked at.
ValidStepLabel(s) == s.label

ValidStep(s) == s.label /\ \A i \in DOMAIN s.content : ValidBlock(s.content[i])

ValidDifficulty(d) == d \in {"easy", "medium", "hard"}

\* Broken: only the first step of the solution is validated.
ValidProblemFirstStep(p) ==
  /\ p.title
  /\ ValidDifficulty(p.difficulty)
  /\ p.statement # <<>>
  /\ p.solution # <<>>
  /\ \A i \in DOMAIN p.statement : ValidBlock(p.statement[i])
  /\ ValidStep(p.solution[1])

ValidProblem(p) ==
  /\ p.title
  /\ ValidDifficulty(p.difficulty)
  /\ p.statement # <<>>
  /\ p.solution # <<>>
  /\ \A i \in DOMAIN p.statement : ValidBlock(p.statement[i])
  /\ \A i \in DOMAIN p.solution : ValidStep(p.solution[i])

\* Broken: a problem beside blank = true is validated too.
ValidExtractAlways(d) ==
  /\ d.blank \/ d.problem # NoProblem
  /\ d.problem # NoProblem => ValidProblem(d.problem)

ValidExtract(d) ==
  \/ d.blank
  \/ d.problem # NoProblem /\ ValidProblem(d.problem)

ValidEvaluate(d) ==
  ValidProblem(d.problem) /\ \A i \in DOMAIN d.mistakes : d.mistakes[i]

-----------------------------------------------------------------------------
\* The toProto methods: what a client sees of a draft.
BlockToProto(kind) == IF kind \in {"math", "hint"} THEN kind ELSE "text"

BlocksToProto(b) == [i \in DOMAIN b |-> BlockToProto(b[i])]

StepToProto(s) == [s EXCEPT !.content = BlocksToProto(@)]

DifficultyToProto(d) == IF d \in {"easy", "medium", "hard"} THEN d ELSE "unspecified"

ProblemToProto(p) ==
  [p EXCEPT !.difficulty = DifficultyToProto(@),
            !.statement  = BlocksToProto(@),
            !.solution   = [i \in DOMAIN @ |-> StepToProto(@[i])]]

\* A mistake's id is its problem's, "_m" and its place; the problem is the
\* only one of its answer.
MistakesToProto(m) == [i \in DOMAIN m |-> [id |-> i, description |-> m[i]]]

-----------------------------------------------------------------------------
\* Extract and Evaluate, once the draft is valid.
ExtractResult(d) ==
  IF d.blank THEN <<>>
  ELSE <<[problem |-> ProblemToProto(d.problem), mistakes |-> <<>>]>>

EvaluateResult(d) ==
  <<[problem |-> ProblemToProto(d.problem), mistakes |-> MistakesToProto(d.mistakes)]>>

Nothing == [status |-> "pending", problems |-> <<>>, lessons |-> <<>>, similar |-> <<>>]

\* The 502 of either handler.
AnalysisFailed == [Nothing EXCEPT !.status = "failed"]

\* buildDisplayAnalysis: a blank page has no topic and no practice problems.
DisplayAnalysis(found) ==
  LET topic == IF found = <<>> THEN NoTopic ELSE found[1].problem.topic
      group == LessonsAndProblemsForTopic(topic)
  IN [status   |-> "displayed",
      problems |-> found,
      lessons  |-> group.lessons,
      similar  |-> IF found = <<>> THEN <<>> ELSE group.problems]

\* The map look-up of a problem that does not exist gives nil.
ProblemById(id) == IF id \in DOMAIN Problems THEN id ELSE "nil"

\* handleAnalyzeAssets
AssetsResult(found) ==
  IF found = <<>>
  THEN [status   |-> "blank",
        problems |-> <<>>,
        lessons  |-> TopicLessons,
        similar  |-> <<ProblemById("prob_quad_1"), ProblemById("prob_pyth_1")>>]
  ELSE [status   |-> "found",
        problems |-> found,
        lessons  |-> <<>>,
        similar  |-> LessonsAndProblemsForTopic(found[1].problem.topic).problems]

-----------------------------------------------------------------------------
\* Nothing has been asked yet; which op and backend is for the one who asks.
AnalysisInit == input = "none" /\ draft = NoDraft /\ answer = Nothing

\* llmAnalyzer.call: the provider's part of it, ...
CallReturns(images) ==
  /\ answer = Nothing /\ input = "none"
  /\ \E reply \in Replies :
       LET got == CallStructured(images, reply)
       IN IF got = "failed" THEN answer' = AnalysisFailed /\ UNCHANGED input
                            ELSE input' = got /\ UNCHANGED answer
  /\ UNCHANGED <<op, backend, draft>>

\* ... and the decoding, of an input that conforms to the schema ...
DecodeStrict ==
  /\ answer = Nothing /\ input = "strict" /\ draft = NoDraft
  /\ draft' \in IF Evaluates THEN EvaluateOutput ELSE ExtractOutput
  /\ Conforms(draft')
  /\ UNCHANGED <<op, backend, input, answer>>

\* ... or of any other.
DecodeLoose ==
  /\ answer = Nothing /\ input = "loose" /\ draft = NoDraft
  /\ draft' \in IF Evaluates THEN EvaluateOutput ELSE ExtractOutput
  /\ UNCHANGED <<op, backend, input, answer>>

\* It is not JSON (cut off, say), or a field has the wrong type.
DecodeFails ==
  /\ answer = Nothing /\ input = "loose" /\ draft = NoDraft
  /\ answer' = AnalysisFailed
  /\ UNCHANGED <<op, backend, input, draft>>

\* Extract or Evaluate refuses the draft.
Refuse ==
  /\ answer = Nothing /\ draft # NoDraft
  /\ ~ (IF Evaluates THEN ValidEvaluate(draft) ELSE ValidExtract(draft))
  /\ answer' = AnalysisFailed
  /\ UNCHANGED <<op, backend, input, draft>>

\* check_work
ShowEvaluation ==
  /\ answer = Nothing /\ draft # NoDraft
  /\ Evaluates /\ ValidEvaluate(draft)
  /\ answer' = DisplayAnalysis(EvaluateResult(draft))
  /\ UNCHANGED <<op, backend, input, draft>>

\* Any other response, and AnalyzeAssets.
ShowExtract ==
  /\ answer = Nothing /\ draft # NoDraft
  /\ ~ Evaluates /\ ValidExtract(draft)
  /\ answer' = IF op = "assets" THEN AssetsResult(ExtractResult(draft))
                                ELSE DisplayAnalysis(ExtractResult(draft))
  /\ UNCHANGED <<op, backend, input, draft>>

-----------------------------------------------------------------------------
Shown == answer.status \in {"displayed", "blank", "found"}

\* What draft.go calls a correct, complete solution, said of what the client
\* receives: a title, a difficulty, a statement and a solution, no step
\* without its label and no mistake without its description.
Complete(found) ==
  LET p == found.problem
  IN /\ p.title /\ p.difficulty # "unspecified"
     /\ p.statement # <<>> /\ p.solution # <<>>
     /\ \A i \in DOMAIN p.solution : p.solution[i].label
     /\ \A i \in DOMAIN found.mistakes : found.mistakes[i].description

\* Whatever the model answers, a problem that reaches the student is complete
\* (Extract, Evaluate: validation stands before every conversion).
AnswerIsComplete == \A i \in DOMAIN answer.problems : Complete(answer.problems[i])

\* The client sees what the model wrote: the same blocks and steps in the same
\* order and each of its own kind (the default branch of toProto, which makes
\* a text of every kind it does not know, never runs), and each mistake once.
\* A page the model calls blank, and no other, is answered as blank, even with
\* a problem drafted beside it.
SameProblem(found, p) ==
  /\ found.statement = p.statement
  /\ Len(found.solution) = Len(p.solution)
  /\ \A i \in DOMAIN p.solution : found.solution[i].content = p.solution[i].content
  /\ found.difficulty = p.difficulty /\ found.topic = p.topic

ShownAsDrafted ==
  /\ \A i \in DOMAIN answer.problems :
       LET found == answer.problems[i]
       IN /\ SameProblem(found.problem, draft.problem)
          /\ Evaluates =>
               [n \in DOMAIN found.mistakes |-> found.mistakes[n].description] = draft.mistakes
  /\ Shown => ((answer.problems = <<>>) <=> (~ Evaluates /\ draft.blank))

\* A draft that could be shown is not refused: when the analysis fails on a
\* draft, converting it would have changed it or shown something incomplete,
\* or there was no problem and no blank page either.
Showable ==
  IF Evaluates
  THEN LET found == EvaluateResult(draft)[1]
       IN Complete(found) /\ SameProblem(found.problem, draft.problem)
  ELSE \/ draft.blank
       \/ /\ draft.problem # NoProblem
          /\ LET p == ProblemToProto(draft.problem)
             IN Complete([problem |-> p, mistakes |-> <<>>]) /\ SameProblem(p, draft.problem)

RefusedOnlyIfUnshowable ==
  answer.status = "failed" /\ draft # NoDraft => ~ Showable

\* schema.go and draft.go agree on the enumerations both of them list: an input
\* that conforms to the schema is refused only when something in it is empty or
\* the problem is missing, which no schema here rules out.
Filled(p) ==
  /\ p.title /\ p.statement # <<>> /\ p.solution # <<>>
  /\ \A i \in DOMAIN p.solution : p.solution[i].label

StrictRefusalIsForEmptiness ==
  answer.status = "failed" /\ input = "strict" =>
    \/ draft.problem = NoProblem
    \/ ~ Filled(draft.problem)
    \/ Evaluates /\ \E i \in DOMAIN draft.mistakes : ~ draft.mistakes[i]

\* What is suggested beside a problem is of its topic, if that is the topic of an
\* English lesson, in whatever case the model writes it: the words prompts.go
\* asks the model for, as problems.go and the English half of lessons.go have
\* them.  Any other topic gets algebra instead (topics.go:79-82), the topics of
\* the Spanish lessons among them.  No suggestion is a dead end: GetLesson has
\* the lesson (not the stub), the practice problem exists, and every display and
\* every blank page suggests a lesson.
SuggestionsFit ==
  /\ \A i \in DOMAIN answer.problems :
       LET word  == answer.problems[i].problem.topic.word
           known == \E id \in DOMAIN Lessons : Lessons[id].en.topic = word
           topic == IF known THEN word ELSE "algebra"
       IN /\ \A n \in DOMAIN answer.lessons : Lessons[answer.lessons[n]].en.topic = topic
          /\ \A n \in DOMAIN answer.similar : Problems[answer.similar[n]] = topic
  /\ \A n \in DOMAIN answer.lessons : answer.lessons[n] \in DOMAIN Lessons
  /\ \A n \in DOMAIN answer.similar : answer.similar[n] \in DOMAIN Problems
  /\ answer.status \in {"displayed", "blank"} => answer.lessons # <<>>

-----------------------------------------------------------------------------
(***************************************************************************)
(* What makes these inductive.                                             *)
(***************************************************************************)

\* A draft is of the kind that was asked for, and is there only once the
\* provider has handed something back; if that conforms to the schema, so does
\* the draft.
DraftFits ==
  \/ draft = NoDraft
  \/ /\ input \in {"strict", "loose"}
     /\ draft \in IF Evaluates THEN EvaluateOutput ELSE ExtractOutput
     /\ input = "strict" => Conforms(draft)

Valid == IF Evaluates THEN ValidEvaluate(draft) ELSE ValidExtract(draft)

Result ==
  IF Evaluates THEN DisplayAnalysis(EvaluateResult(draft))
  ELSE IF op = "assets" THEN AssetsResult(ExtractResult(draft))
  ELSE DisplayAnalysis(ExtractResult(draft))

\* An answer is a failure, of no draft or of one that is not valid, or the
\* result of a draft that is.
AnswerFits ==
  \/ answer = Nothing
  \/ answer = AnalysisFailed /\ (draft # NoDraft => ~ Valid)
  \/ draft # NoDraft /\ Valid /\ answer = Result
=============================================================================
