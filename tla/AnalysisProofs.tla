--------------------------- MODULE AnalysisProofs ---------------------------
(***************************************************************************)
(* One analysis, for any topics, kinds of block and difficulties a model   *)
(* may come up with: what each step of it preserves, and what that says of *)
(* the answer.  HttpEdgeProofs puts these to use for a whole request.      *)
(***************************************************************************)
EXTENDS Analysis, SequenceTheorems, TLAPS

\* What a bounded sequence is, as far as the proofs need it.
LEMMA SeqOfFacts ==
  ASSUME NEW S, NEW n \in Nat, NEW s \in SeqOf(S, n)
  PROVE  /\ s \in Seq(S) /\ Len(s) \in Nat /\ DOMAIN s = 1..Len(s)
         /\ \A i \in DOMAIN s : s[i] \in S
         /\ s = [i \in DOMAIN s |-> s[i]]
         /\ s = <<>> <=> DOMAIN s = {}
  <1>1. PICK m \in 0..n : s \in [1..m -> S]
    BY DEF SeqOf
  <1>2. m \in Nat
    BY <1>1
  <1>3. s \in Seq(S)
    BY <1>1, <1>2
  <1>4. Len(s) \in Nat /\ DOMAIN s = 1..Len(s) /\ s \in [1..Len(s) -> S]
    BY <1>3, LenProperties
  <1>5. s = <<>> <=> DOMAIN s = {}
    <2>1. s = <<>> <=> Len(s) = 0
      BY <1>3, EmptySeq
    <2>2. Len(s) = 0 <=> DOMAIN s = {}
      BY <1>4
    <2> QED  BY <2>1, <2>2
  <1> QED  BY <1>3, <1>4, <1>5

\* What a drafted problem is made of.
LEMMA ProblemDraftFacts ==
  ASSUME NEW p \in ProblemDraft
  PROVE  /\ p.title \in BOOLEAN
         /\ p.statement = [i \in DOMAIN p.statement |-> p.statement[i]]
         /\ \A i \in DOMAIN p.solution :
              /\ p.solution[i] = [label |-> p.solution[i].label,
                                  content |-> p.solution[i].content]
              /\ p.solution[i].label \in BOOLEAN
              /\ p.solution[i].content =
                   [k \in DOMAIN p.solution[i].content |-> p.solution[i].content[k]]
         /\ p.solution \in Seq(StepDraft)
         /\ p.solution = [i \in DOMAIN p.solution |-> p.solution[i]]
  <1>1. p \in [title : BOOLEAN, topic : Topic(Words), difficulty : Difficulties,
               statement : SeqOf(Kinds, MaxLen), solution : SeqOf(StepDraft, MaxLen)]
    BY DEF ProblemDraft
  <1>2. /\ p.statement = [i \in DOMAIN p.statement |-> p.statement[i]]
        /\ p.solution \in Seq(StepDraft)
        /\ p.solution = [i \in DOMAIN p.solution |-> p.solution[i]]
        /\ \A i \in DOMAIN p.solution : p.solution[i] \in StepDraft
    BY <1>1, SeqOfFacts, MaxLenAssumption
  <1>3. \A s \in StepDraft :
          /\ s = [label |-> s.label, content |-> s.content]
          /\ s.label \in BOOLEAN /\ s.content = [k \in DOMAIN s.content |-> s.content[k]]
    <2> SUFFICES ASSUME NEW s \in StepDraft
                 PROVE  /\ s = [label |-> s.label, content |-> s.content]
                        /\ s.label \in BOOLEAN
                        /\ s.content = [k \in DOMAIN s.content |-> s.content[k]]
        OBVIOUS
    <2>1. s \in [label : BOOLEAN, content : SeqOf(Kinds, 1)]
      BY DEF StepDraft
    <2>2. s.content = [k \in DOMAIN s.content |-> s.content[k]]
      BY <2>1, SeqOfFacts
    <2> QED  BY <2>1, <2>2
  <1> QED  BY <1>1, <1>2, <1>3

-----------------------------------------------------------------------------
\* The conversion to protobuf, field by field.
LEMMA ProblemToProtoFacts ==
  ASSUME NEW p \in ProblemDraft
  PROVE  LET q == ProblemToProto(p)
         IN /\ q.title = p.title /\ q.topic = p.topic
            /\ q.difficulty = DifficultyToProto(p.difficulty)
            /\ q.statement = BlocksToProto(p.statement)
            /\ DOMAIN q.solution = DOMAIN p.solution /\ Len(q.solution) = Len(p.solution)
            /\ q.solution = <<>> <=> p.solution = <<>>
            /\ \A i \in DOMAIN p.solution :
                 /\ q.solution[i].label = p.solution[i].label
                 /\ q.solution[i].content = BlocksToProto(p.solution[i].content)
  <1> DEFINE q == ProblemToProto(p)
             r == [i \in DOMAIN p.solution |-> StepToProto(p.solution[i])]
  <1>1. p \in [title : BOOLEAN, topic : Topic(Words), difficulty : Difficulties,
               statement : SeqOf(Kinds, MaxLen), solution : SeqOf(StepDraft, MaxLen)]
    BY DEF ProblemDraft
  <1>2. /\ q.title = p.title /\ q.topic = p.topic
        /\ q.difficulty = DifficultyToProto(p.difficulty)
        /\ q.statement = BlocksToProto(p.statement)
        /\ q.solution = r
    BY <1>1 DEF ProblemToProto
  <1>3. \A i \in DOMAIN p.solution :
          /\ r[i].label = p.solution[i].label
          /\ r[i].content = BlocksToProto(p.solution[i].content)
    BY ProblemDraftFacts DEF StepToProto
  <1>4. /\ DOMAIN r = DOMAIN p.solution /\ Len(r) = Len(p.solution)
        /\ r = <<>> <=> p.solution = <<>>
    <2>1. /\ DOMAIN p.solution = 1..Len(p.solution) /\ Len(p.solution) \in Nat
          /\ p.solution = <<>> <=> DOMAIN p.solution = {}
      <3>1. p.solution \in SeqOf(StepDraft, MaxLen) /\ MaxLen \in Nat
        BY <1>1, MaxLenAssumption
      <3> QED  BY <3>1, SeqOfFacts
    <2>2. DOMAIN r = 1..Len(p.solution)
      BY <2>1
    <2> DEFINE T == {StepToProto(p.solution[i]) : i \in DOMAIN p.solution}
    <2>3. r \in [1..Len(p.solution) -> T]
      BY <2>1
    <2>4. r \in Seq(T) /\ Len(r) = Len(p.solution)
      <3>1. r \in Seq(T)
        BY <2>1, <2>3
      <3> QED  BY <3>1, <2>1, <2>2, LenProperties
    <2>5. r = <<>> <=> Len(r) = 0
      BY <2>4, EmptySeq
    <2> QED  BY <2>1, <2>2, <2>4, <2>5
  <1> HIDE DEF q, r
  <1>5. /\ DOMAIN q.solution = DOMAIN p.solution /\ Len(q.solution) = Len(p.solution)
        /\ q.solution = <<>> <=> p.solution = <<>>
        /\ \A i \in DOMAIN p.solution :
             /\ q.solution[i].label = p.solution[i].label
             /\ q.solution[i].content = BlocksToProto(p.solution[i].content)
    BY <1>2, <1>3, <1>4
  <1> QED  BY <1>2, <1>5 DEF q

\* Only blocks of a kind the code knows come through as they are.
LEMMA BlocksKept ==
  ASSUME NEW b, b = [i \in DOMAIN b |-> b[i]]
  PROVE  BlocksToProto(b) = b <=> \A i \in DOMAIN b : ValidBlock(b[i])
  <1>1. ASSUME \A i \in DOMAIN b : ValidBlock(b[i])
        PROVE  BlocksToProto(b) = b
    <2>1. \A i \in DOMAIN b : BlockToProto(b[i]) = b[i]
      BY <1>1 DEF ValidBlock, BlockToProto
    <2>2. BlocksToProto(b) = [i \in DOMAIN b |-> b[i]]
      BY <2>1 DEF BlocksToProto
    <2> QED  BY <2>2
  <1>2. ASSUME BlocksToProto(b) = b, NEW i \in DOMAIN b
        PROVE  ValidBlock(b[i])
    <2>1. b[i] = BlockToProto(b[i])
      BY <1>2 DEF BlocksToProto
    <2> QED  BY <2>1 DEF ValidBlock, BlockToProto
  <1> QED  BY <1>1, <1>2

\* A problem is valid exactly if the client would see it complete and as it was
\* drafted: validation and conversion agree on what can be shown.
THEOREM ValidIsShowable ==
  ASSUME NEW p \in ProblemDraft, NEW m,
         \A i \in DOMAIN m : m[i].description
  PROVE  ValidProblem(p) <=> /\ Complete([problem |-> ProblemToProto(p), mistakes |-> m])
                             /\ SameProblem(ProblemToProto(p), p)
  <1> DEFINE q == ProblemToProto(p)
  <1>1. /\ q.title = p.title /\ q.topic = p.topic
        /\ q.difficulty = DifficultyToProto(p.difficulty)
        /\ q.statement = BlocksToProto(p.statement)
        /\ DOMAIN q.solution = DOMAIN p.solution /\ Len(q.solution) = Len(p.solution)
        /\ q.solution = <<>> <=> p.solution = <<>>
        /\ \A i \in DOMAIN p.solution :
             /\ q.solution[i].label = p.solution[i].label
             /\ q.solution[i].content = BlocksToProto(p.solution[i].content)
    BY ProblemToProtoFacts
  <1> HIDE DEF q
  <1>2. ValidDifficulty(p.difficulty) <=>
          q.difficulty # "unspecified" /\ q.difficulty = p.difficulty
    BY <1>1 DEF ValidDifficulty, DifficultyToProto
  <1>3. q.statement = p.statement <=> \A i \in DOMAIN p.statement : ValidBlock(p.statement[i])
    BY <1>1, ProblemDraftFacts, BlocksKept
  <1>4. ASSUME NEW i \in DOMAIN p.solution
        PROVE  ValidStep(p.solution[i]) <=>
                 q.solution[i].label /\ q.solution[i].content = p.solution[i].content
    <2> DEFINE s == p.solution[i]
    <2>1. s.content = [k \in DOMAIN s.content |-> s.content[k]]
      BY ProblemDraftFacts
    <2>2. q.solution[i].label = s.label /\ q.solution[i].content = BlocksToProto(s.content)
      BY <1>1
    <2> HIDE DEF s
    <2>3. BlocksToProto(s.content) = s.content <=> \A k \in DOMAIN s.content : ValidBlock(s.content[k])
      BY <2>1, BlocksKept
    <2>4. ValidStep(s) <=> q.solution[i].label /\ q.solution[i].content = s.content
      BY <2>2, <2>3 DEF ValidStep
    <2> QED  BY <2>4 DEF s
  <1>5. Complete([problem |-> q, mistakes |-> m]) <=>
          /\ q.title /\ q.difficulty # "unspecified"
          /\ q.statement # <<>> /\ q.solution # <<>>
          /\ \A i \in DOMAIN q.solution : q.solution[i].label
    BY DEF Complete
  <1>6. SameProblem(q, p) <=>
          /\ q.statement = p.statement
          /\ \A i \in DOMAIN p.solution : q.solution[i].content = p.solution[i].content
          /\ q.difficulty = p.difficulty
    BY <1>1 DEF SameProblem
  <1>7. ValidProblem(p) <=>
          /\ p.title /\ ValidDifficulty(p.difficulty)
          /\ p.statement # <<>> /\ p.solution # <<>>
          /\ \A i \in DOMAIN p.statement : ValidBlock(p.statement[i])
          /\ \A i \in DOMAIN p.solution : ValidStep(p.solution[i])
    BY DEF ValidProblem
  <1>8. ValidProblem(p) <=> /\ Complete([problem |-> q, mistakes |-> m])
                            /\ SameProblem(q, p)
    BY <1>1, <1>2, <1>3, <1>4, <1>5, <1>6, <1>7
  <1> QED  BY <1>8 DEF q

-----------------------------------------------------------------------------
\* A draft that is there has what was asked for.
LEMMA DraftFacts ==
  ASSUME DraftFits, draft # NoDraft
  PROVE  /\ input \in {"strict", "loose"} /\ (input = "strict" => Conforms(draft))
         /\ Evaluates => /\ draft.problem \in ProblemDraft
                         /\ draft.mistakes \in SeqOf(BOOLEAN, MaxLen)
         /\ ~ Evaluates => /\ draft.problem \in ProblemDraft \cup {NoProblem}
                           /\ draft.blank \in BOOLEAN
  BY DEF DraftFits, EvaluateOutput, ExtractOutput

\* The mistakes of an answer say what the drafted ones do.
LEMMA MistakesFacts ==
  ASSUME NEW m \in SeqOf(BOOLEAN, MaxLen)
  PROVE  LET found == MistakesToProto(m)
         IN /\ DOMAIN found = DOMAIN m
            /\ \A i \in DOMAIN m : found[i].description = m[i]
            /\ [n \in DOMAIN found |-> found[n].description] = m
  <1>1. m = [i \in DOMAIN m |-> m[i]]
    BY SeqOfFacts, MaxLenAssumption
  <1> QED  BY <1>1 DEF MistakesToProto

\* The problems of a result: none for a blank page, else the one drafted.
LEMMA ResultProblems ==
  /\ Result.status \in {"displayed", "blank", "found"}
  /\ Evaluates => Result.problems = EvaluateResult(draft)
  /\ ~ Evaluates => Result.problems = ExtractResult(draft)
  BY DEF Result, DisplayAnalysis, AssetsResult

\* What is said of a draft before it is shown is what Extract and Evaluate
\* check.
LEMMA ValidDraft ==
  ASSUME DraftFits, draft # NoDraft
  PROVE  Valid <=> IF Evaluates
                   THEN ValidProblem(draft.problem)
                        /\ \A i \in DOMAIN draft.mistakes : draft.mistakes[i]
                   ELSE draft.blank \/ (draft.problem # NoProblem /\ ValidProblem(draft.problem))
  BY DEF Valid, ValidEvaluate, ValidExtract

\* An analysis begins with no draft and no answer.
LEMMA AnalysisStarts == AnalysisInit => DraftFits /\ AnswerFits
  BY DEF AnalysisInit, DraftFits, AnswerFits

\* Every step of an analysis keeps draft and answer in line; it never asks for a
\* second answer, and ends on a failure or on the result of a valid draft.
LEMMA AnalysisStep ==
  ASSUME DraftFits, AnswerFits,
         \/ \E images : CallReturns(images)
         \/ DecodeStrict \/ DecodeLoose \/ DecodeFails
         \/ Refuse \/ ShowEvaluation \/ ShowExtract
         \/ UNCHANGED analysisVars
  PROVE  DraftFits' /\ AnswerFits'
  <1>1. CASE \E images : CallReturns(images)
    <2>1. PICK images : CallReturns(images)
      BY <1>1
    <2>2. draft = NoDraft /\ UNCHANGED <<op, backend, draft>>
      BY <2>1 DEF CallReturns, DraftFits
    <2>3. answer' = AnalysisFailed \/ answer' = Nothing
      BY <2>1 DEF CallReturns
    <2> QED  BY <2>2, <2>3 DEF DraftFits, AnswerFits
  <1>2. CASE DecodeStrict \/ DecodeLoose
    <2>1. /\ answer' = Nothing /\ op' = op /\ input' = input
          /\ input \in {"strict", "loose"}
          /\ draft' \in (IF Evaluates THEN EvaluateOutput ELSE ExtractOutput)
          /\ input = "strict" => Conforms(draft')
      BY <1>2 DEF DecodeStrict, DecodeLoose
    <2> QED  BY <2>1 DEF DraftFits, AnswerFits, Evaluates, Conforms
  <1>3. CASE DecodeFails
    BY <1>3 DEF DecodeFails, DraftFits, AnswerFits
  <1>4. CASE Refuse
    <2>1. /\ answer' = AnalysisFailed /\ draft # NoDraft /\ ~ Valid
          /\ UNCHANGED <<op, backend, input, draft>>
      BY <1>4 DEF Refuse, Valid
    <2>2. DraftFits' /\ Valid' = Valid
      BY <2>1 DEF DraftFits, Evaluates, Valid
    <2> QED  BY <2>1, <2>2 DEF AnswerFits
  <1>5. CASE ShowEvaluation \/ ShowExtract
    <2>1. /\ answer' = Result /\ draft # NoDraft /\ Valid
          /\ UNCHANGED <<op, backend, input, draft>>
      BY <1>5 DEF ShowEvaluation, ShowExtract, Result, Valid
    <2>2. DraftFits' /\ Valid' = Valid /\ Result' = Result
      BY <2>1 DEF DraftFits, Evaluates, Valid, Result
    <2> QED  BY <2>1, <2>2 DEF AnswerFits
  <1>6. CASE UNCHANGED analysisVars
    <2>1. UNCHANGED <<op, backend, input, draft, answer>>
      BY <1>6 DEF analysisVars
    <2>2. DraftFits' /\ Valid' = Valid /\ Result' = Result
      BY <2>1 DEF DraftFits, Evaluates, Valid, Result
    <2> QED  BY <2>1, <2>2 DEF AnswerFits
  <1> QED  BY <1>1, <1>2, <1>3, <1>4, <1>5, <1>6

-----------------------------------------------------------------------------
(***************************************************************************)
(* What that says of the answer.                                           *)
(***************************************************************************)

\* An answer that shows a problem shows the one drafted, which was valid.
LEMMA ShownProblem ==
  ASSUME DraftFits, AnswerFits, NEW i \in DOMAIN answer.problems
  PROVE  /\ draft # NoDraft /\ Valid /\ draft.problem \in ProblemDraft
         /\ answer.problems[i].problem = ProblemToProto(draft.problem)
         /\ ValidProblem(draft.problem)
         /\ answer.problems[i].mistakes =
              IF Evaluates THEN MistakesToProto(draft.mistakes) ELSE <<>>
         /\ answer.problems[i] = [problem  |-> answer.problems[i].problem,
                                  mistakes |-> answer.problems[i].mistakes]
  <1>1. Nothing.problems = <<>> /\ AnalysisFailed.problems = <<>>
    BY DEF Nothing, AnalysisFailed
  <1>2. draft # NoDraft /\ Valid /\ answer = Result
    BY <1>1 DEF AnswerFits
  <1>3. CASE Evaluates
    <2>1. answer.problems = <<[problem  |-> ProblemToProto(draft.problem),
                               mistakes |-> MistakesToProto(draft.mistakes)]>>
      BY <1>2, <1>3, ResultProblems DEF EvaluateResult
    <2>2. i = 1
      BY <2>1
    <2>3. draft.problem \in ProblemDraft /\ ValidProblem(draft.problem)
      BY <1>2, <1>3, DraftFacts, ValidDraft
    <2> QED  BY <1>2, <1>3, <2>1, <2>2, <2>3
  <1>4. CASE ~ Evaluates
    <2>1. answer.problems = ExtractResult(draft)
      BY <1>2, <1>4, ResultProblems
    <2>2. ~ draft.blank
      BY <2>1 DEF ExtractResult
    <2>3. answer.problems = <<[problem |-> ProblemToProto(draft.problem), mistakes |-> <<>>]>>
      BY <2>1, <2>2 DEF ExtractResult
    <2>4. i = 1
      BY <2>3
    <2>5. draft.problem \in ProblemDraft /\ ValidProblem(draft.problem)
      BY <1>2, <1>4, <2>2, DraftFacts, ValidDraft
    <2> QED  BY <1>2, <1>4, <2>3, <2>4, <2>5
  <1> QED  BY <1>3, <1>4

\* A valid evaluation shows every mistake, each with a description.
LEMMA NoMistakeUntold ==
  ASSUME DraftFits, draft # NoDraft, Valid, Evaluates
  PROVE  LET found == MistakesToProto(draft.mistakes)
         IN /\ \A n \in DOMAIN found : found[n].description
            /\ [n \in DOMAIN found |-> found[n].description] = draft.mistakes
  <1>1. /\ draft.mistakes \in SeqOf(BOOLEAN, MaxLen)
        /\ \A n \in DOMAIN draft.mistakes : draft.mistakes[n]
    BY DraftFacts, ValidDraft
  <1> QED  BY <1>1, MistakesFacts

\* What the client is shown has no gap a screen would fall into.
LEMMA Completeness ==
  ASSUME DraftFits, AnswerFits
  PROVE  AnswerIsComplete
  <1> SUFFICES ASSUME NEW i \in DOMAIN answer.problems
               PROVE  Complete(answer.problems[i])
      BY DEF AnswerIsComplete
  <1> DEFINE found == answer.problems[i]
  <1>1. /\ draft # NoDraft /\ Valid /\ draft.problem \in ProblemDraft
        /\ ValidProblem(draft.problem)
        /\ found.problem = ProblemToProto(draft.problem)
        /\ found.mistakes = (IF Evaluates THEN MistakesToProto(draft.mistakes) ELSE <<>>)
        /\ found = [problem |-> found.problem, mistakes |-> found.mistakes]
    BY ShownProblem
  <1> HIDE DEF found
  <1>2. \A n \in DOMAIN found.mistakes : found.mistakes[n].description
    BY <1>1, NoMistakeUntold
  <1>3. Complete([problem |-> ProblemToProto(draft.problem), mistakes |-> found.mistakes])
    BY <1>1, <1>2, ValidIsShowable
  <1>4. Complete(found)
    BY <1>1, <1>3
  <1> QED  BY <1>4 DEF found

\* What the client is shown is what the model drafted, in its order.
LEMMA Faithfulness ==
  ASSUME DraftFits, AnswerFits
  PROVE  ShownAsDrafted
  <1>1. ASSUME NEW i \in DOMAIN answer.problems
        PROVE  LET found == answer.problems[i]
               IN /\ SameProblem(found.problem, draft.problem)
                  /\ Evaluates =>
                       [n \in DOMAIN found.mistakes |-> found.mistakes[n].description]
                         = draft.mistakes
    <2> DEFINE found == answer.problems[i]
    <2>1. /\ draft # NoDraft /\ Valid /\ draft.problem \in ProblemDraft
          /\ ValidProblem(draft.problem)
          /\ found.problem = ProblemToProto(draft.problem)
          /\ found.mistakes = (IF Evaluates THEN MistakesToProto(draft.mistakes) ELSE <<>>)
      BY ShownProblem
    <2> HIDE DEF found
    <2>2. SameProblem(found.problem, draft.problem)
      <3>1. \A n \in DOMAIN <<>> : (<<>>)[n].description
        OBVIOUS
      <3> QED  BY <2>1, <3>1, ValidIsShowable
    <2>3. Evaluates => [n \in DOMAIN found.mistakes |-> found.mistakes[n].description]
                         = draft.mistakes
      BY <2>1, NoMistakeUntold
    <2> QED  BY <2>2, <2>3 DEF found
  <1>2. Shown => ((answer.problems = <<>>) <=> (~ Evaluates /\ draft.blank))
    <2>1. SUFFICES ASSUME Shown
                   PROVE  (answer.problems = <<>>) <=> (~ Evaluates /\ draft.blank)
      OBVIOUS
    <2>2. draft # NoDraft /\ answer = Result
      BY <2>1 DEF Shown, AnswerFits, Nothing, AnalysisFailed
    <2> QED  BY <2>2, ResultProblems DEF EvaluateResult, ExtractResult
  <1> QED  BY <1>1, <1>2 DEF ShownAsDrafted

\* A failure is not the result of anything.
LEMMA Failure ==
  ASSUME AnswerFits, answer.status = "failed"
  PROVE  draft # NoDraft => ~ Valid
  BY ResultProblems DEF AnswerFits, Nothing

\* A draft that came and was refused could not have been shown.
LEMMA NoNeedlessRefusal ==
  ASSUME DraftFits, AnswerFits
  PROVE  RefusedOnlyIfUnshowable
  <1> SUFFICES ASSUME answer.status = "failed", draft # NoDraft, Showable
               PROVE  FALSE
      BY DEF RefusedOnlyIfUnshowable
  <1>1. ~ Valid
    BY Failure
  <1>2. CASE Evaluates
    <2> DEFINE m == MistakesToProto(draft.mistakes)
    <2>1. draft.problem \in ProblemDraft /\ draft.mistakes \in SeqOf(BOOLEAN, MaxLen)
      BY <1>2, DraftFacts
    <2>2. /\ Complete([problem |-> ProblemToProto(draft.problem), mistakes |-> m])
          /\ SameProblem(ProblemToProto(draft.problem), draft.problem)
      BY <1>2 DEF Showable, EvaluateResult
    <2>3. \A i \in DOMAIN m : m[i].description
      BY <2>2 DEF Complete
    <2> HIDE DEF m
    <2>4. ValidProblem(draft.problem)
      BY <2>1, <2>2, <2>3, ValidIsShowable
    <2>5. \A i \in DOMAIN draft.mistakes : draft.mistakes[i]
      BY <2>1, <2>3, MistakesFacts DEF m
    <2> QED  BY <1>1, <1>2, <2>4, <2>5, ValidDraft
  <1>3. CASE ~ Evaluates
    <2>1. CASE draft.blank
      BY <1>1, <1>3, <2>1, ValidDraft
    <2>2. CASE ~ draft.blank
      <3>1. /\ draft.problem # NoProblem
            /\ Complete([problem |-> ProblemToProto(draft.problem), mistakes |-> <<>>])
            /\ SameProblem(ProblemToProto(draft.problem), draft.problem)
        BY <1>3, <2>2 DEF Showable
      <3>2. draft.problem \in ProblemDraft
        BY <1>3, <3>1, DraftFacts
      <3>3. \A n \in DOMAIN <<>> : (<<>>)[n].description
        OBVIOUS
      <3>4. ValidProblem(draft.problem)
        BY <3>1, <3>2, <3>3, ValidIsShowable
      <3> QED  BY <1>1, <1>3, <3>1, <3>4, ValidDraft
    <2> QED  BY <2>1, <2>2
  <1> QED  BY <1>2, <1>3

\* What the schema rules out is all that validation asks for beyond presence.
THEOREM ConformingIsValid ==
  ASSUME NEW p \in ProblemDraft, ConformsProblem(p), Filled(p)
  PROVE  ValidProblem(p)
  BY DEF ConformsProblem, ConformsBlocks, SchemaKinds, SchemaDifficulties, Filled,
         ValidProblem, ValidStep, ValidBlock, ValidDifficulty

\* A draft of the schema's shape is refused only for what the schema cannot say.
LEMMA SchemaAgrees ==
  ASSUME DraftFits, AnswerFits
  PROVE  StrictRefusalIsForEmptiness
  <1> SUFFICES ASSUME answer.status = "failed", input = "strict",
                      draft.problem # NoProblem, Filled(draft.problem),
                      Evaluates => \A i \in DOMAIN draft.mistakes : draft.mistakes[i]
               PROVE  FALSE
      <2>1. Evaluates /\ ~ (\E i \in DOMAIN draft.mistakes : ~ draft.mistakes[i])
              => \A i \in DOMAIN draft.mistakes : draft.mistakes[i]
        OBVIOUS
      <2> QED  BY <2>1 DEF StrictRefusalIsForEmptiness
  <1>1. draft # NoDraft
    BY DEF NoDraft
  <1>2. draft.problem \in ProblemDraft /\ ConformsProblem(draft.problem)
    BY <1>1, DraftFacts DEF Conforms
  <1>3. ValidProblem(draft.problem)
    BY <1>2, ConformingIsValid
  <1>4. ~ Valid
    BY <1>1, Failure
  <1> QED  BY <1>1, <1>3, <1>4, ValidDraft
-----------------------------------------------------------------------------
(***************************************************************************)
(* What is suggested beside a problem.                                     *)
(***************************************************************************)

\* Nothing is left out of one or two ids that are all there.
LEMMA AllKept ==
  ASSUME NEW S, NEW ids \in Seq(S), Len(ids) \in 0..2, NEW there,
         \A n \in 1..Len(ids) : ids[n] \in there
  PROVE  Kept(ids, there) = ids
  <1> DEFINE N == Len(ids)
             Keeps(k) ==
               k = [n \in 0..N |->
                      IF n = 0 THEN <<>>
                      ELSE IF ids[n] \in there THEN Append(k[n - 1], ids[n]) ELSE k[n - 1]]
             first  == Append(<<>>, ids[1])
             second == Append(first, ids[2])
             w == [n \in 0..N |-> IF n = 0 THEN <<>> ELSE IF n = 1 THEN first ELSE second]
  <1>1. N \in Nat /\ \A n \in 0..N : n = 0 \/ n = 1 \/ n = 2
    OBVIOUS
  <1>2. \E k : Keeps(k)
    <2>1. \A n \in 0..N :
            w[n] = IF n = 0 THEN <<>>
                   ELSE IF ids[n] \in there THEN Append(w[n - 1], ids[n]) ELSE w[n - 1]
      <3> SUFFICES ASSUME NEW n \in 0..N
                   PROVE  w[n] = IF n = 0 THEN <<>>
                                 ELSE IF ids[n] \in there THEN Append(w[n - 1], ids[n])
                                 ELSE w[n - 1]
          OBVIOUS
      <3>1. n # 0 => n - 1 \in 0..N /\ ids[n] \in there
        BY <1>1
      <3>2. n # 0 => w[n] = Append(w[n - 1], ids[n])
        <4> HIDE DEF second, first
        <4>1. CASE n = 1
          <5>1. w[1] = first /\ w[0] = <<>>
            BY <4>1, <3>1
          <5> QED  BY <4>1, <5>1 DEF first
        <4>2. CASE n = 2
          <5>1. w[2] = second /\ w[1] = first
            BY <4>2, <3>1
          <5> QED  BY <4>2, <5>1 DEF second
        <4> QED  BY <1>1, <4>1, <4>2
      <3> QED  BY <3>1, <3>2
    <2> HIDE DEF w
    <2>2. w = [n \in 0..N |->
                 IF n = 0 THEN <<>>
                 ELSE IF ids[n] \in there THEN Append(w[n - 1], ids[n]) ELSE w[n - 1]]
      <3>1. w = [n \in 0..N |-> w[n]]
        BY DEF w
      <3> QED  BY <2>1, <3>1
    <2> QED  BY <2>2
  <1>3. PICK k : Keeps(k) /\ Kept(ids, there) = k[N]
    <2> DEFINE kept == CHOOSE k : Keeps(k)
    <2>1. Keeps(kept)
      BY <1>2, Zenon
    <2>2. Kept(ids, there) = kept[N]
      BY Zenon DEF Kept
    <2> QED  BY <2>1, <2>2
  <1>4. /\ k[0] = <<>>
        /\ \A n \in 1..N : k[n] = Append(k[n - 1], ids[n])
    <2>1. \A n \in 0..N :
            k[n] = IF n = 0 THEN <<>>
                   ELSE IF ids[n] \in there THEN Append(k[n - 1], ids[n]) ELSE k[n - 1]
      BY <1>3
    <2>2. 0 \in 0..N /\ \A n \in 1..N : n \in 0..N /\ n # 0
      BY <1>1
    <2> QED  BY <2>1, <2>2
  <1> HIDE DEF Keeps
  <1>5. CASE N = 0
    BY <1>3, <1>4, <1>5, EmptySeq
  <1>6. CASE N = 1
    <2>1. k[1] = <<ids[1]>>
      BY <1>4, <1>6
    <2>2. ids = <<ids[1]>>
      BY <1>6
    <2> QED  BY <1>3, <1>6, <2>1, <2>2
  <1>7. CASE N = 2
    <2>1. k[2] = <<ids[1], ids[2]>>
      BY <1>4, <1>7
    <2>2. ids = <<ids[1], ids[2]>>
      BY <1>7
    <2> QED  BY <1>3, <1>7, <2>1, <2>2
  <1> QED  BY <1>1, <1>5, <1>6, <1>7
\* The topic of each English lesson, in lessons.go.
TopicOf ==
  [linear_equations       |-> "algebra",
   quadratic_equations    |-> "algebra",
   pythagorean_theorem    |-> "geometry",
   intro_to_derivatives   |-> "calculus",
   statistics_mean_median |-> "statistics"]

\* The topics of the English lessons, and which lessons and practice problems
\* there are.
LEMMA CatalogTopics ==
  /\ \A id \in DOMAIN Lessons : Lessons[id].en.topic = TopicOf[id]
  /\ DOMAIN Lessons = LessonRefs
  /\ DOMAIN Problems = {"detected_linear_1", "prob_linear_2", "prob_quad_1", "prob_pyth_1"}
  <1>1. /\ LinearEquations.en.topic = "algebra"
        /\ QuadraticEquations.en.topic = "algebra"
        /\ PythagoreanTheorem.en.topic = "geometry"
    BY DEF LinearEquations, QuadraticEquations, PythagoreanTheorem, Lesson
  <1>2. /\ IntroToDerivatives.en.topic = "calculus"
        /\ Statistics.en.topic = "statistics"
    BY DEF IntroToDerivatives, Statistics, Lesson
  <1>3. /\ DOMAIN Lessons = LessonRefs
        /\ Lessons["linear_equations"] = LinearEquations
        /\ Lessons["quadratic_equations"] = QuadraticEquations
        /\ Lessons["pythagorean_theorem"] = PythagoreanTheorem
        /\ Lessons["intro_to_derivatives"] = IntroToDerivatives
        /\ Lessons["statistics_mean_median"] = Statistics
    BY DEF Lessons, LessonRefs
  <1>4. DOMAIN Problems =
          {"detected_linear_1", "prob_linear_2", "prob_quad_1", "prob_pyth_1"}
    BY DEF Problems
  <1> QED  BY <1>1, <1>2, <1>3, <1>4 DEF LessonRefs, TopicOf

\* Every topic of topics.go has a lesson, and nothing there is missing from the
\* tables it points into.
LEMMA TopicGroupFacts ==
  ASSUME NEW word \in DOMAIN TopicGroups
  PROVE  LET group == TopicGroups[word]
         IN /\ group.lessonIDs \in Seq(LessonRefs) /\ Len(group.lessonIDs) \in 1..2
            /\ group.problemIDs \in Seq(DOMAIN Problems) /\ Len(group.problemIDs) \in 0..2
  <1>1. word \in {"algebra", "geometry", "calculus", "statistics"}
    BY DEF TopicGroups
  <1>2. /\ <<"linear_equations", "quadratic_equations">> \in Seq(LessonRefs)
        /\ <<"pythagorean_theorem">> \in Seq(LessonRefs)
        /\ <<"intro_to_derivatives">> \in Seq(LessonRefs)
        /\ <<"statistics_mean_median">> \in Seq(LessonRefs)
    BY DEF LessonRefs
  <1>3. /\ <<"prob_linear_2", "prob_quad_1">> \in Seq(DOMAIN Problems)
        /\ <<"prob_pyth_1">> \in Seq(DOMAIN Problems)
        /\ <<>> \in Seq(DOMAIN Problems)
    BY CatalogTopics
  <1>4. CASE word = "algebra"
    <2>1. /\ TopicGroups[word].lessonIDs = <<"linear_equations", "quadratic_equations">>
          /\ TopicGroups[word].problemIDs = <<"prob_linear_2", "prob_quad_1">>
      BY <1>4 DEF TopicGroups
    <2>2. Len(<<"linear_equations", "quadratic_equations">>) \in 1..2 /\ Len(<<"prob_linear_2", "prob_quad_1">>) \in 0..2
      OBVIOUS
    <2> QED  BY <1>2, <1>3, <2>1, <2>2
  <1>5. CASE word = "geometry"
    <2>1. /\ TopicGroups[word].lessonIDs = <<"pythagorean_theorem">>
          /\ TopicGroups[word].problemIDs = <<"prob_pyth_1">>
      BY <1>5 DEF TopicGroups
    <2>2. Len(<<"pythagorean_theorem">>) \in 1..2 /\ Len(<<"prob_pyth_1">>) \in 0..2
      OBVIOUS
    <2> QED  BY <1>2, <1>3, <2>1, <2>2
  <1>6. CASE word = "calculus"
    <2>1. /\ TopicGroups[word].lessonIDs = <<"intro_to_derivatives">>
          /\ TopicGroups[word].problemIDs = <<>>
      BY <1>6 DEF TopicGroups
    <2>2. Len(<<"intro_to_derivatives">>) \in 1..2 /\ Len(<<>>) \in 0..2
      OBVIOUS
    <2> QED  BY <1>2, <1>3, <2>1, <2>2
  <1>7. CASE word = "statistics"
    <2>1. /\ TopicGroups[word].lessonIDs = <<"statistics_mean_median">>
          /\ TopicGroups[word].problemIDs = <<>>
      BY <1>7 DEF TopicGroups
    <2>2. Len(<<"statistics_mean_median">>) \in 1..2 /\ Len(<<>>) \in 0..2
      OBVIOUS
    <2> QED  BY <1>2, <1>3, <2>1, <2>2
  <1> QED  BY <1>1, <1>4, <1>5, <1>6, <1>7

\* A look-up gives the whole group of the topic, or that of algebra.
LEMMA LookUpFacts ==
  ASSUME NEW topic
  PROVE  LET word == IF topic.word \in DOMAIN TopicGroups THEN topic.word ELSE "algebra"
         IN /\ word \in DOMAIN TopicGroups
            /\ LessonsAndProblemsForTopic(topic) =
                 [lessons  |-> TopicGroups[word].lessonIDs,
                  problems |-> TopicGroups[word].problemIDs]
  <1> DEFINE word == IF topic.word \in DOMAIN TopicGroups THEN topic.word ELSE "algebra"
             group == TopicGroups[word]
  <1>1. word \in DOMAIN TopicGroups
    BY DEF TopicGroups
  <1>2. LessonsAndProblemsForTopic(topic) =
          [lessons  |-> Kept(group.lessonIDs, LessonRefs),
           problems |-> Kept(group.problemIDs, DOMAIN Problems)]
    BY DEF LessonsAndProblemsForTopic, Normalised, DefaultTopicGroup
  <1>3. /\ group.lessonIDs \in Seq(LessonRefs) /\ Len(group.lessonIDs) \in 0..2
        /\ group.problemIDs \in Seq(DOMAIN Problems) /\ Len(group.problemIDs) \in 0..2
    <2> HIDE DEF word
    <2> QED  BY <1>1, TopicGroupFacts
  <1> HIDE DEF group
  <1>4. Kept(group.lessonIDs, LessonRefs) = group.lessonIDs
    <2>1. \A n \in 1..Len(group.lessonIDs) : group.lessonIDs[n] \in LessonRefs
      BY <1>3
    <2> QED  BY <1>3, <2>1, AllKept
  <1>5. Kept(group.problemIDs, DOMAIN Problems) = group.problemIDs
    <2>1. \A n \in 1..Len(group.problemIDs) : group.problemIDs[n] \in DOMAIN Problems
      BY <1>3
    <2> QED  BY <1>3, <2>1, AllKept
  <1> QED  BY <1>1, <1>2, <1>4, <1>5 DEF group
\* What a group suggests is of its topic, and a topic is known if it has a group.
LEMMA GroupsFit ==
  /\ \A word \in DOMAIN TopicGroups :
       /\ \A n \in DOMAIN TopicGroups[word].lessonIDs :
            Lessons[TopicGroups[word].lessonIDs[n]].en.topic = word
       /\ \A n \in DOMAIN TopicGroups[word].problemIDs :
            Problems[TopicGroups[word].problemIDs[n]] = word
  /\ \A word : word \in DOMAIN TopicGroups <=>
                 \E id \in DOMAIN Lessons : Lessons[id].en.topic = word
  <1>1. DOMAIN TopicGroups = {"algebra", "geometry", "calculus", "statistics"}
    BY DEF TopicGroups
  <1>2. /\ Problems["prob_linear_2"] = "algebra" /\ Problems["prob_quad_1"] = "algebra"
        /\ Problems["prob_pyth_1"] = "geometry"
    BY DEF Problems
  <1>3. ASSUME NEW word \in DOMAIN TopicGroups
        PROVE  \A n \in DOMAIN TopicGroups[word].lessonIDs :
                 LET id == TopicGroups[word].lessonIDs[n]
                 IN id \in DOMAIN Lessons /\ word = TopicOf[id]
    <2>1. DOMAIN Lessons = LessonRefs
      BY CatalogTopics
    <2> QED  BY <1>1, <2>1 DEF TopicGroups, LessonRefs, TopicOf
  <1>4. ASSUME NEW word \in DOMAIN TopicGroups
        PROVE  \A n \in DOMAIN TopicGroups[word].problemIDs :
                 Problems[TopicGroups[word].problemIDs[n]] = word
    BY <1>1, <1>2 DEF TopicGroups
  <1>5. ASSUME NEW word
        PROVE  word \in DOMAIN TopicGroups <=>
                 \E id \in DOMAIN Lessons : Lessons[id].en.topic = word
    BY <1>1, CatalogTopics DEF LessonRefs, TopicOf
  <1>6. ASSUME NEW word \in DOMAIN TopicGroups,
               NEW n \in DOMAIN TopicGroups[word].lessonIDs
        PROVE  Lessons[TopicGroups[word].lessonIDs[n]].en.topic = word
    BY <1>3, CatalogTopics
  <1> QED  BY <1>4, <1>5, <1>6
\* Whatever topic the model names: what is suggested is of that topic, or of
\* algebra if no English lesson is of it, and leads somewhere.
LEMMA Suggestions ==
  ASSUME DraftFits, AnswerFits
  PROVE  SuggestionsFit
  <1> DEFINE Word(topic) == IF topic.word \in DOMAIN TopicGroups THEN topic.word ELSE "algebra"
             Lists(g) ==
               /\ \A n \in DOMAIN g.lessons : g.lessons[n] \in DOMAIN Lessons
               /\ \A n \in DOMAIN g.problems : g.problems[n] \in DOMAIN Problems
               /\ g.lessons # <<>>
             Fits(g, word) ==
               /\ \A n \in DOMAIN g.lessons : Lessons[g.lessons[n]].en.topic = word
               /\ \A n \in DOMAIN g.problems : Problems[g.problems[n]] = word
  <1>1. ASSUME NEW topic
        PROVE  LET g == LessonsAndProblemsForTopic(topic)
               IN Lists(g) /\ Fits(g, Word(topic))
    <2> DEFINE word  == Word(topic)
               group == TopicGroups[word]
    <2>1. /\ word \in DOMAIN TopicGroups
          /\ LessonsAndProblemsForTopic(topic) =
               [lessons |-> group.lessonIDs, problems |-> group.problemIDs]
      BY LookUpFacts
    <2> HIDE DEF word
    <2>2. /\ group.lessonIDs \in Seq(LessonRefs) /\ Len(group.lessonIDs) \in 1..2
          /\ group.problemIDs \in Seq(DOMAIN Problems)
      BY <2>1, TopicGroupFacts
    <2>3. Fits([lessons |-> group.lessonIDs, problems |-> group.problemIDs], word)
      BY <2>1, GroupsFit
    <2>4. Lists([lessons |-> group.lessonIDs, problems |-> group.problemIDs])
      <3> DEFINE ids   == group.lessonIDs
                 probs == group.problemIDs
      <3>1. DOMAIN Lessons = LessonRefs
        BY CatalogTopics
      <3>2. Len(<<>>) = 0
        OBVIOUS
      <3>3. /\ ids \in Seq(LessonRefs) /\ Len(ids) \in 1..2
            /\ probs \in Seq(DOMAIN Problems)
        BY <2>2, Zenon
      <3> HIDE DEF ids, probs
      <3>4. /\ \A n \in DOMAIN ids : ids[n] \in LessonRefs
            /\ \A n \in DOMAIN probs : probs[n] \in DOMAIN Problems
        BY <3>3, LenProperties
      <3>5. ids # <<>>
        BY <3>2, <3>3
      <3> QED  BY <3>1, <3>4, <3>5 DEF ids, probs
    <2> HIDE DEF Fits, Lists
    <2> QED  BY <2>1, <2>3, <2>4 DEF word
  <1>2. CASE answer = Nothing \/ answer = AnalysisFailed
    BY <1>2 DEF SuggestionsFit, Nothing, AnalysisFailed
  <1>3. CASE draft # NoDraft /\ Valid /\ answer = Result
    <2> DEFINE found == answer.problems
               topic == IF found = <<>> THEN NoTopic ELSE found[1].problem.topic
               group == LessonsAndProblemsForTopic(topic)
    <2>1. answer = DisplayAnalysis(found) \/ answer = AssetsResult(found)
      BY <1>3, ResultProblems DEF Result
    <2>2. /\ found = EvaluateResult(draft) \/ found = ExtractResult(draft)
          /\ \A i \in DOMAIN found : i = 1 /\ found # <<>>
      BY <1>3, ResultProblems DEF EvaluateResult, ExtractResult
    <2>3. Lists(group) /\ Fits(group, Word(topic))
      BY <1>1
    <2>4. CASE found = <<>>
      <3>1. CASE answer = DisplayAnalysis(found)
        <4>1. answer.lessons = group.lessons /\ answer.similar = <<>>
          BY <2>4, <3>1 DEF DisplayAnalysis
        <4> QED  BY <2>3, <2>4, <4>1 DEF SuggestionsFit
      <3>2. CASE answer = AssetsResult(found)
        <4>1. /\ answer.lessons = TopicLessons
              /\ answer.similar = <<ProblemById("prob_quad_1"), ProblemById("prob_pyth_1")>>
          BY <2>4, <3>2 DEF AssetsResult
        <4>2. \A n \in DOMAIN answer.lessons : answer.lessons[n] \in DOMAIN Lessons
          BY <4>1, CatalogTopics DEF TopicLessons, LessonRefs
        <4>3. answer.lessons # <<>>
          BY <4>1 DEF TopicLessons
        <4>4. \A n \in DOMAIN answer.similar : answer.similar[n] \in DOMAIN Problems
          BY <4>1, CatalogTopics DEF ProblemById
        <4> QED  BY <2>4, <4>2, <4>3, <4>4 DEF SuggestionsFit
      <3> QED  BY <2>1, <3>1, <3>2
    <2>5. CASE found # <<>>
      <3>1. /\ \/ answer.lessons = group.lessons
               \/ answer.lessons = <<>> /\ answer.status = "found"
            /\ answer.similar = group.problems
        BY <2>1, <2>5 DEF DisplayAnalysis, AssetsResult
      <3>2. /\ \A n \in DOMAIN answer.lessons : answer.lessons[n] \in DOMAIN Lessons
            /\ \A n \in DOMAIN answer.similar : answer.similar[n] \in DOMAIN Problems
            /\ answer.status \in {"displayed", "blank"} => answer.lessons # <<>>
        <4> HIDE DEF group, found
        <4>1. CASE answer.lessons = group.lessons
          BY <2>3, <3>1, <4>1
        <4>2. CASE answer.lessons = <<>> /\ answer.status = "found"
          BY <2>3, <3>1, <4>2
        <4> QED  BY <3>1, <4>1, <4>2
      <3>3. /\ \A n \in DOMAIN answer.lessons :
                 Lessons[answer.lessons[n]].en.topic = Word(topic)
            /\ \A n \in DOMAIN answer.similar : Problems[answer.similar[n]] = Word(topic)
        <4> HIDE DEF group, found, Word
        <4>1. CASE answer.lessons = group.lessons
          BY <2>3, <3>1, <4>1
        <4>2. CASE answer.lessons = <<>>
          BY <2>3, <3>1, <4>2
        <4> QED  BY <3>1, <4>1, <4>2
      <3>4. ASSUME NEW i \in DOMAIN found
            PROVE  LET word  == found[i].problem.topic.word
                       known == \E id \in DOMAIN Lessons : Lessons[id].en.topic = word
                   IN Word(topic) = IF known THEN word ELSE "algebra"
        <4>1. topic = found[i].problem.topic
          BY <2>2, <2>5
        <4> QED  BY <4>1, GroupsFit
      <3> HIDE DEF Word
      <3> QED  BY <3>2, <3>3, <3>4 DEF SuggestionsFit
    <2> QED  BY <2>4, <2>5
  <1> QED  BY <1>2, <1>3 DEF AnswerFits
=============================================================================
