SPECIFICATION EdgeSpec
CONSTANTS
  Words <- SomeWords
  Kinds <- SomeKinds
  Difficulties <- SomeDifficulties
  MaxLen = 2
  Sniffed <- SomeSniffed
  Extensions <- SomeExtensions
  Environments <- SomeEnvironments
  MaxAssets = 2
CHECK_DEADLOCK FALSE
INVARIANTS
  IndInv
  AnswerIsComplete
  ShownAsDrafted
  RefusedOnlyIfUnshowable
  StrictRefusalIsForEmptiness
  SuggestionsFit
  TraceTellsAnswer
  StatusTellsEffect
  StoredTypeIsTrue
  LessonServed
