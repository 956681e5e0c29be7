------------------------------ MODULE Catalog -------------------------------
(***************************************************************************)
(* The static content of internal/catalog as far as a look-up tells it     *)
(* apart: which lessons and practice problems there are, of which topic    *)
(* and, for a lesson, of what shape in either language; and which of them  *)
(* topics.go pairs with the topic the vision model names.                  *)
(***************************************************************************)
EXTENDS Naturals, SequencesExt

\* A lesson in one language, as lessons.go writes it: the topic, how many
\* texts of context, the blocks of each section and of the worked example by
\* kind, a step by its number.  Wording and what is inside a step are left out.
\* A Spanish lesson has a Spanish topic: "algebra_es" is Álgebra, and so on.
Lesson(topic, context, sections, worked) ==
  [topic |-> topic, context |-> context, sections |-> sections, worked |-> worked]

LinearEquations ==
  LET On(topic) == Lesson(topic, 2,
        << <<"text", "math", "text">>, <<"text", "1", "2">>,
           <<"text", "text", "math", "math", "graph", "1", "2", "3">> >>,
        <<"text", "math", "1", "2", "text">>)
  IN [en |-> On("algebra"), es |-> On("algebra_es")]

\* The Spanish one has no graph.
QuadraticEquations ==
  LET formula == <<"text", "math", "text", "math", "math", "math">>
      On(topic, section) == Lesson(topic, 1, << <<"math", "text">>, section >>,
                                   <<"text", "math", "1", "2", "3">>)
  IN [en |-> On("algebra", Append(formula, "graph")), es |-> On("algebra_es", formula)]

\* The Spanish one does without the section on the hypotenuse.
PythagoreanTheorem ==
  LET theorem == <<"text", "math", "geometry">>
      On(topic, sections) == Lesson(topic, 1, sections, <<"text", "1", "2">>)
  IN [en |-> On("geometry", <<theorem, <<"text", "math", "text", "math">> >>),
      es |-> On("geometry_es", <<theorem>>)]

IntroToDerivatives ==
  LET rule == <<"text", "math", "text", "math", "math", "math">>
  IN [en |-> Lesson("calculus", 1, << <<"text", "math", "graph">>, rule >>,
                    <<"text", "1", "2">>),
      es |-> Lesson("calculus_es", 1, << <<"text", "math">>, Front(rule) >>,
                    <<"text", "1">>)]

Statistics ==
  LET mean == << <<"text", "math">>, <<"text">> >>
      On(topic, sections) == Lesson(topic, 1, sections, <<"text", "1", "2">>)
  IN [en |-> On("statistics", Append(mean, <<"text">>)), es |-> On("statistics_es", mean)]

Lessons ==
  [linear_equations       |-> LinearEquations,
   quadratic_equations    |-> QuadraticEquations,
   pythagorean_theorem    |-> PythagoreanTheorem,
   intro_to_derivatives   |-> IntroToDerivatives,
   statistics_mean_median |-> Statistics]

FallbackLesson == Lesson("mathematics", 1, <<>>, <<"text">>)

\* Broken: a lesson that is asked for in another language is not there.
GetLessonOrStub(id, lang) ==
  IF id \in DOMAIN Lessons /\ lang \in DOMAIN Lessons[id]
  THEN [language |-> lang, body |-> Lessons[id][lang]]
  ELSE [language |-> "en", body |-> FallbackLesson]

\* Every lesson is in Spanish if asked for in "es", else in English; the stub
\* of an unknown id is in English.
GetLesson(id, lang) ==
  LET tongue == IF lang = "es" /\ id \in DOMAIN Lessons THEN "es" ELSE "en"
  IN [language |-> tongue,
      body     |-> IF id \in DOMAIN Lessons THEN Lessons[id][tongue] ELSE FallbackLesson]

\* Problems (problems.go): each id and its Topic.
Problems ==
  [detected_linear_1 |-> "algebra",
   prob_linear_2     |-> "algebra",
   prob_quad_1       |-> "algebra",
   prob_pyth_1       |-> "geometry"]

\* The LessonId of each entry of Topics, and the keys of lessonRefs.
TopicLessons == <<"quadratic_equations", "pythagorean_theorem",
                  "intro_to_derivatives", "linear_equations">>

LessonRefs == {"linear_equations", "quadratic_equations", "pythagorean_theorem",
               "intro_to_derivatives", "statistics_mean_median"}

-----------------------------------------------------------------------------
\* The topic a model names: the word it comes to, and whether it is spelled
\* as the keys of topicGroups are or with capitals or blanks around it.
Topic(words) == [word : words, plain : BOOLEAN]

NoTopic == [word |-> "", plain |-> TRUE]

\* Broken: the topic is looked up as it is spelled.
AsSpelled(topic) == IF topic.plain THEN topic.word ELSE "?"

\* strings.ToLower(strings.TrimSpace(topic))
Normalised(topic) == topic.word

TopicGroups ==
  [algebra    |-> [lessonIDs  |-> <<"linear_equations", "quadratic_equations">>,
                   problemIDs |-> <<"prob_linear_2", "prob_quad_1">>],
   geometry   |-> [lessonIDs  |-> <<"pythagorean_theorem">>,
                   problemIDs |-> <<"prob_pyth_1">>],
   calculus   |-> [lessonIDs |-> <<"intro_to_derivatives">>, problemIDs |-> <<>>],
   statistics |-> [lessonIDs |-> <<"statistics_mean_median">>, problemIDs |-> <<>>]]

DefaultTopicGroup == TopicGroups["algebra"]

\* The ids that are in `there`, in their order.
Kept(ids, there) ==
  LET kept[n \in 0..Len(ids)] ==
        IF n = 0 THEN <<>>
        ELSE IF ids[n] \in there THEN Append(kept[n - 1], ids[n]) ELSE kept[n - 1]
  IN kept[Len(ids)]

LessonsAndProblemsForTopic(topic) ==
  LET key   == Normalised(topic)
      group == IF key \in DOMAIN TopicGroups THEN TopicGroups[key]
                                             ELSE DefaultTopicGroup
  IN [lessons  |-> Kept(group.lessonIDs, LessonRefs),
      problems |-> Kept(group.problemIDs, DOMAIN Problems)]
=============================================================================
