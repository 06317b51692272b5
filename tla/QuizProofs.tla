----------------------------- MODULE QuizProofs -----------------------------
(***************************************************************************)
(* Proofs about Quiz, for any categories, quiz sizes and bounds.           *)
(***************************************************************************)
EXTENDS Quiz, FiniteSetTheorems, TLAPS

-----------------------------------------------------------------------------
(* The types.                                                              *)

\* What nextQuestion leaves, whichever way it ends: well-typed fields and
\* score, and a result only over the quiz that was on the screen.
LEMMA NextQuestionTypes ==
  ASSUME TypeOK, NEW i \in Controllers, NEW q \in QuizFields,
         nextQuestion(i, q)
  PROVE  /\ vc' \in [Controllers -> QuizFields]
         /\ score' \in Scores
         /\ screen' \in Screens
         /\ screen' \notin Traps =>
              screen' = screen \/ (screen = "quiz" /\ ~appearing)
<1> USE DEF TypeOK, NavigationTypeOK, DataTypeOK
<1>1. CASE q.questionNumber = q.questions
  <2>1. /\ vc' = [vc EXCEPT ![i] = q]
        /\ score' = [right |-> q.correctAnswers, of |-> q.questions]
        /\ \/ screen' = screen
           \/ Presentable(i) /\ screen' \in {"passed", "failed"}
    BY <1>1 DEF nextQuestion, QuizFields
  <2>2. score' \in Scores
    BY <2>1 DEF Scores, QuizFields
  <2>3. screen' \in Screens
    BY <2>1 DEF Screens
  <2> QED BY <2>1, <2>2, <2>3 DEF Presentable
<1>2. CASE q.questionNumber < q.questions
  <2>1. [q EXCEPT !.asked = TRUE] \in QuizFields
    BY DEF QuizFields
  <2>2. vc' = [vc EXCEPT ![i] = [q EXCEPT !.asked = TRUE]]
        /\ score' = score /\ screen' = screen
    BY <1>2 DEF nextQuestion, QuizFields
  <2> QED BY <2>1, <2>2
<1>3. CASE q.questionNumber > q.questions
  BY <1>3 DEF nextQuestion, QuizFields, Screens, Traps
<1> QED BY <1>1, <1>2, <1>3 DEF QuizFields

\* The steps of the student and of UIKit keep the types: they change at most
\* the navigation state, except for the fields viewWillAppear resets and the
\* animation an answer starts.
LEMMA NavigationTypeStep ==
  ASSUME TypeOK,
         \/ TakeQuiz \/ SideMenuRoundTrip \/ BrowseCatalog \/ CatalogAnswers
         \/ onRetryQuiz \/ onRetakeQuiz \/ onStudyAgain \/ onNextCategory
         \/ GoBack \/ ContinueLearning \/ MenuViewWillAppear
  PROVE  TypeOK'
<1> USE QuizAssumption DEF NavigationTypeOK, Screens, Controllers
<1>1. DataTypeOK'
  BY DEF TypeOK, DataTypeOK, network, TakeQuiz, SideMenuRoundTrip,
         BrowseCatalog, CatalogAnswers, onRetryQuiz, onRetakeQuiz, onStudyAgain,
         onNextCategory, GoBack, ContinueLearning, MenuViewWillAppear
<1>2. NavigationTypeOK
  BY DEF TypeOK
<1> SUFFICES NavigationTypeOK'
  BY <1>1 DEF TypeOK
<1>10. orderly' \in BOOLEAN
  BY <1>2
  DEF TakeQuiz, SideMenuRoundTrip, BrowseCatalog, CatalogAnswers, onRetryQuiz,
      onRetakeQuiz, onStudyAgain, onNextCategory, GoBack, ContinueLearning,
      MenuViewWillAppear, QuizAppears
<1>3. CASE TakeQuiz
  BY <1>2, <1>10, <1>3 DEF TakeQuiz, QuizAppears, catalog
<1>4. CASE SideMenuRoundTrip
  <2>1. browsing' \in BOOLEAN
    BY <1>2, <1>4 DEF SideMenuRoundTrip
  <2>2. appearing' \in BOOLEAN
    BY <1>4 DEF SideMenuRoundTrip, QuizAppears
  <2> QED BY <1>2, <1>10, <1>4, <2>1, <2>2 DEF SideMenuRoundTrip, QuizAppears
<1>5. CASE BrowseCatalog \/ CatalogAnswers
  BY <1>2, <1>5 DEF BrowseCatalog, CatalogAnswers
<1>6. CASE onRetryQuiz \/ onRetakeQuiz \/ onStudyAgain
  <2>1. dismissQuiz' \in BOOLEAN
    BY <1>2, <1>6 DEF onRetryQuiz, onRetakeQuiz, onStudyAgain
  <2>2. appearing' \in BOOLEAN
    BY <1>6 DEF onRetryQuiz, onRetakeQuiz, onStudyAgain, QuizAppears
  <2> QED
    BY <1>2, <1>10, <1>6, <2>1, <2>2
    DEF onRetryQuiz, onRetakeQuiz, onStudyAgain, QuizAppears, catalog
<1>7. CASE onNextCategory \/ ContinueLearning
  BY <1>2, <1>7 DEF onNextCategory, ContinueLearning, catalog
<1>8. CASE GoBack
  BY <1>2, <1>10, <1>8 DEF GoBack, catalog
<1>9. CASE MenuViewWillAppear
  BY <1>2, <1>9 DEF MenuViewWillAppear, catalog
<1> QED BY <1>3, <1>4, <1>5, <1>6, <1>7, <1>8, <1>9

\* Every step of the specification keeps the types.
LEMMA TypeStep == TypeOK /\ [Next]_vars => TypeOK'
<1> SUFFICES ASSUME TypeOK, [Next]_vars PROVE TypeOK'
  OBVIOUS
<1> USE QuizAssumption
<1>1. NavigationTypeOK /\ DataTypeOK
  BY DEF TypeOK
<1>2. CASE checkIfCorrect
  <2>1. screen' = screen \/ screen' = "badQuestionIndex"
    BY <1>2 DEF checkIfCorrect
  <2>2. anims' \in Seq(Answers)
    <3>1. CASE UNCHANGED anims
      BY <1>1, <3>1 DEF DataTypeOK
    <3>2. CASE \E b \in BOOLEAN :
                 anims' = Append(anims, [vc |-> top, correct |-> b])
      <4>1. PICK b \in BOOLEAN :
                   anims' = Append(anims, [vc |-> top, correct |-> b])
        BY <3>2
      <4>2. [vc |-> top, correct |-> b] \in Answers
        BY <1>1, <1>2 DEF NavigationTypeOK, checkIfCorrect, Answers
      <4> QED BY <1>1, <4>1, <4>2 DEF DataTypeOK
    <3> QED BY <1>2, <3>1, <3>2 DEF checkIfCorrect
  <2>3. orderly' \in BOOLEAN
    BY <1>2 DEF checkIfCorrect
  <2>4. NavigationTypeOK'
    BY <1>1, <1>2, <2>1, <2>3
    DEF NavigationTypeOK, Screens, checkIfCorrect, catalog
  <2>5. DataTypeOK'
    BY <1>1, <1>2, <2>2 DEF DataTypeOK, checkIfCorrect
  <2> QED BY <2>4, <2>5 DEF TypeOK
<1>3. CASE QuizViewWillAppear
  <2>1. top \in Controllers /\ Blank \in QuizFields
    BY <1>1, <1>3
    DEF NavigationTypeOK, QuizViewWillAppear, Blank, QuizFields
  <2>2. vc' \in [Controllers -> QuizFields]
    BY <1>1, <1>3, <2>1 DEF DataTypeOK, QuizViewWillAppear
  <2>3. fetches' \in [Controllers -> [Categories -> Nat]]
    BY <1>1, <1>3, <2>1 DEF NavigationTypeOK, DataTypeOK, QuizViewWillAppear
  <2>4. score' \in Scores
    BY <1>3 DEF QuizViewWillAppear, Scores
  <2>5. orderly' \in BOOLEAN
    BY <1>3 DEF QuizViewWillAppear, Quiescent
  <2>6. /\ screen' \in {"menu", "quiz"} /\ appearing' \in BOOLEAN
        /\ top' \in {0, top}
        /\ screen' = "quiz" => top' = top
    BY <1>1, <1>3 DEF NavigationTypeOK, QuizViewWillAppear
  <2>7. NavigationTypeOK'
    BY <1>1, <1>3, <2>1, <2>5, <2>6
    DEF NavigationTypeOK, QuizViewWillAppear, Screens, catalog
  <2>8. DataTypeOK'
    BY <1>1, <1>3, <2>2, <2>3, <2>4 DEF DataTypeOK, QuizViewWillAppear
  <2> QED BY <2>7, <2>8 DEF TypeOK
<1>4. ASSUME NEW i \in Controllers, NEW c \in Categories,
             GetDocumentsDone(i, c)
      PROVE  TypeOK'
  <2>1. vc' \in [Controllers -> QuizFields]
    <3>1. PICK docs \in {0, QuizSize[c]} :
                 vc' = [vc EXCEPT ![i].questions = @ + docs]
      BY <1>4 DEF GetDocumentsDone
    <3>2. docs \in Nat
      OBVIOUS
    <3>3. vc[i] \in QuizFields
      BY <1>1 DEF DataTypeOK
    <3>4. [vc[i] EXCEPT !.questions = vc[i].questions + docs] \in QuizFields
      BY <3>2, <3>3 DEF QuizFields
    <3> QED BY <1>1, <3>1, <3>4 DEF DataTypeOK
  <2>2. fetches' \in [Controllers -> [Categories -> Nat]]
    BY <1>1, <1>4 DEF DataTypeOK, GetDocumentsDone
  <2>3. writes' \in Seq(Writes)
    <3>1. [vc |-> i, doc |-> categoryRef, op |-> "set", key |-> 0,
           correct |-> FALSE] \in Writes
      BY <1>1 DEF NavigationTypeOK, Writes
    <3> QED BY <1>1, <1>4, <3>1 DEF DataTypeOK, GetDocumentsDone
  <2>4. DataTypeOK'
    BY <1>1, <1>4, <2>1, <2>2, <2>3 DEF DataTypeOK, GetDocumentsDone
  <2>5. NavigationTypeOK'
    BY <1>1, <1>4 DEF NavigationTypeOK, GetDocumentsDone, catalog
  <2> QED BY <2>4, <2>5 DEF TypeOK
<1>5. ASSUME NEW i \in Controllers, NEW c \in Categories,
             GetDocumentsFailed(i, c)
      PROVE  TypeOK'
  <2>1. DataTypeOK'
    BY <1>1, <1>5 DEF DataTypeOK, GetDocumentsFailed
  <2>2. NavigationTypeOK'
    BY <1>1, <1>5 DEF NavigationTypeOK, GetDocumentsFailed, catalog
  <2> QED BY <2>1, <2>2 DEF TypeOK
<1>6. CASE AnimationDone
  <2> DEFINE a == Head(anims)
  <2>1. a \in Answers /\ anims' \in Seq(Answers)
    BY <1>1, <1>6 DEF DataTypeOK, AnimationDone
  <2>2. a.vc \in Controllers /\ a.correct \in BOOLEAN
        /\ vc[a.vc] \in QuizFields
    BY <1>1, <2>1 DEF DataTypeOK, Answers
  <2>3. vc' \in [Controllers -> QuizFields]
    <3> DEFINE n == IF a.correct THEN vc[a.vc].correctAnswers + 1
                                 ELSE vc[a.vc].correctAnswers
    <3>1. n \in Nat
      BY <2>2 DEF QuizFields
    <3>2. vc' = [vc EXCEPT ![a.vc].correctAnswers = n]
      BY <1>6 DEF AnimationDone
    <3> HIDE DEF n, a
    <3>3. [vc[a.vc] EXCEPT !.correctAnswers = n] \in QuizFields
      BY <2>2, <3>1 DEF QuizFields
    <3> QED BY <1>1, <2>2, <3>2, <3>3 DEF DataTypeOK
  <2>4. writes' \in Seq(Writes)
    <3>1. [vc |-> a.vc, doc |-> categoryRef, op |-> "update",
           key |-> vc[a.vc].questionNumber, correct |-> a.correct] \in Writes
      BY <1>1, <2>2 DEF NavigationTypeOK, Writes, QuizFields
    <3> QED BY <1>1, <1>6, <3>1 DEF DataTypeOK, AnimationDone
  <2>5. DataTypeOK'
    BY <1>1, <1>6, <2>1, <2>3, <2>4 DEF DataTypeOK, AnimationDone
  <2>6. NavigationTypeOK'
    BY <1>1, <1>6 DEF NavigationTypeOK, AnimationDone, catalog
  <2> QED BY <2>5, <2>6 DEF TypeOK
<1>7. CASE WriteDone
  <2> DEFINE w == Head(writes)
             q == IF w.op = "set" THEN vc[w.vc]
                  ELSE [vc[w.vc] EXCEPT !.questionNumber = @ + 1]
  <2>1. w \in Writes /\ writes' \in Seq(Writes)
    BY <1>1, <1>7 DEF DataTypeOK, WriteDone
  <2>2. w.vc \in Controllers /\ w.doc \in Categories /\ w.key \in Nat
        /\ vc[w.vc] \in QuizFields /\ record[w.doc] \in Records
    BY <1>1, <2>1 DEF DataTypeOK, Writes
  <2>3. q \in QuizFields
    BY <2>2 DEF QuizFields
  <2>4. nextQuestion(w.vc, q)
    BY <1>7 DEF WriteDone
  <2>5. record' \in [Categories -> Records]
    <3>1. Committed(w, record[w.doc]) \in Records
      BY <2>2 DEF Committed, Records, EmptyRecord
    <3>2. record' = [record EXCEPT ![w.doc] = Committed(w, record[w.doc])]
      BY <1>7 DEF WriteDone
    <3> QED BY <1>1, <2>2, <3>1, <3>2 DEF DataTypeOK
  <2> HIDE DEF w, q
  <2>6. /\ vc' \in [Controllers -> QuizFields] /\ score' \in Scores
        /\ screen' \in Screens
        /\ screen' \notin Traps =>
             screen' = screen \/ (screen = "quiz" /\ ~appearing)
    BY <2>2, <2>3, <2>4, NextQuestionTypes
  <2>7. DataTypeOK'
    BY <1>1, <1>7, <2>1, <2>5, <2>6 DEF DataTypeOK, WriteDone
  <2>8. NavigationTypeOK'
    BY <1>1, <1>7, <2>6 DEF NavigationTypeOK, WriteDone, catalog, Traps
  <2> QED BY <2>7, <2>8 DEF TypeOK
<1>8. CASE WriteFailed
  <2>1. writes' \in Seq(Writes) /\ Head(writes) \in Writes
    BY <1>1, <1>8 DEF DataTypeOK, WriteFailed
  <2>2. errors' \in Nat
    BY <1>1, <1>8 DEF DataTypeOK, WriteFailed
  <2>3. orderly' \in BOOLEAN
    BY <1>8 DEF WriteFailed
  <2>4. DataTypeOK'
    BY <1>1, <1>8, <2>1, <2>2 DEF DataTypeOK, WriteFailed
  <2>5. NavigationTypeOK'
    BY <1>1, <1>8, <2>3 DEF NavigationTypeOK, WriteFailed, catalog
  <2> QED BY <2>4, <2>5 DEF TypeOK
<1>9. CASE UNCHANGED vars
  BY <1>9 DEF TypeOK, NavigationTypeOK, DataTypeOK, vars
<1> QED
  BY NavigationTypeStep, <1>2, <1>3, <1>4, <1>5, <1>6, <1>7, <1>8, <1>9
  DEF Next, Student, System

\* The initial state has the types.
LEMMA TypeInit == Init => TypeOK
<1> SUFFICES ASSUME Init PROVE TypeOK
  OBVIOUS
<1>1. NavigationTypeOK
  <2>1. orderly \in BOOLEAN
    BY DEF Init
  <2>2. appearing \in BOOLEAN /\ dismissQuiz \in BOOLEAN
    BY DEF Init
  <2>3. browsing \in BOOLEAN
    BY DEF Init
  <2> QED BY <2>1, <2>2, <2>3, QuizAssumption DEF Init, NavigationTypeOK, Screens
<1>2. DataTypeOK
  BY DEF Init, DataTypeOK, Blank, QuizFields, Scores, Records
<1> QED BY <1>1, <1>2 DEF TypeOK

\* Every state of the quiz is well typed: no counter becomes negative, and
\* whenever the quiz or a result is on the screen a QuizViewController is on
\* the navigation stack (QuizViewController's fields and completions).
THEOREM TypeCorrect == Spec => []TypeOK
BY TypeInit, TypeStep, PTL DEF Spec

-----------------------------------------------------------------------------
(* An orderly attempt, phase by phase.                                     *)

NoFetch == \A i \in Controllers, c \in Categories : fetches[i][c] = 0

OneFetch == \A i \in Controllers, c \in Categories :
  fetches[i][c] = IF i = top /\ c = categoryRef THEN 1 ELSE 0

\* The user's document holds the answers to the questions before the current
\* one, and correctAnswers is ahead of its right answers by extra.
Recorded(extra) ==
  /\ record[categoryRef].exists
  /\ record[categoryRef].answered = 0 .. vc[top].questionNumber - 1
  /\ record[categoryRef].right \subseteq record[categoryRef].answered
  /\ vc[top].correctAnswers = Cardinality(record[categoryRef].right) + extra

\* The questions have been asked for.
Fetching == /\ screen = "quiz" /\ OneFetch /\ anims = <<>> /\ writes = <<>>
            /\ vc[top] = Blank

\* The user's document is being replaced by an empty one.
Setting == /\ screen = "quiz" /\ NoFetch /\ anims = <<>>
           /\ writes = <<[vc |-> top, doc |-> categoryRef, op |-> "set",
                          key |-> 0, correct |-> FALSE]>>
           /\ vc[top].questionNumber = 0
           /\ vc[top].correctAnswers = 0
           /\ ~vc[top].asked

\* The fetch or the replacement has failed: no question is ever asked.
Stuck == /\ screen = "quiz" /\ NoFetch /\ anims = <<>> /\ writes = <<>>
         /\ ~vc[top].asked

\* A question is asked.
Asking == /\ screen = "quiz" /\ NoFetch /\ anims = <<>> /\ writes = <<>>
          /\ vc[top].questionNumber < vc[top].questions
          /\ Recorded(0)

\* The answer is being animated.
Animating == /\ screen = "quiz" /\ NoFetch /\ writes = <<>>
             /\ \E b \in BOOLEAN : anims = <<[vc |-> top, correct |-> b]>>
             /\ vc[top].questionNumber < vc[top].questions
             /\ Recorded(0)

\* The answer is being stored; a right one is already counted.
Storing == /\ screen = "quiz" /\ NoFetch /\ anims = <<>>
           /\ \E b \in BOOLEAN :
                /\ writes = <<[vc |-> top, doc |-> categoryRef,
                               op |-> "update",
                               key |-> vc[top].questionNumber,
                               correct |-> b]>>
                /\ Recorded(IF b THEN 1 ELSE 0)
           /\ vc[top].questionNumber < vc[top].questions

\* The result is on the screen.
Finished == /\ NoFetch /\ anims = <<>> /\ writes = <<>>
            /\ vc[top].questionNumber = vc[top].questions
            /\ score = [right |-> vc[top].correctAnswers,
                        of |-> vc[top].questions]
            /\ \/ screen = "badCategoryIndex"
               \/ screen = "passed" /\ Passes(score)
               \/ screen = "failed" /\ ~Passes(score)
            /\ Recorded(0)

Phase == Fetching \/ Setting \/ Stuck \/ Asking \/ Animating \/ Storing
         \/ Finished

\* The inductive invariant: an orderly attempt is in one of the phases, its
\* controller is on the stack and nothing else is under way.
OrderlyInv ==
  orderly => top \in Controllers /\ ~appearing /\ ~browsing /\ Phase

\* A phase looks at these variables only, so a step that leaves them alone
\* stays in its phase.
LEMMA PhaseStable ==
  ASSUME OrderlyInv, orderly, UNCHANGED vars
  PROVE  top' \in Controllers /\ ~appearing' /\ ~browsing' /\ Phase'
BY DEF OrderlyInv, Phase, Fetching, Setting, Stuck, Asking, Animating,
       Storing, Finished, NoFetch, OneFetch, Recorded, vars

\* Where an orderly attempt can be on the screen.
LEMMA OrderlyScreen ==
  ASSUME OrderlyInv, orderly
  PROVE  screen \in {"quiz", "passed", "failed", "badCategoryIndex"}
BY DEF OrderlyInv, Phase, Fetching, Setting, Stuck, Asking, Animating,
       Storing, Finished

\* Storing the answer to question n in a document that holds the answers to
\* the questions before n.
LEMMA StoreAnswer ==
  ASSUME NEW n \in Nat, NEW right, right \subseteq 0 .. n - 1
  PROVE  /\ (0 .. n - 1) \union {n} = 0 .. n
         /\ Cardinality(right) \in Nat
         /\ right \union {n} \subseteq 0 .. n
         /\ Cardinality(right \union {n}) = Cardinality(right) + 1
         /\ right \ {n} = right
<1>1. IsFiniteSet(0 .. n - 1)
  <2>1. 0 \in Int /\ n - 1 \in Int
    OBVIOUS
  <2> QED BY <2>1, FS_Interval
<1>2. IsFiniteSet(right)
  BY <1>1, FS_Subset
<1>3. n \notin right
  OBVIOUS
<1>4. Cardinality(right) \in Nat
  BY <1>2, FS_CardinalityType
<1>5. Cardinality(right \union {n}) = Cardinality(right) + 1
  BY <1>2, <1>3, FS_AddElement
<1>6. right \ {n} = right
  BY <1>3
<1>7. (0 .. n - 1) \union {n} = 0 .. n
  OBVIOUS
<1> QED BY <1>4, <1>5, <1>6, <1>7

\* nextQuestion of an orderly attempt, whose fields are now q, asks the next
\* question or shows the result.
LEMMA NextQuestionPhase ==
  ASSUME TypeOK, top \in Controllers, ~appearing, screen = "quiz",
         NEW q \in QuizFields, nextQuestion(top, q),
         q.questionNumber <= q.questions
  PROVE  \/ /\ q.questionNumber < q.questions
            /\ screen' = "quiz"
            /\ vc' = [vc EXCEPT ![top] = [q EXCEPT !.asked = TRUE]]
         \/ /\ q.questionNumber = q.questions
            /\ vc' = [vc EXCEPT ![top] = q]
            /\ score' = [right |-> q.correctAnswers, of |-> q.questions]
            /\ \/ screen' = "passed" /\ Passes(score')
               \/ screen' = "failed" /\ ~Passes(score')
BY DEF nextQuestion, QuizFields, Presentable

\* Every step keeps the invariant of an orderly attempt.
LEMMA OrderlyStep ==
  ASSUME TypeOK, OrderlyInv, [Next]_vars
  PROVE  OrderlyInv'
<1> SUFFICES ASSUME orderly'
             PROVE  top' \in Controllers /\ ~appearing' /\ ~browsing' /\ Phase'
  BY DEF OrderlyInv
<1> USE DEF TypeOK, NavigationTypeOK, DataTypeOK
<1>0. orderly =>
        /\ top \in Controllers /\ ~appearing /\ ~browsing /\ Phase
        /\ screen \in {"quiz", "passed", "failed", "badCategoryIndex"}
  BY OrderlyScreen DEF OrderlyInv
<1>1. CASE TakeQuiz \/ SideMenuRoundTrip \/ onRetryQuiz \/ onRetakeQuiz
           \/ onStudyAgain \/ GoBack
  BY <1>1 DEF TakeQuiz, SideMenuRoundTrip, onRetryQuiz, onRetakeQuiz,
              onStudyAgain, GoBack, QuizAppears
<1>2. CASE BrowseCatalog \/ CatalogAnswers \/ ContinueLearning
           \/ MenuViewWillAppear
  BY <1>0, <1>2 DEF BrowseCatalog, CatalogAnswers, ContinueLearning,
                    MenuViewWillAppear
<1>3. CASE onNextCategory
  <2>1. orderly /\ Finished /\ screen = "passed"
    BY <1>0, <1>3 DEF onNextCategory, Phase, Fetching, Setting, Stuck, Asking,
                      Animating, Storing
  <2>2. Finished'
    BY <1>3, <2>1 DEF onNextCategory, Finished, NoFetch, Recorded, catalog,
                      network
  <2> QED BY <1>0, <1>3, <2>1, <2>2 DEF onNextCategory, Phase, catalog
<1>4. CASE QuizViewWillAppear
  <2>1. /\ top' = top /\ top \in Controllers /\ ~appearing' /\ ~browsing'
        /\ screen' = "quiz" /\ Quiescent
        /\ anims' = <<>> /\ writes' = <<>>
    BY <1>4 DEF QuizViewWillAppear, Quiescent, catalog
  <2>2. vc'[top'] = Blank
    BY <1>4, <2>1 DEF QuizViewWillAppear
  <2>3. OneFetch'
    BY <1>4, <2>1 DEF QuizViewWillAppear, Quiescent, OneFetch, catalog
  <2> QED BY <2>1, <2>2, <2>3 DEF Phase, Fetching
<1>5. ASSUME NEW i \in Controllers, NEW c \in Categories,
             GetDocumentsDone(i, c)
      PROVE  top' \in Controllers /\ ~appearing' /\ ~browsing' /\ Phase'
  <2>1. orderly /\ Fetching /\ i = top /\ c = categoryRef
    <3>1. orderly /\ ~NoFetch /\ fetches[i][c] > 0
      BY <1>5 DEF GetDocumentsDone, NoFetch
    <3>2. Fetching
      BY <1>0, <3>1 DEF Phase, Setting, Stuck, Asking, Animating, Storing,
                        Finished
    <3> QED BY <3>1, <3>2 DEF Fetching, OneFetch
  <2>2. NoFetch'
    BY <1>5, <2>1 DEF GetDocumentsDone, Fetching, OneFetch, NoFetch
  <2>3. /\ vc'[top].questionNumber = 0 /\ vc'[top].correctAnswers = 0
        /\ ~vc'[top].asked
    BY <1>5, <2>1 DEF GetDocumentsDone, Fetching, Blank
  <2>4. /\ writes' = <<[vc |-> top, doc |-> categoryRef, op |-> "set",
                        key |-> 0, correct |-> FALSE]>>
        /\ anims' = <<>>
    BY <1>5, <2>1 DEF GetDocumentsDone, Fetching
  <2>5. Setting'
    BY <1>5, <2>1, <2>2, <2>3, <2>4
    DEF GetDocumentsDone, Fetching, Setting, catalog
  <2> QED BY <1>0, <1>5, <2>1, <2>5 DEF GetDocumentsDone, Phase, catalog
<1>6. ASSUME NEW i \in Controllers, NEW c \in Categories,
             GetDocumentsFailed(i, c)
      PROVE  top' \in Controllers /\ ~appearing' /\ ~browsing' /\ Phase'
  <2>1. orderly /\ Fetching /\ i = top /\ c = categoryRef
    BY <1>0, <1>6 DEF GetDocumentsFailed, Phase, Fetching, OneFetch, NoFetch,
                      Setting, Stuck, Asking, Animating, Storing, Finished
  <2>2. NoFetch'
    BY <1>6, <2>1 DEF GetDocumentsFailed, Fetching, OneFetch, NoFetch
  <2>3. Stuck'
    BY <1>6, <2>1, <2>2 DEF GetDocumentsFailed, Fetching, Stuck, Blank
  <2> QED BY <1>0, <1>6, <2>1, <2>3 DEF GetDocumentsFailed, Phase, catalog
<1>7. CASE checkIfCorrect
  <2>1. orderly /\ Asking
    <3>1. /\ orderly /\ vc[top].asked /\ anims = <<>> /\ writes = <<>>
          /\ screen = "quiz"
      BY <1>7 DEF checkIfCorrect
    <3>2. ~Fetching /\ ~Stuck
      BY <3>1 DEF Fetching, Stuck, Blank
    <3>3. ~Setting /\ ~Storing /\ ~Finished /\ ~Animating
      BY <3>1 DEF Setting, Storing, Finished, Animating
    <3> QED BY <1>0, <3>1, <3>2, <3>3 DEF Phase
  <2>2. /\ screen' = "quiz" /\ writes' = <<>>
        /\ \E b \in BOOLEAN : anims' = <<[vc |-> top, correct |-> b]>>
    <3>1. ~(vc[top].questionNumber >= vc[top].questions)
      BY <1>0, <2>1 DEF Asking, QuizFields
    <3>2. /\ screen' = screen /\ writes' = writes
          /\ \E b \in BOOLEAN :
               anims' = Append(anims, [vc |-> top, correct |-> b])
      BY <1>7, <3>1 DEF checkIfCorrect
    <3>3. anims = <<>> /\ writes = <<>> /\ screen = "quiz"
      BY <2>1 DEF Asking
    <3> QED BY <3>2, <3>3
  <2>3. Animating'
    BY <1>7, <2>1, <2>2
    DEF checkIfCorrect, Asking, Animating, NoFetch, Recorded, catalog
  <2> QED BY <1>0, <1>7, <2>1, <2>3 DEF checkIfCorrect, Phase, catalog
<1>8. CASE AnimationDone
  <2>1. orderly /\ Animating
    BY <1>0, <1>8 DEF AnimationDone, Phase, Fetching, Setting, Stuck, Asking,
                      Storing, Finished
  <2>2. PICK b \in BOOLEAN : anims = <<[vc |-> top, correct |-> b]>>
    BY <2>1 DEF Animating
  <2>3. Head(anims) = [vc |-> top, correct |-> b] /\ anims' = <<>>
    BY <1>8, <2>2 DEF AnimationDone
  <2>4. writes' = <<[vc |-> top, doc |-> categoryRef, op |-> "update",
                     key |-> vc[top].questionNumber, correct |-> b]>>
    BY <1>8, <2>1, <2>3 DEF AnimationDone, Animating
  <2>5. vc' = [vc EXCEPT ![top].correctAnswers = IF b THEN @ + 1 ELSE @]
    <3>1. Head(anims).vc = top /\ Head(anims).correct = b
      BY <2>3
    <3>2. vc' = [vc EXCEPT ![Head(anims).vc].correctAnswers =
                             IF Head(anims).correct THEN @ + 1 ELSE @]
      BY <1>8 DEF AnimationDone
    <3> QED BY <3>1, <3>2
  <2>6. /\ vc'[top].questionNumber = vc[top].questionNumber
        /\ vc'[top].questions = vc[top].questions
        /\ vc'[top].correctAnswers =
             vc[top].correctAnswers + (IF b THEN 1 ELSE 0)
    BY <1>0, <2>1, <2>5 DEF QuizFields
  <2>7. /\ screen' = "quiz" /\ top' = top /\ categoryRef' = categoryRef
        /\ record' = record /\ NoFetch'
    BY <1>8, <2>1 DEF AnimationDone, Animating, NoFetch, catalog
  <2>8. (IF b THEN 1 ELSE 0) \in Nat
    OBVIOUS
  <2>9. Recorded(IF b THEN 1 ELSE 0)'
    <3>1. Recorded(0) /\ vc[top].correctAnswers \in Nat
      BY <1>0, <2>1 DEF Animating, QuizFields
    <3>2. Cardinality(record[categoryRef].right) \in Nat
      <4> DEFINE n == vc[top].questionNumber
                 right == record[categoryRef].right
      <4>1. n \in Nat /\ right \subseteq 0 .. n - 1
        BY <1>0, <2>1, <3>1 DEF Recorded, QuizFields
      <4> HIDE DEF n, right
      <4>2. Cardinality(right) \in Nat
        BY <4>1, StoreAnswer
      <4> QED BY <4>2 DEF right
    <3> QED BY <2>6, <2>7, <3>1, <3>2 DEF Recorded
  <2>10. Storing'
    BY <2>1, <2>3, <2>4, <2>6, <2>7, <2>9 DEF Animating, Storing
  <2> QED BY <1>0, <1>8, <2>1, <2>10 DEF AnimationDone, Phase, catalog
<1>9. CASE WriteFailed
  <2>1. orderly /\ ~Head(writes).correct /\ writes # <<>>
    BY <1>9 DEF WriteFailed
  <2>2. /\ top' = top /\ vc' = vc /\ screen' = screen /\ anims' = anims
        /\ categoryRef' = categoryRef /\ record' = record
        /\ fetches' = fetches /\ writes' = Tail(writes)
        /\ appearing' = appearing /\ browsing' = browsing
    BY <1>9 DEF WriteFailed, catalog
  <2>3. Setting \/ Storing
    BY <1>0, <2>1 DEF Phase, Fetching, Stuck, Asking, Animating, Finished
  <2>4. ASSUME Setting PROVE Stuck'
    BY <2>2, <2>4 DEF Setting, Stuck, NoFetch
  <2>5. ASSUME Storing PROVE Asking'
    <3>1. PICK b \in BOOLEAN :
                 /\ writes = <<[vc |-> top, doc |-> categoryRef,
                                op |-> "update",
                                key |-> vc[top].questionNumber,
                                correct |-> b]>>
                 /\ Recorded(IF b THEN 1 ELSE 0)
      BY <2>5 DEF Storing
    <3>2. ~b
      BY <2>1, <3>1
    <3>3. Recorded(0)
      BY <3>1, <3>2
    <3>4. writes' = <<>>
      BY <2>2, <3>1
    <3>5. Recorded(0)'
      BY <2>2, <3>3 DEF Recorded
    <3> QED BY <2>2, <2>5, <3>4, <3>5 DEF Storing, Asking, NoFetch
  <2> QED BY <1>0, <2>1, <2>2, <2>3, <2>4, <2>5 DEF Phase
<1>10. CASE WriteDone
  <2> DEFINE w == Head(writes)
             q == IF w.op = "set" THEN vc[w.vc]
                  ELSE [vc[w.vc] EXCEPT !.questionNumber = @ + 1]
  <2>1. orderly /\ writes # <<>> /\ writes' = Tail(writes)
        /\ top' = top /\ categoryRef' = categoryRef
        /\ fetches' = fetches /\ anims' = anims
        /\ appearing' = appearing /\ browsing' = browsing
        /\ record' = [record EXCEPT ![w.doc] = Committed(w, record[w.doc])]
        /\ nextQuestion(w.vc, q)
    BY <1>10 DEF WriteDone, catalog
  <2>2. Setting \/ Storing
    BY <1>0, <2>1 DEF Phase, Fetching, Stuck, Asking, Animating, Finished
  <2>3. /\ top \in Controllers /\ ~appearing /\ screen = "quiz"
        /\ vc[top] \in QuizFields
        /\ NoFetch' /\ anims' = <<>> /\ w.vc = top /\ w.doc = categoryRef
        /\ writes' = <<>>
    BY <1>0, <2>1, <2>2 DEF Setting, Storing, NoFetch
  <2>4. /\ q \in QuizFields /\ q.questionNumber <= q.questions
        /\ LET r == record'[categoryRef]
           IN /\ r.exists /\ r.answered = 0 .. q.questionNumber - 1
              /\ r.right \subseteq r.answered
              /\ q.correctAnswers = Cardinality(r.right) + 0
    <3>1. CASE Setting
      <4>1. w.op = "set" /\ q = vc[top]
        BY <2>3, <3>1 DEF Setting
      <4>2. record'[categoryRef] = EmptyRecord
        BY <2>1, <2>3, <4>1 DEF Committed
      <4>3. vc[top].questionNumber = 0 /\ vc[top].correctAnswers = 0
        BY <3>1 DEF Setting
      <4>4. Cardinality({}) = 0
        BY FS_EmptySet
      <4> HIDE DEF q
      <4> QED BY <2>3, <4>1, <4>2, <4>3, <4>4 DEF EmptyRecord, QuizFields
    <3>2. CASE Storing
      <4>1. PICK b \in BOOLEAN :
                   /\ writes = <<[vc |-> top, doc |-> categoryRef,
                                  op |-> "update",
                                  key |-> vc[top].questionNumber,
                                  correct |-> b]>>
                   /\ Recorded(IF b THEN 1 ELSE 0)
        BY <3>2 DEF Storing
      <4> DEFINE n == vc[top].questionNumber
                 old == record[categoryRef]
                 new == IF b THEN old.right \union {n} ELSE old.right \ {n}
      <4>2. w.op = "update" /\ w.key = n /\ w.correct = b
        BY <4>1
      <4>a. q = [vc[top] EXCEPT !.questionNumber = n + 1]
        <5>1. q = [vc[w.vc] EXCEPT !.questionNumber = @ + 1]
          BY <4>2
        <5> HIDE DEF q, w
        <5> QED BY <2>3, <5>1
      <4> HIDE DEF q
      <4>3. /\ q \in QuizFields /\ q.questionNumber = n + 1 /\ n \in Nat
            /\ q.correctAnswers = vc[top].correctAnswers
            /\ q.questions = vc[top].questions
        <5>1. n + 1 \in Nat /\ n \in Nat
          BY <2>3 DEF QuizFields
        <5> HIDE DEF n
        <5> QED BY <2>3, <4>a, <5>1 DEF QuizFields
      <4>4. n < vc[top].questions
        BY <3>2 DEF Storing
      <4>5. record'[categoryRef] =
              [exists |-> TRUE, answered |-> old.answered \union {n},
               right |-> new]
        BY <2>1, <2>3, <4>2 DEF Committed
      <4>6. /\ old.answered = 0 .. n - 1 /\ old.right \subseteq 0 .. n - 1
            /\ vc[top].correctAnswers =
                 Cardinality(old.right) + (IF b THEN 1 ELSE 0)
        BY <4>1 DEF Recorded
      <4> HIDE DEF n, old
      <4>b. new = IF b THEN old.right \union {n} ELSE old.right \ {n}
        OBVIOUS
      <4> HIDE DEF new
      <4>7. /\ (0 .. n - 1) \union {n} = 0 .. n
            /\ new \subseteq 0 .. n
            /\ Cardinality(new) =
                 Cardinality(old.right) + (IF b THEN 1 ELSE 0)
        <5> DEFINE rt == old.right
        <5>1. /\ n \in Nat /\ rt \subseteq 0 .. n - 1
              /\ new = IF b THEN rt \union {n} ELSE rt \ {n}
          BY <4>3, <4>6, <4>b
        <5> HIDE DEF rt
        <5>2. /\ (0 .. n - 1) \union {n} = 0 .. n
              /\ new \subseteq 0 .. n
              /\ Cardinality(new) =
                   Cardinality(rt) + (IF b THEN 1 ELSE 0)
          <6>1. /\ (0 .. n - 1) \union {n} = 0 .. n
                /\ Cardinality(rt) \in Nat
                /\ rt \union {n} \subseteq 0 .. n
                /\ Cardinality(rt \union {n}) = Cardinality(rt) + 1
                /\ rt \ {n} = rt
            BY <5>1, StoreAnswer
          <6>2. CASE b
            <7>1. new = rt \union {n}
              BY <5>1, <6>2
            <7> QED BY <6>1, <6>2, <7>1
          <6>3. CASE ~b
            <7>1. new = rt
              BY <5>1, <6>1, <6>3
            <7>2. Cardinality(new) = Cardinality(rt) + 0
              BY <6>1, <7>1
            <7>3. new \subseteq 0 .. n
              BY <6>1, <7>1
            <7> QED BY <6>1, <6>3, <7>2, <7>3
          <6> QED BY <6>2, <6>3
        <5> QED BY <5>2 DEF rt
      <4>8. q.correctAnswers = Cardinality(new) /\ q.correctAnswers \in Nat
        BY <4>3, <4>6, <4>7 DEF QuizFields
      <4>9. 0 .. q.questionNumber - 1 = 0 .. n
        BY <4>3
      <4>10. q.questionNumber <= q.questions
        BY <2>3, <4>3, <4>4 DEF QuizFields
      <4> QED BY <4>3, <4>5, <4>6, <4>7, <4>8, <4>9, <4>10
    <3> QED BY <2>2, <3>1, <3>2
  <2> HIDE DEF q, w
  <2>5. \/ /\ q.questionNumber < q.questions
           /\ screen' = "quiz"
           /\ vc' = [vc EXCEPT ![top] = [q EXCEPT !.asked = TRUE]]
        \/ /\ q.questionNumber = q.questions
           /\ vc' = [vc EXCEPT ![top] = q]
           /\ score' = [right |-> q.correctAnswers, of |-> q.questions]
           /\ \/ screen' = "passed" /\ Passes(score')
              \/ screen' = "failed" /\ ~Passes(score')
    BY <2>1, <2>3, <2>4, NextQuestionPhase
  <2>6. /\ vc'[top].questionNumber = q.questionNumber
        /\ vc'[top].questions = q.questions
        /\ vc'[top].correctAnswers = q.correctAnswers
    BY <2>3, <2>4, <2>5 DEF QuizFields
  <2>7. Recorded(0)'
    BY <2>1, <2>4, <2>6 DEF Recorded
  <2>8. Asking' \/ Finished'
    <3>1. CASE q.questionNumber < q.questions
      BY <2>1, <2>3, <2>4, <2>5, <2>6, <2>7, <3>1 DEF Asking, QuizFields
    <3>2. CASE q.questionNumber = q.questions
      <4>1. (Passes(score))' = Passes(score')
        BY DEF Passes
      <4> QED BY <2>1, <2>3, <2>4, <2>5, <2>6, <2>7, <3>2, <4>1
              DEF Finished, QuizFields
    <3> QED BY <2>4, <3>1, <3>2 DEF QuizFields
  <2> QED BY <1>0, <2>1, <2>3, <2>8 DEF Phase
<1>11. CASE UNCHANGED vars
  <2>1. orderly
    BY <1>11 DEF vars
  <2> QED BY <1>11, <2>1, PhaseStable
<1> QED
  BY <1>1, <1>2, <1>3, <1>4, <1>5, <1>6, <1>7, <1>8, <1>9, <1>10, <1>11
  DEF Next, Student, System

\* The inductive invariant holds throughout.
LEMMA OrderlyInvariant == Spec => [](TypeOK /\ OrderlyInv)
<1>1. Init => OrderlyInv
  BY DEF Init, OrderlyInv
<1>2. TypeOK /\ OrderlyInv /\ [Next]_vars => TypeOK' /\ OrderlyInv'
  BY TypeStep, OrderlyStep
<1> QED BY TypeInit, <1>1, <1>2, PTL DEF Spec

\* The percentage an orderly attempt ends with is the share of right answers
\* its document holds, with an answer stored for every question: nextQuestion
\* and storeQuestionResult keep correctAnswers and the database in step
\* through every interleaving of completions, for any quiz.
THEOREM ResultCorrect == Spec => []ResultMatchesRecord
<1>1. TypeOK /\ OrderlyInv => ResultMatchesRecord
  <2> SUFFICES ASSUME TypeOK, OrderlyInv, orderly,
                      screen \in {"passed", "failed"}
               PROVE  /\ score.of = vc[top].questions
                      /\ record[categoryRef].answered = 0 .. score.of - 1
                      /\ score.right = Cardinality(record[categoryRef].right)
                      /\ screen = "passed" <=> Passes(score)
    BY DEF ResultMatchesRecord
  <2>1. Finished /\ top \in Controllers
    BY DEF OrderlyInv, Phase, Fetching, Setting, Stuck, Asking, Animating,
           Storing
  <2>2. /\ score.of = vc[top].questions
        /\ score.right = vc[top].correctAnswers
        /\ vc[top].questionNumber = vc[top].questions
        /\ Recorded(0)
        /\ screen = "passed" <=> Passes(score)
    BY <2>1 DEF Finished
  <2>3. record[categoryRef].answered = 0 .. score.of - 1
    BY <2>2 DEF Recorded
  <2>4. vc[top].correctAnswers = Cardinality(record[categoryRef].right)
    <3> DEFINE n == vc[top].questionNumber
               right == record[categoryRef].right
    <3>1. n \in Nat /\ right \subseteq 0 .. n - 1
      BY <2>1, <2>2 DEF Recorded, QuizFields, TypeOK, DataTypeOK
    <3> HIDE DEF n, right
    <3>2. Cardinality(right) \in Nat
      BY <3>1, StoreAnswer
    <3>3. vc[top].correctAnswers = Cardinality(right) + 0
      BY <2>2 DEF Recorded, right
    <3> QED BY <3>2, <3>3 DEF right
  <2> QED BY <2>2, <2>3, <2>4
<1> QED BY <1>1, OrderlyInvariant, PTL

\* An orderly student never meets an index out of range in checkIfCorrect or
\* nextQuestion, for any quiz, the empty one included.
THEOREM OrderlySafe == Spec => []OrderlyNeverTraps
<1>1. OrderlyInv => OrderlyNeverTraps
  BY DEF OrderlyNeverTraps, OrderlyInv, Phase, Fetching, Setting, Stuck,
         Asking, Animating, Storing, Finished
<1> QED BY <1>1, OrderlyInvariant, PTL

\* The flag that takes the student from a failed quiz to the lessons never
\* outlives the way there: onStudyAgain sets it, the quiz's viewWillAppear
\* passes it on and the menu's clears it, whatever completions run between.
THEOREM DismissCorrect == Spec => []DismissFlagIsTransient
<1>1. Init => DismissFlagIsTransient
  BY DEF Init, DismissFlagIsTransient
<1>2. ASSUME TypeOK, DismissFlagIsTransient, [Next]_vars
      PROVE  DismissFlagIsTransient'
  <2> USE <1>2 DEF DismissFlagIsTransient
  <2>1. CASE WriteDone
    <3> DEFINE w == Head(writes)
               q == IF w.op = "set" THEN vc[w.vc]
                    ELSE [vc[w.vc] EXCEPT !.questionNumber = @ + 1]
    <3>1. w \in Writes
      BY <2>1 DEF TypeOK, DataTypeOK, WriteDone
    <3>2. w.vc \in Controllers /\ vc[w.vc] \in QuizFields
      BY <3>1 DEF TypeOK, DataTypeOK, Writes
    <3>3. q \in QuizFields
      BY <3>2 DEF QuizFields
    <3>4. nextQuestion(w.vc, q)
      BY <2>1 DEF WriteDone
    <3> HIDE DEF w, q
    <3>5. screen' \notin Traps =>
            screen' = screen \/ (screen = "quiz" /\ ~appearing)
      BY <3>2, <3>3, <3>4, NextQuestionTypes
    <3>6. /\ dismissQuiz' = dismissQuiz /\ appearing' = appearing
          /\ screen \notin Traps
      BY <2>1 DEF WriteDone, Alive
    <3> QED BY <3>5, <3>6
  <2>2. CASE TakeQuiz \/ SideMenuRoundTrip \/ BrowseCatalog \/ onRetryQuiz
             \/ onRetakeQuiz \/ onStudyAgain \/ onNextCategory \/ GoBack \/ ContinueLearning
    BY <2>2 DEF TakeQuiz, SideMenuRoundTrip, BrowseCatalog, onRetryQuiz,
                onRetakeQuiz, onStudyAgain, onNextCategory, GoBack, ContinueLearning,
                QuizAppears, Traps
  <2>3. CASE checkIfCorrect
    BY <2>3 DEF checkIfCorrect, Traps
  <2>4. CASE QuizViewWillAppear
    BY <2>4 DEF QuizViewWillAppear, Traps
  <2>5. CASE MenuViewWillAppear
    BY <2>5 DEF MenuViewWillAppear
  <2>6. CASE CatalogAnswers \/ AnimationDone \/ WriteFailed \/ UNCHANGED vars
    BY <2>6 DEF CatalogAnswers, AnimationDone, WriteFailed, vars
  <2>7. ASSUME NEW i \in Controllers, NEW c \in Categories,
               GetDocumentsDone(i, c) \/ GetDocumentsFailed(i, c)
        PROVE  DismissFlagIsTransient'
    BY <2>7 DEF GetDocumentsDone, GetDocumentsFailed
  <2> QED BY <2>1, <2>2, <2>3, <2>4, <2>5, <2>6, <2>7
          DEF Next, Student, System
<1> QED BY <1>1, <1>2, TypeCorrect, PTL DEF Spec
=============================================================================
