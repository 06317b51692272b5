-------------------------------- MODULE Quiz --------------------------------
(***************************************************************************)
(* The quiz of a category: QuizViewController, the two result screens it   *)
(* presents (PassedQuizViewController, FailedQuizViewController) and the   *)
(* ITS menu below it, on one device.                                       *)
(*                                                                         *)
(* Everything runs on the main thread, so a handler is one step; what      *)
(* interleaves is the student, UIKit's viewWillAppear calls, the answer    *)
(* animations and the completions of Firestore calls.  A controller that   *)
(* has left the screen is kept alive by its pending completions, which go  *)
(* on working on its fields, on the globals and on the database.           *)
(***************************************************************************)
EXTENDS Integers, Sequences, FiniteSets

CONSTANTS
  Categories,      \* categories of lessons, each with a quiz
  QuizSize,        \* documents in each category's "Quiz" collection
  MaxVisits,       \* bound: QuizViewControllers created ("Take Quiz")
  MaxAppearances,  \* bound: viewWillAppear calls of QuizViewControllers
  MaxOutstanding,  \* bound: answers and writes the student leaves in flight
  MaxCorrect,      \* bound: right answers counted when the student stops
  MaxErrors        \* bound: Firestore calls that fail

ASSUME QuizAssumption ==
  /\ QuizSize \in [Categories -> Nat]
  /\ MaxVisits \in Nat
  /\ MaxAppearances \in Nat
  /\ MaxOutstanding \in Nat
  /\ MaxCorrect \in Nat
  /\ MaxErrors \in Nat

VARIABLES
  screen,       \* what is shown; an index trap ends the app
  appearing,    \* UIKit still has to call viewWillAppear of the screen
  top,          \* the QuizViewController on the navigation stack, 0 if none
  vc,           \* fields of each QuizViewController
  visits,       \* QuizViewControllers created so far
  appearances,  \* viewWillAppear calls asked for so far
  dismissQuiz,  \* global: leave the quiz for the lessons
  score,        \* global: the last result, right answers of questions
  categoryRef,  \* global: the category whose quiz is taken
  browsing,     \* the catalog waits for the answer that opens a lesson
  fetches,      \* getDocuments calls pending, per controller and category
  anims,        \* answer animations running, oldest first
  writes,       \* Firestore writes not yet acknowledged, oldest first
  record,       \* the user's document for each quiz in the database
  errors,       \* failed calls so far
  orderly       \* history: the attempt on the screen began with nothing
                \* pending, each question was answered once, when asked, and
                \* no right answer failed to be stored

vars == <<screen, appearing, top, vc, visits, appearances, dismissQuiz, score,
          categoryRef, browsing, fetches, anims, writes, record, errors,
          orderly>>

catalog == <<categoryRef, browsing>>

network == <<fetches, anims, writes, record, errors>>

Controllers == 1..MaxVisits

Screens == {"menu", "its", "quiz", "passed", "failed",
            "badQuestionIndex", "badCategoryIndex"}

Traps == {"badQuestionIndex", "badCategoryIndex"}

\* A trap ends the application, and with it every completion.
Alive == screen \notin Traps

QuizFields == [questions: Nat, questionNumber: Nat, correctAnswers: Nat,
               asked: BOOLEAN]

\* Mutant: numbered from -1, for a nextQuestion that would count up first.
Blank_FromMinusOne == [questions |-> 0, questionNumber |-> -1,
                       correctAnswers |-> 0, asked |-> FALSE]

\* The fields as viewWillAppear leaves them.  asked is FALSE while options
\* holds the letters "A".."D", which match no answer.
Blank == [questions |-> 0, questionNumber |-> 0, correctAnswers |-> 0,
          asked |-> FALSE]

Answers == [vc: Controllers, correct: BOOLEAN]

Writes == [vc: Controllers, doc: Categories, op: {"set", "update"}, key: Nat,
           correct: BOOLEAN]

Records == [exists: BOOLEAN, answered: SUBSET Nat, right: SUBSET Nat]

EmptyRecord == [exists |-> TRUE, answered |-> {}, right |-> {}]

\* A score as the fraction it is computed from; 0 % is 0 of 1.
Scores == [right: Nat, of: Nat]

\* score > 75, with Float's answers for a division by zero: 0/0 is not a
\* number and fails, n/0 is infinite and passes.
Passes(s) == 100 * s.right > 75 * s.of

\* No call of an earlier attempt, and no catalog query, is pending.
Quiescent == /\ \A i \in Controllers, c \in Categories : fetches[i][c] = 0
             /\ anims = <<>>
             /\ writes = <<>>
             /\ ~browsing

-----------------------------------------------------------------------------
Init ==
  /\ screen = "menu"
  /\ appearing = FALSE
  /\ top = 0
  /\ vc = [i \in Controllers |-> Blank]
  /\ visits = 0
  /\ appearances = 0
  /\ dismissQuiz = FALSE
  /\ score = [right |-> 0, of |-> 1]
  /\ categoryRef \in Categories
  /\ browsing = FALSE
  /\ fetches = [i \in Controllers |-> [c \in Categories |-> 0]]
  /\ anims = <<>>
  /\ writes = <<>>
  /\ record = [c \in Categories |->
                 [exists |-> FALSE, answered |-> {}, right |-> {}]]
  /\ errors = 0
  /\ orderly = FALSE

-----------------------------------------------------------------------------
(* Navigation.                                                             *)

\* UIKit will call the quiz's viewWillAppear: an attempt on it is over.
QuizAppears ==
  /\ appearances < MaxAppearances
  /\ appearances' = appearances + 1
  /\ screen' = "quiz"
  /\ appearing' = TRUE
  /\ orderly' = FALSE

\* "Take Quiz" pushes a new QuizViewController.
TakeQuiz ==
  /\ screen = "menu" /\ ~appearing
  /\ visits < MaxVisits
  /\ visits' = visits + 1
  /\ top' = visits + 1
  /\ QuizAppears
  /\ UNCHANGED <<vc, dismissQuiz, score, catalog, network>>

\* The student opens another screen from the side menu and comes back: the
\* cached navigation controller is shown again with the quiz still on top.
\* In the catalog the student may have asked for a lesson.
SideMenuRoundTrip ==
  /\ screen = "quiz" /\ ~appearing
  /\ QuizAppears
  /\ browsing' \in {browsing, TRUE}
  /\ UNCHANGED <<top, vc, visits, dismissQuiz, score, categoryRef, network>>

\* The same from the ITS menu or from the lessons.
BrowseCatalog ==
  /\ screen \in {"menu", "its"} /\ ~appearing
  /\ browsing' = TRUE
  /\ UNCHANGED <<screen, appearing, top, vc, visits, appearances, dismissQuiz,
                 score, categoryRef, network, orderly>>

\* The catalog's query finds videos: the lesson's category becomes the
\* global one, whatever is on the screen by then.
CatalogAnswers ==
  /\ Alive /\ browsing
  /\ browsing' = FALSE
  /\ categoryRef' \in Categories
  /\ UNCHANGED <<screen, appearing, top, vc, visits, appearances, dismissQuiz,
                 score, network, orderly>>

\* Dismissing the result screen shows the quiz below it again.
onRetryQuiz ==
  /\ screen = "failed"
  /\ QuizAppears
  /\ UNCHANGED <<top, vc, visits, dismissQuiz, score, catalog, network>>

onRetakeQuiz ==
  /\ screen = "passed"
  /\ QuizAppears
  /\ UNCHANGED <<top, vc, visits, dismissQuiz, score, catalog, network>>

onStudyAgain ==
  /\ screen = "failed"
  /\ dismissQuiz' = TRUE
  /\ QuizAppears
  /\ UNCHANGED <<top, vc, visits, score, catalog, network>>

\* categories is never filled, so categories[categoryNumber] is out of range.
onNextCategory ==
  /\ screen = "passed"
  /\ screen' = "badCategoryIndex"
  /\ UNCHANGED <<appearing, top, vc, visits, appearances, dismissQuiz, score,
                 catalog, network, orderly>>

\* The back button of the navigation bar, from the quiz or from the lessons.
GoBack ==
  /\ screen \in {"quiz", "its"} /\ ~appearing
  /\ screen' = "menu"
  /\ appearing' = TRUE
  /\ top' = 0
  /\ orderly' = FALSE
  /\ UNCHANGED <<vc, visits, appearances, dismissQuiz, score, catalog, network>>

ContinueLearning ==
  /\ screen = "menu" /\ ~appearing
  /\ screen' = "its"
  /\ UNCHANGED <<appearing, top, vc, visits, appearances, dismissQuiz, score,
                 catalog, network, orderly>>

\* Mutant: the right answers of the last attempt are kept.
QuizViewWillAppear_KeepsCount ==
  /\ screen = "quiz" /\ appearing
  /\ vc' = [vc EXCEPT ![top] = [Blank EXCEPT !.correctAnswers =
                                   vc[top].correctAnswers]]
  /\ score' = [right |-> 0, of |-> 1]
  /\ fetches' = [fetches EXCEPT ![top][categoryRef] = @ + 1]
  /\ screen' = IF dismissQuiz THEN "menu" ELSE screen
  /\ top' = IF dismissQuiz THEN 0 ELSE top
  /\ appearing' = dismissQuiz
  /\ orderly' = (~dismissQuiz /\ Quiescent)
  /\ UNCHANGED <<visits, appearances, dismissQuiz, catalog, anims, writes,
                 record, errors>>

\* The flag pops the controller, but the rest of the method still runs: the
\* fields are reset and the questions are fetched for a quiz nobody sees.
\* History: an attempt begins orderly if no call of an earlier one is pending.
QuizViewWillAppear ==
  /\ screen = "quiz" /\ appearing
  /\ vc' = [vc EXCEPT ![top] = Blank]
  /\ score' = [right |-> 0, of |-> 1]
  /\ fetches' = [fetches EXCEPT ![top][categoryRef] = @ + 1]
  /\ \/ /\ dismissQuiz
        /\ screen' = "menu"
        /\ top' = 0
        /\ orderly' = FALSE
        /\ UNCHANGED appearing
     \/ /\ ~dismissQuiz
        /\ appearing' = FALSE
        /\ orderly' = Quiescent
        /\ UNCHANGED <<screen, top>>
  /\ UNCHANGED <<visits, appearances, dismissQuiz, catalog, anims, writes,
                 record, errors>>

\* Mutant: the flag stays set when the lessons are opened.
MenuViewWillAppear_KeepsFlag ==
  /\ screen = "menu" /\ appearing
  /\ appearing' = FALSE
  /\ screen' = IF dismissQuiz THEN "its" ELSE "menu"
  /\ UNCHANGED <<top, vc, visits, appearances, dismissQuiz, score, catalog,
                 network, orderly>>

\* Mutant: the flag is cleared and the lessons are not opened.
MenuViewWillAppear_NoSegue ==
  /\ screen = "menu" /\ appearing
  /\ appearing' = FALSE
  /\ dismissQuiz' = FALSE
  /\ UNCHANGED <<screen, top, vc, visits, appearances, score, catalog, network,
                 orderly>>

\* ITSMenuViewController.viewWillAppear.
MenuViewWillAppear ==
  /\ screen = "menu" /\ appearing
  /\ appearing' = FALSE
  /\ dismissQuiz' = FALSE
  /\ screen' = IF dismissQuiz THEN "its" ELSE "menu"
  /\ UNCHANGED <<top, vc, visits, appearances, score, catalog, network, orderly>>

-----------------------------------------------------------------------------
(* Questions and answers.                                                  *)

\* performSegue presents a result only over a quiz that is on the screen.
Presentable(i) == screen = "quiz" /\ ~appearing /\ i = top

\* Mutant: the end is looked for one question too late.
nextQuestion_OneMore(i, q) ==
  \/ /\ q.questionNumber = q.questions + 1
     /\ vc' = [vc EXCEPT ![i] = q]
     /\ score' = [right |-> q.correctAnswers, of |-> q.questions]
     /\ screen' = IF ~Presentable(i) THEN screen
                  ELSE IF Passes(score') THEN "passed" ELSE "failed"
  \/ /\ q.questionNumber < q.questions
     /\ vc' = [vc EXCEPT ![i] = [q EXCEPT !.asked = TRUE]]
     /\ UNCHANGED <<score, screen>>
  \/ /\ q.questionNumber = q.questions
     /\ screen' = "badQuestionIndex"
     /\ UNCHANGED <<vc, score>>

\* nextQuestion of controller i whose fields are now q.
nextQuestion(i, q) ==
  \/ /\ q.questionNumber = q.questions
     /\ vc' = [vc EXCEPT ![i] = q]
     /\ score' = [right |-> q.correctAnswers, of |-> q.questions]
     /\ screen' = IF ~Presentable(i) THEN screen
                  ELSE IF Passes(score') THEN "passed" ELSE "failed"
  \/ /\ q.questionNumber < q.questions
     /\ vc' = [vc EXCEPT ![i] = [q EXCEPT !.asked = TRUE]]
     /\ UNCHANGED <<score, screen>>
  \/ /\ q.questionNumber > q.questions
     /\ screen' = "badQuestionIndex"
     /\ UNCHANGED <<vc, score>>

\* getDocuments answers, with the collection or, offline with nothing
\* cached, with no document; the documents are appended to the field.
\* The user's document that is replaced is the one of the category that is
\* the global one now.
GetDocumentsDone(i, c) ==
  /\ Alive /\ fetches[i][c] > 0
  /\ fetches' = [fetches EXCEPT ![i][c] = @ - 1]
  /\ \E docs \in {0, QuizSize[c]} :
       vc' = [vc EXCEPT ![i].questions = @ + docs]
  /\ writes' = Append(writes, [vc |-> i, doc |-> categoryRef, op |-> "set",
                               key |-> 0, correct |-> FALSE])
  /\ UNCHANGED <<screen, appearing, top, visits, appearances, dismissQuiz,
                 score, catalog, anims, record, errors, orderly>>

GetDocumentsFailed(i, c) ==
  /\ Alive /\ fetches[i][c] > 0
  /\ errors < MaxErrors
  /\ errors' = errors + 1
  /\ fetches' = [fetches EXCEPT ![i][c] = @ - 1]
  /\ UNCHANGED <<screen, appearing, top, vc, visits, appearances, dismissQuiz,
                 score, catalog, anims, writes, record, orderly>>

\* onA, onB, onC and onD.  The buttons are never disabled.  History: an
\* orderly student answers a question that is asked, once, and waits.
checkIfCorrect ==
  /\ screen = "quiz" /\ ~appearing
  /\ Len(anims) + Len(writes) < MaxOutstanding
  /\ vc[top].correctAnswers < MaxCorrect
  /\ LET q == vc[top] IN
     /\ \/ /\ q.questionNumber >= q.questions
           /\ screen' = "badQuestionIndex"
           /\ UNCHANGED anims
        \/ /\ q.questionNumber < q.questions
           /\ \E correct \in (IF q.asked THEN BOOLEAN ELSE {FALSE}) :
                anims' = Append(anims, [vc |-> top, correct |-> correct])
           /\ UNCHANGED screen
     /\ orderly' = (orderly /\ q.asked /\ anims = <<>> /\ writes = <<>>)
  /\ UNCHANGED <<appearing, top, vc, visits, appearances, dismissQuiz, score,
                 catalog, fetches, writes, record, errors>>

\* The completion of the animation, storeQuestionResult included: the key is
\* the number of the question that is current now.
AnimationDone ==
  /\ Alive /\ anims # <<>>
  /\ LET a == Head(anims) IN
     /\ vc' = [vc EXCEPT ![a.vc].correctAnswers =
                             IF a.correct THEN @ + 1 ELSE @]
     /\ writes' = Append(writes, [vc |-> a.vc, doc |-> categoryRef,
                                  op |-> "update",
                                  key |-> vc[a.vc].questionNumber,
                                  correct |-> a.correct])
  /\ anims' = Tail(anims)
  /\ UNCHANGED <<screen, appearing, top, visits, appearances, dismissQuiz,
                 score, catalog, fetches, record, errors, orderly>>

\* What a write makes of the user's document r (Firestore).
Committed(w, r) ==
  IF w.op = "set" THEN EmptyRecord
  ELSE [exists |-> TRUE,
        answered |-> r.answered \union {w.key},
        right |-> IF w.correct THEN r.right \union {w.key}
                               ELSE r.right \ {w.key}]

\* Mutant: the question number is not advanced.
WriteDone_SameQuestion ==
  /\ Alive /\ writes # <<>>
  /\ LET w == Head(writes)
     IN /\ w.op = "update" => record[w.doc].exists
        /\ record' = [record EXCEPT ![w.doc] = Committed(w, @)]
        /\ nextQuestion(w.vc, vc[w.vc])
  /\ writes' = Tail(writes)
  /\ UNCHANGED <<appearing, top, visits, appearances, dismissQuiz, catalog,
                 fetches, anims, errors, orderly>>

\* Completion without error of setData or updateData.
WriteDone ==
  /\ Alive /\ writes # <<>>
  /\ LET w == Head(writes)
         q == vc[w.vc]
     IN /\ w.op = "update" => record[w.doc].exists
        /\ record' = [record EXCEPT ![w.doc] = Committed(w, @)]
        /\ nextQuestion(w.vc,
             IF w.op = "set" THEN q
             ELSE [q EXCEPT !.questionNumber = @ + 1])
  /\ writes' = Tail(writes)
  /\ UNCHANGED <<appearing, top, visits, appearances, dismissQuiz, catalog,
                 fetches, anims, errors, orderly>>

\* Completion with an error: it is printed, and the question stays.  An
\* update of a document that does not exist always fails.  History: the
\* right answer is counted although it is not stored.
WriteFailed ==
  /\ Alive /\ writes # <<>>
  /\ LET w == Head(writes) IN
     /\ \/ /\ w.op = "update" /\ ~record[w.doc].exists
           /\ UNCHANGED errors
        \/ /\ errors < MaxErrors
           /\ errors' = errors + 1
     /\ orderly' = (orderly /\ ~w.correct)
  /\ writes' = Tail(writes)
  /\ UNCHANGED <<screen, appearing, top, vc, visits, appearances, dismissQuiz,
                 score, catalog, fetches, anims, record>>

-----------------------------------------------------------------------------
Student == \/ TakeQuiz
           \/ SideMenuRoundTrip
           \/ BrowseCatalog
           \/ onRetryQuiz
           \/ onRetakeQuiz
           \/ onStudyAgain
           \/ onNextCategory
           \/ GoBack
           \/ ContinueLearning
           \/ checkIfCorrect

System == \/ QuizViewWillAppear
          \/ MenuViewWillAppear
          \/ CatalogAnswers
          \/ \E i \in Controllers, c \in Categories :
               GetDocumentsDone(i, c) \/ GetDocumentsFailed(i, c)
          \/ AnimationDone
          \/ WriteDone
          \/ WriteFailed

Next == Student \/ System

Spec == Init /\ [][Next]_vars

\* UIKit keeps calling viewWillAppear and running animations, and a connected
\* Firestore client retries a call until the server has answered it; nothing
\* is assumed of the student.
FairSpec ==
  /\ Spec
  /\ WF_vars(QuizViewWillAppear)
  /\ WF_vars(MenuViewWillAppear)
  /\ WF_vars(AnimationDone)
  /\ WF_vars(WriteDone \/ WriteFailed)
  /\ \A i \in Controllers, c \in Categories :
       WF_vars(GetDocumentsDone(i, c) \/ GetDocumentsFailed(i, c))

-----------------------------------------------------------------------------
NavigationTypeOK ==
  /\ screen \in Screens
  /\ appearing \in BOOLEAN
  /\ top \in 0..MaxVisits
  /\ visits \in 0..MaxVisits
  /\ appearances \in Nat
  /\ dismissQuiz \in BOOLEAN
  /\ categoryRef \in Categories
  /\ browsing \in BOOLEAN
  /\ orderly \in BOOLEAN
  /\ screen \in {"quiz", "passed", "failed"} => top \in Controllers

DataTypeOK ==
  /\ vc \in [Controllers -> QuizFields]
  /\ score \in Scores
  /\ fetches \in [Controllers -> [Categories -> Nat]]
  /\ anims \in Seq(Answers)
  /\ writes \in Seq(Writes)
  /\ record \in [Categories -> Records]
  /\ errors \in Nat

\* The types; and a QuizViewController is on the navigation stack whenever
\* the quiz or a result is on the screen.
TypeOK == NavigationTypeOK /\ DataTypeOK

\* The percentage on the result screen of an orderly attempt is the share of
\* right answers the user's document holds, with one answer stored for every
\* question (nextQuestion, storeQuestionResult).
ResultMatchesRecord ==
  orderly /\ screen \in {"passed", "failed"} =>
    /\ score.of = vc[top].questions
    /\ record[categoryRef].answered = 0 .. score.of - 1
    /\ score.right = Cardinality(record[categoryRef].right)
    /\ screen = "passed" <=> Passes(score)

\* An orderly student never makes checkIfCorrect or nextQuestion index the
\* questions out of range.
OrderlyNeverTraps == orderly => screen # "badQuestionIndex"

\* dismissQuiz is only set while UIKit is on its way from the result screen
\* through the quiz to the ITS menu: no later visit of the quiz finds it set.
DismissFlagIsTransient ==
  dismissQuiz => (appearing /\ screen \in {"quiz", "menu"}) \/ screen \in Traps

\* "Study again" ends on the lessons, through three controllers that only
\* share the flag.
StudyAgainReachesLessons ==
  dismissQuiz ~> screen = "its" \/ screen \in Traps

\* An answer an orderly student gives is stored and the quiz moves on to the
\* next question or to the result, unless a call fails or the screen is left
\* (checkIfCorrect, storeQuestionResult, nextQuestion).
AnswerMovesOn ==
  \A n \in UNION {0 .. QuizSize[c] - 1 : c \in Categories} :
    orderly /\ errors = 0 /\ anims # <<>> /\ vc[top].questionNumber = n
      ~> \/ ~orderly
         \/ errors > 0
         \/ vc[top].questionNumber = n + 1

\* The share of right answers is at most 100 %, for every student.
ScoreIsAShare == screen \in {"passed", "failed"} => score.right <= score.of
=============================================================================
