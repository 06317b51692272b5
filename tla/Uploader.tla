------------------------------ MODULE Uploader ------------------------------
(***************************************************************************)
(* The Quiz Uploader script: it reads a text file of seven lines per       *)
(* question and sets one document per question, numbered by str(); and the *)
(* order in which QuizViewController, which fetches them without           *)
(* order(by:), asks the questions.                                         *)
(*                                                                         *)
(* A line is the sequence of its parts between ": ".  A run may be cut off *)
(* between two documents, and runs with other files follow.                *)
(***************************************************************************)
EXTENDS Integers, Sequences, FiniteSets, SequencesExt

CONSTANTS
  Categories, \* categories (the third line of a file)
  Texts,      \* texts a line may consist of
  Files,      \* files the script may be run with
  MaxRuns     \* bound: runs of the script

Options == <<"Option 1", "Option 2", "Option 3", "Option 4">>

Keys == {"Question", "Answer"} \union Range(Options)

\* What the author of a file has in mind: questions of a category, whose
\* answers name an option (checkIfCorrect compares them), and which line was
\* left out by mistake (0: none).
ASSUME UploaderAssumption ==
  /\ Keys \union {""} \subseteq Texts
  /\ \A f \in Files : /\ f.category \in Categories
                      /\ f.questions \in Seq([Keys -> Seq(Texts)])
                      /\ \A k \in 1 .. Len(f.questions) :
                           f.questions[k]["Answer"] \in {<<o>> : o \in Range(Options)}
                      /\ f.missing \in Nat
  /\ MaxRuns \in Nat

NoFile == [category |-> "", questions |-> <<>>, missing |-> 0]

VARIABLES
  file,       \* the file of the latest run
  lineNumber, \* lines of its questions that have been read
  quiz,       \* the question being read
  quizzes,    \* the questions read
  status,     \* of the latest run
  written,    \* documents the latest run has set
  docs,       \* the "Quiz" collection of each category, by document number
  runs,       \* runs started
  longest     \* history: most questions a run has had for each category

vars == <<file, lineNumber, quiz, quizzes, status, written, docs, runs, longest>>

\* The dictionary d after d[key] = value.
With(d, key, value) ==
  [k \in DOMAIN d \union {key} |-> IF k = key THEN value ELSE d[k]]

-----------------------------------------------------------------------------
(* The file.                                                               *)

\* Line r of the seven of question q, with the empty one that ends it.
LineOf(q, r) ==
  <<q["Question"],
    <<"Option 1">> \o q["Option 1"], <<"Option 2">> \o q["Option 2"],
    <<"Option 3">> \o q["Option 3"], <<"Option 4">> \o q["Option 4"],
    q["Answer"], <<"">>>>[r + 1]

\* Line n as it was meant: three lines, an empty one and the questions.
Intended(f, n) ==
  IF n <= 4 THEN <<<<"Math">>, <<"2nd grade">>, <<f.category>>, <<"">>>>[n]
  ELSE LineOf(f.questions[(n - 5) \div 7 + 1], (n - 5) % 7)

IntendedLines(f) == 4 + 7 * Len(f.questions)

LineCount(f) == IntendedLines(f) - IF f.missing \in 1 .. IntendedLines(f) THEN 1 ELSE 0

Line(f, n) == Intended(f, IF f.missing \in 1 .. n THEN n + 1 ELSE n)

category(f) == Line(f, 3)[1]

-----------------------------------------------------------------------------
(* The script.                                                             *)

Init ==
  /\ file = NoFile
  /\ lineNumber = 0
  /\ quiz = <<>>
  /\ quizzes = <<>>
  /\ status = "idle"
  /\ written = 0
  /\ docs = [c \in Categories |-> <<>>]
  /\ runs = 0
  /\ longest = [c \in Categories |-> 0]

Run(f) ==
  /\ status \notin {"reading", "writing"}
  /\ runs < MaxRuns
  /\ runs' = runs + 1
  /\ file' = f
  /\ lineNumber' = 0
  /\ quiz' = <<>>
  /\ quizzes' = <<>>
  /\ status' = "reading"
  /\ written' = 0
  /\ UNCHANGED <<docs, longest>>

\* Mutant: an option is taken for what follows the last ": ".
ReadLine_LastPart ==
  /\ status = "reading" /\ lineNumber + 4 < LineCount(file)
  /\ LET r == lineNumber % 7
         line == Line(file, lineNumber + 5)
     IN \/ /\ r \in {0, 5}
           /\ quiz' = With(quiz, IF r = 0 THEN "Question" ELSE "Answer", line)
           /\ quizzes' = IF r = 0 THEN quizzes ELSE Append(quizzes, quiz')
        \/ /\ r = 6
           /\ quiz' = <<>>
           /\ UNCHANGED quizzes
        \/ /\ r \in 1 .. 4
           /\ quiz' = With(quiz, line[1], <<Last(line)>>)
           /\ UNCHANGED quizzes
  /\ lineNumber' = lineNumber + 1
  /\ UNCHANGED <<file, status, written, docs, runs, longest>>

\* One turn of the loop over the lines after the fourth.  An option that is
\* not two parts raises ValueError.
ReadLine ==
  /\ status = "reading" /\ lineNumber + 4 < LineCount(file)
  /\ LET r == lineNumber % 7
         line == Line(file, lineNumber + 5)
     IN \/ /\ r = 0
           /\ quiz' = With(quiz, "Question", line)
           /\ UNCHANGED <<quizzes, status>>
        \/ /\ r = 5
           /\ quiz' = With(quiz, "Answer", line)
           /\ quizzes' = Append(quizzes, quiz')
           /\ UNCHANGED status
        \/ /\ r = 6
           /\ quiz' = <<>>
           /\ UNCHANGED <<quizzes, status>>
        \/ /\ r \in 1 .. 4 /\ Len(line) = 2
           /\ quiz' = With(quiz, line[1], <<line[2]>>)
           /\ UNCHANGED <<quizzes, status>>
        \/ /\ r \in 1 .. 4 /\ Len(line) # 2
           /\ status' = "raised"
           /\ UNCHANGED <<quiz, quizzes>>
  /\ lineNumber' = lineNumber + 1
  /\ UNCHANGED <<file, written, docs, runs, longest>>

\* The whole file is read before anything is written.
AllRead ==
  /\ status = "reading" /\ lineNumber + 4 >= LineCount(file)
  /\ status' = "writing"
  /\ longest' = LET n == Len(quizzes)
                IN [longest EXCEPT ![category(file)] = IF @ < n THEN n ELSE @]
  /\ UNCHANGED <<file, lineNumber, quiz, quizzes, written, docs, runs>>

\* Mutant: numbered from 1.
Set_FromOne ==
  /\ status = "writing" /\ written < Len(quizzes)
  /\ docs' = [docs EXCEPT ![category(file)] = With(@, written + 1, quizzes[written + 1])]
  /\ written' = written + 1
  /\ UNCHANGED <<file, lineNumber, quiz, quizzes, status, runs, longest>>

\* document(str(quizNumber)).set(quizzes[quizNumber])
Set ==
  /\ status = "writing" /\ written < Len(quizzes)
  /\ docs' = [docs EXCEPT ![category(file)] = With(@, written, quizzes[written + 1])]
  /\ written' = written + 1
  /\ UNCHANGED <<file, lineNumber, quiz, quizzes, status, runs, longest>>

Finish ==
  /\ status = "writing" /\ written = Len(quizzes)
  /\ status' = "done"
  /\ UNCHANGED <<file, lineNumber, quiz, quizzes, written, docs, runs, longest>>

\* A call raises, or the script is stopped.
Crash ==
  /\ status = "reading" \/ (status = "writing" /\ written < Len(quizzes))
  /\ status' = "raised"
  /\ UNCHANGED <<file, lineNumber, quiz, quizzes, written, docs, runs, longest>>

Next ==
  \/ \E f \in Files : Run(f)
  \/ ReadLine
  \/ AllRead
  \/ Set
  \/ Finish
  \/ Crash

Spec == Init /\ [][Next]_vars

-----------------------------------------------------------------------------
(* The quiz.                                                               *)

\* The digits of str(n).
str[n \in Nat] == IF n < 10 THEN <<n>> ELSE Append(str[n \div 10], n % 10)

\* Document ids are compared as strings.
Before(m, n) ==
  LET a == str[m]
      b == str[n]
  IN \/ Len(a) < Len(b) /\ SubSeq(b, 1, Len(a)) = a
     \/ \E k \in DOMAIN a \intersect DOMAIN b :
          a[k] < b[k] /\ \A j \in 1 .. k - 1 : a[j] = b[j]

\* getDocuments of category c.
Fetched(c) ==
  LET ids == DOMAIN docs[c]
      At(k) == CHOOSE n \in ids : Cardinality({m \in ids : Before(m, n)}) = k - 1
  IN [k \in 1 .. Cardinality(ids) |-> docs[c][At(k)]]

-----------------------------------------------------------------------------
IsQuestion(q) == \A key \in DOMAIN q : key \in Texts /\ q[key] \in Seq(Texts)

TypeOK ==
  /\ file \in Files \union {NoFile}
  /\ lineNumber \in Nat
  /\ IsQuestion(quiz)
  /\ \A k \in DOMAIN quizzes : IsQuestion(quizzes[k])
  /\ status \in {"idle", "reading", "writing", "done", "raised"}
  /\ written \in 0 .. Len(quizzes)
  /\ DOMAIN docs = Categories
  /\ \A c \in Categories : /\ DOMAIN docs[c] \subseteq 0 .. longest[c] - 1
                           /\ \A n \in DOMAIN docs[c] : IsQuestion(docs[c][n])
  /\ runs \in 0 .. MaxRuns
  /\ longest \in [Categories -> Nat]

\* After a run that was not cut off the quiz has the questions of the file,
\* in their order and none of an earlier run, whatever runs with other files
\* were cut off before, as long as there are at most ten of them and no
\* earlier file for the category had more (str(quizNumber),
\* QuizViewController.viewWillAppear).
AskedInOrder ==
  /\ status = "done" /\ file.missing = 0
  /\ longest[file.category] <= Len(file.questions)
  /\ Len(file.questions) <= 10
  => Fetched(file.category) = file.questions

\* A line forgotten in the file can only spoil its last question: if it shifts
\* the lines of another one the script raises, and writes nothing
\* (lineNumber % 7, split(": ")).
MissingLineIsNoticed ==
  status \in {"writing", "done"} =>
    /\ Len(quizzes) <= Len(file.questions)
    /\ \A k \in DOMAIN quizzes :
         k < Len(file.questions) => quizzes[k] = file.questions[k]

\* Every document has what QuizViewController unwraps of it, the question, the
\* four options and the answer, also when a line of the file is missing, at
\* any moment of any sequence of runs (nextQuestion, checkIfCorrect).
NothingToUnwrapIsMissing ==
  \A c \in Categories : \A n \in DOMAIN docs[c] : Keys \subseteq DOMAIN docs[c][n]
=============================================================================
