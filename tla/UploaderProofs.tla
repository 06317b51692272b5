--------------------------- MODULE UploaderProofs ---------------------------
(***************************************************************************)
(* Proofs about Uploader, for any files of any number of questions, any    *)
(* line missing and any number of runs.                                    *)
(***************************************************************************)
EXTENDS Uploader, SequenceTheorems, FiniteSetTheorems, WellFoundedInduction, TLAPS

-----------------------------------------------------------------------------
(* The inductive invariant.                                                *)

Questions == [Keys -> Seq(Texts)]

Dictionaries == UNION {[S -> Seq(Texts)] : S \in SUBSET Texts}

TypeInv ==
  /\ file \in Files \union {NoFile}
  /\ status \in {"idle", "reading", "writing", "done", "raised"}
  /\ status # "idle" => file \in Files
  /\ lineNumber \in Nat
  /\ quiz \in Dictionaries
  /\ quizzes \in Seq(Questions)
  /\ written \in 0 .. Len(quizzes)
  /\ runs \in 0 .. MaxRuns
  /\ longest \in [Categories -> Nat]

DocsInv ==
  /\ DOMAIN docs = Categories
  /\ \A c \in Categories : \A n \in DOMAIN docs[c] :
       n \in 0 .. longest[c] - 1 /\ docs[c][n] \in Questions

\* The first n lines of the questions are the ones that were meant.
Clean(n) == file.missing = 0 \/ n + 4 < file.missing

\* The key that each line of a question gives a value.
KeyOf == <<"Question", "Option 1", "Option 2", "Option 3", "Option 4", "Answer">>

\* The first r lines of question q have been read.
Partly(q, r) ==
  /\ DOMAIN quiz = {KeyOf[i] : i \in 1 .. r}
  /\ \A key \in DOMAIN quiz : quiz[key] = q[key]

\* Question j was read: no line is missing before its answer.
ReadOK(j) ==
  /\ Clean(7 * j - 2)
  /\ Clean(7 * j - 1) => quizzes[j] = file.questions[j]

\* Where the loop is.  A shifted line is noticed where the fourth option
\* should be and the answer is, so an answer follows lines that were meant.
LoopInv ==
  /\ lineNumber <= 7 * Len(file.questions)
  /\ Len(quizzes) = (lineNumber + 1) \div 7
  /\ \A j \in 1 .. Len(quizzes) : ReadOK(j)
  /\ status = "reading" =>
       /\ lineNumber % 7 < 6 /\ Clean(lineNumber) =>
            Partly(file.questions[lineNumber \div 7 + 1], lineNumber % 7)
       /\ lineNumber % 7 = 5 => Clean(lineNumber)
       /\ written = 0

\* The documents of the run that is written.
WriteInv ==
  status \in {"writing", "done"} =>
    /\ Len(quizzes) = Len(file.questions)
    /\ quizzes # <<>> =>
         /\ Len(quizzes) <= longest[file.category]
         /\ \A n \in 0 .. written - 1 : /\ n \in DOMAIN docs[file.category]
                                        /\ docs[file.category][n] = quizzes[n + 1]
    /\ status = "done" => written = Len(quizzes)

IInv == TypeInv /\ DocsInv /\ LoopInv /\ WriteInv

-----------------------------------------------------------------------------
(* The file.                                                               *)

LEMMA KeysAre ==
  /\ Keys = {"Question", "Answer", "Option 1", "Option 2", "Option 3", "Option 4"}
  /\ Keys = {KeyOf[i] : i \in 1 .. 6}
  /\ Keys \subseteq Texts
  /\ \A r \in 1 .. 4 : Options[r] = KeyOf[r + 1] /\ Options[r] \in Keys
<1>0. \A r \in 1 .. 4 : \/ (r = 1 /\ r + 1 = 2)
                         \/ (r = 2 /\ r + 1 = 3)
                         \/ (r = 3 /\ r + 1 = 4)
                         \/ (r = 4 /\ r + 1 = 5)
  OBVIOUS
<1>1. Range(Options) = {"Option 1", "Option 2", "Option 3", "Option 4"}
  <2>1. DOMAIN Options = 1 .. 4
    BY DEF Options
  <2>2. Range(Options) = {Options[1], Options[2], Options[3], Options[4]}
    BY <2>1 DEF Range
  <2>3. /\ Options[1] = "Option 1" /\ Options[2] = "Option 2" /\ Options[3] = "Option 3"
        /\ Options[4] = "Option 4"
    BY DEF Options
  <2> QED BY <2>2, <2>3
<1>2. Keys = {"Question", "Answer", "Option 1", "Option 2", "Option 3", "Option 4"}
  BY <1>1 DEF Keys
<1>3. /\ KeyOf[1] = "Question" /\ KeyOf[2] = "Option 1" /\ KeyOf[3] = "Option 2"
      /\ KeyOf[4] = "Option 3" /\ KeyOf[5] = "Option 4" /\ KeyOf[6] = "Answer"
  BY DEF KeyOf
<1>4. 1 .. 6 = {1, 2, 3, 4, 5, 6} /\ 1 .. 4 = {1, 2, 3, 4}
  OBVIOUS
<1>5. Keys = {KeyOf[i] : i \in 1 .. 6}
  BY <1>2, <1>3, <1>4
<1>6. /\ Options[1] = "Option 1" /\ Options[2] = "Option 2" /\ Options[3] = "Option 3"
      /\ Options[4] = "Option 4"
  BY DEF Options
<1>7. \A r \in 1 .. 4 : Options[r] = KeyOf[r + 1] /\ Options[r] \in Keys
  BY <1>0, <1>2, <1>3, <1>6, Zenon
<1>8. Keys \subseteq Texts
  BY UploaderAssumption
<1> QED BY <1>2, <1>5, <1>7, <1>8

LEMMA FileFacts ==
  ASSUME TypeInv
  PROVE  /\ file.questions \in Seq(Questions) /\ Len(file.questions) \in Nat
         /\ file.missing \in Nat
         /\ \A k \in 1 .. Len(file.questions) :
              /\ file.questions[k] \in Questions
              /\ Len(file.questions[k]["Answer"]) = 1
<1>1. CASE file \in Files
  <2>1. /\ file.questions \in Seq(Questions) /\ file.missing \in Nat
        /\ \A k \in 1 .. Len(file.questions) :
             file.questions[k]["Answer"] \in {<<o>> : o \in Range(Options)}
    BY <1>1, UploaderAssumption DEF Questions
  <2> QED BY <2>1
<1>2. CASE file = NoFile
  <2>1. file.questions = <<>> /\ file.missing = 0
    BY <1>2 DEF NoFile
  <2> QED BY <2>1
<1> QED BY <1>1, <1>2 DEF TypeInv

LEMMA DivMod ==
  ASSUME NEW n \in Nat
  PROVE  /\ n \div 7 \in Nat /\ n % 7 \in 0 .. 6 /\ n = 7 * (n \div 7) + (n % 7)
         /\ n % 7 < 6 => (n + 1) \div 7 = n \div 7 /\ (n + 1) % 7 = (n % 7) + 1
         /\ n % 7 = 6 => (n + 1) \div 7 = n \div 7 + 1 /\ (n + 1) % 7 = 0
<1>1. n \div 7 \in Nat /\ n % 7 \in 0 .. 6
  OBVIOUS
<1>3. n = 7 * (n \div 7) + (n % 7)
  OBVIOUS
<1>4. n % 7 < 6 => (n + 1) \div 7 = n \div 7 /\ (n + 1) % 7 = (n % 7) + 1
  OBVIOUS
<1>5. n % 7 = 6 => (n + 1) \div 7 = n \div 7 + 1 /\ (n + 1) % 7 = 0
  OBVIOUS
<1> QED BY <1>1, <1>3, <1>4, <1>5

LEMMA LinesOfQuestion ==
  ASSUME NEW q
  PROVE  /\ LineOf(q, 0) = q["Question"] /\ LineOf(q, 5) = q["Answer"] /\ LineOf(q, 6) = <<"">>
         /\ \A r \in 1 .. 4 : LineOf(q, r) = <<Options[r]>> \o q[Options[r]]
<1> DEFINE a == <<"Option 1">> \o q["Option 1"]
           b == <<"Option 2">> \o q["Option 2"]
           c == <<"Option 3">> \o q["Option 3"]
           d == <<"Option 4">> \o q["Option 4"]
           first == q["Question"]
           last == q["Answer"]
           empty == <<"">>
<1>1. \A r : LineOf(q, r) = <<first, a, b, c, d, last, empty>>[r + 1]
  BY DEF LineOf
<1>2. /\ Options[1] = "Option 1" /\ Options[2] = "Option 2" /\ Options[3] = "Option 3"
      /\ Options[4] = "Option 4"
  BY DEF Options
<1>3. /\ a = <<Options[1]>> \o q[Options[1]] /\ b = <<Options[2]>> \o q[Options[2]]
      /\ c = <<Options[3]>> \o q[Options[3]] /\ d = <<Options[4]>> \o q[Options[4]]
  BY <1>2
<1> HIDE DEF a, b, c, d, first, last, empty
<1>4. /\ LineOf(q, 0) = first /\ LineOf(q, 1) = a /\ LineOf(q, 2) = b /\ LineOf(q, 3) = c
      /\ LineOf(q, 4) = d /\ LineOf(q, 5) = last /\ LineOf(q, 6) = empty
  BY <1>1
<1>5. \A r \in 1 .. 4 : r = 1 \/ r = 2 \/ r = 3 \/ r = 4
  OBVIOUS
<1>6. \A r \in 1 .. 4 : LineOf(q, r) = <<Options[r]>> \o q[Options[r]]
  BY <1>3, <1>4, <1>5
<1> QED BY <1>4, <1>6 DEF first, last, empty

LEMMA LineOfQuestion ==
  ASSUME NEW q \in Questions, NEW r \in 0 .. 6
  PROVE  LineOf(q, r) \in Seq(Texts)
<1>1. \A key \in Keys : q[key] \in Seq(Texts) /\ key \in Texts
  BY KeysAre DEF Questions
<1>2. CASE r = 0 \/ r = 5
  <2>1. "Question" \in Keys /\ "Answer" \in Keys
    BY KeysAre
  <2>2. LineOf(q, r) = q["Question"] \/ LineOf(q, r) = q["Answer"]
    BY <1>2, LinesOfQuestion
  <2> QED BY <1>1, <2>1, <2>2
<1>3. CASE r = 6
  <2>1. LineOf(q, r) = <<"">>
    BY <1>3, LinesOfQuestion
  <2>2. "" \in Texts
    BY UploaderAssumption
  <2>3. \A t \in Texts : <<t>> \in Seq(Texts)
    OBVIOUS
  <2> QED BY <2>1, <2>2, <2>3
<1>4. CASE r \in 1 .. 4
  <2>1. LineOf(q, r) = <<Options[r]>> \o q[Options[r]]
    BY <1>4, LinesOfQuestion
  <2>2. Options[r] \in Texts /\ q[Options[r]] \in Seq(Texts)
    BY <1>1, <1>4, KeysAre
  <2>3. <<Options[r]>> \in Seq(Texts)
    BY <2>2
  <2> QED BY <2>1, <2>2, <2>3, ConcatProperties
<1> QED BY <1>2, <1>3, <1>4

\* The line the loop reads.
LEMMA TheLine ==
  ASSUME TypeInv, lineNumber + 4 < LineCount(file), NEW line, line = Line(file, lineNumber + 5)
  PROVE  /\ line \in Seq(Texts)
         /\ lineNumber + 1 <= 7 * Len(file.questions)
         /\ lineNumber \div 7 + 1 \in 1 .. Len(file.questions)
         /\ Clean(lineNumber + 1) =>
              line = LineOf(file.questions[lineNumber \div 7 + 1], lineNumber % 7)
         /\ ~Clean(lineNumber + 1) /\ lineNumber % 7 = 4 => Len(line) = 1
<1> DEFINE N == Len(file.questions)
           n == lineNumber
<1>1. n \in Nat /\ N \in Nat /\ file.missing \in Nat
  BY FileFacts DEF TypeInv
<1>2. IntendedLines(file) = 4 + 7 * N
  BY DEF IntendedLines
<1>3. /\ n + 1 <= 7 * N
      /\ file.missing \in 1 .. n + 5 => n + 2 <= 7 * N
  <2>1. PICK k \in Nat : k = 4 + 7 * N
    BY <1>1
  <2>2. PICK m \in Nat : m = file.missing
    BY <1>1
  <2>3. n + 4 < k - (IF m \in 1 .. k THEN 1 ELSE 0)
    BY <1>2, <2>1, <2>2 DEF LineCount
  <2>4. n + 5 <= k /\ (m \in 1 .. n + 5 => n + 6 <= k)
    <3>1. CASE m \in 1 .. k
      BY <1>1, <2>3, <3>1
    <3>2. CASE m \notin 1 .. k
      BY <1>1, <2>3, <3>2
    <3> QED BY <3>1, <3>2
  <2> QED BY <1>1, <2>1, <2>2, <2>4
<1>4. n \div 7 + 1 \in 1 .. N
  BY <1>1, <1>3
<1>5. CASE Clean(n + 1)
  <2>1. file.missing \notin 1 .. n + 5
    BY <1>1, <1>5 DEF Clean
  <2>2. line = Intended(file, n + 5)
    BY <2>1 DEF Line
  <2>3. (n + 5) - 5 = n /\ ~(n + 5 <= 4)
    BY <1>1
  <2>4. line = LineOf(file.questions[n \div 7 + 1], n % 7)
    BY <2>2, <2>3 DEF Intended
  <2> QED BY <1>1, <1>3, <1>4, <1>5, <2>4, LineOfQuestion, FileFacts, DivMod
<1>6. CASE ~Clean(n + 1)
  <2>1. file.missing \in 1 .. n + 5
    BY <1>1, <1>6 DEF Clean
  <2>2. line = Intended(file, (n + 5) + 1)
    BY <2>1 DEF Line
  <2>3. ((n + 5) + 1) - 5 = n + 1 /\ ~((n + 5) + 1 <= 4)
    BY <1>1
  <2>4. line = LineOf(file.questions[(n + 1) \div 7 + 1], (n + 1) % 7)
    BY <2>2, <2>3 DEF Intended
  <2>5. (n + 1) \div 7 + 1 \in 1 .. N /\ (n + 1) % 7 \in 0 .. 6
    BY <1>1, <1>3, <2>1
  <2>6. line \in Seq(Texts)
    BY <2>4, <2>5, LineOfQuestion, FileFacts
  <2>7. CASE n % 7 = 4
    <3>1. (n + 1) % 7 = 5
      BY <1>1, <2>7
    <3>2. line = file.questions[(n + 1) \div 7 + 1]["Answer"]
      BY <2>4, <3>1, LinesOfQuestion
    <3> QED BY <1>3, <1>4, <1>6, <2>5, <2>6, <3>2, FileFacts
  <2> QED BY <1>3, <1>4, <1>6, <2>6, <2>7
<1> QED BY <1>5, <1>6

-----------------------------------------------------------------------------
(* Dictionaries.                                                           *)

LEMMA WithFacts ==
  ASSUME NEW d, NEW key, NEW v, NEW e, e = With(d, key, v)
  PROVE  /\ DOMAIN e = DOMAIN d \union {key} /\ e[key] = v
         /\ \A k \in DOMAIN d : k # key => e[k] = d[k]
         /\ e = [k \in DOMAIN e |-> e[k]]
BY DEF With

LEMMA EmptyDictionary == <<>> \in Dictionaries /\ DOMAIN <<>> = {}
<1>1. DOMAIN <<>> = {}
  OBVIOUS
<1>2. <<>> \in [{} -> Seq(Texts)]
  BY <1>1
<1>3. {} \in SUBSET Texts
  OBVIOUS
<1> QED BY <1>1, <1>2, <1>3 DEF Dictionaries

LEMMA DictionaryWith ==
  ASSUME NEW d \in Dictionaries, NEW key \in Texts, NEW v \in Seq(Texts), NEW e,
         e = With(d, key, v)
  PROVE  e \in Dictionaries
<1>1. PICK S \in SUBSET Texts : d \in [S -> Seq(Texts)]
  BY DEF Dictionaries
<1>2. S \union {key} \in SUBSET Texts
  OBVIOUS
<1>3. e \in [S \union {key} -> Seq(Texts)]
  BY <1>1 DEF With
<1> QED BY <1>2, <1>3 DEF Dictionaries

LEMMA QuestionWith ==
  ASSUME NEW d \in Dictionaries, NEW v \in Seq(Texts), NEW e, e = With(d, "Answer", v),
         DOMAIN e = Keys
  PROVE  e \in Questions
<1>1. PICK S \in SUBSET Texts : d \in [S -> Seq(Texts)]
  BY DEF Dictionaries
<1>2. PICK key : key = "Answer"
  OBVIOUS
<1>3. e = [k \in DOMAIN d \union {key} |-> IF k = key THEN v ELSE d[k]]
  BY <1>2 DEF With
<1>4. DOMAIN d \union {key} = Keys /\ DOMAIN d = S
  BY <1>1, <1>3
<1>5. \A k \in Keys : (IF k = key THEN v ELSE d[k]) \in Seq(Texts)
  BY <1>1, <1>4
<1> QED BY <1>3, <1>4, <1>5 DEF Questions

\* One more line of question q.
LEMMA PartlyWith ==
  ASSUME NEW q, NEW r \in 0 .. 5, Partly(q, r), quiz' = With(quiz, KeyOf[r + 1], q[KeyOf[r + 1]])
  PROVE  /\ DOMAIN quiz' = {KeyOf[i] : i \in 1 .. r + 1}
         /\ \A key \in DOMAIN quiz' : quiz'[key] = q[key]
<1>1. PICK last : last = KeyOf[r + 1]
  OBVIOUS
<1>2. /\ DOMAIN quiz' = DOMAIN quiz \union {last} /\ quiz'[last] = q[last]
      /\ \A k \in DOMAIN quiz : k # last => quiz'[k] = quiz[k]
  <2>1. quiz' = [k \in DOMAIN quiz \union {last} |-> IF k = last THEN q[last] ELSE quiz[k]]
    BY <1>1 DEF With
  <2> QED BY <2>1
<1>3. 1 .. r + 1 = (1 .. r) \union {r + 1}
  OBVIOUS
<1>4. {KeyOf[i] : i \in 1 .. r + 1} = {KeyOf[i] : i \in 1 .. r} \union {last}
  BY <1>1, <1>3
<1>5. DOMAIN quiz' = {KeyOf[i] : i \in 1 .. r + 1}
  BY <1>2, <1>4 DEF Partly
<1>6. \A key \in DOMAIN quiz' : quiz'[key] = q[key]
  BY <1>2 DEF Partly
<1> QED BY <1>5, <1>6

\* A line with an option.
LEMMA OptionLine ==
  ASSUME NEW q \in Questions, NEW r \in 1 .. 4, NEW line, line = LineOf(q, r), Len(line) = 2
  PROVE  line[1] = KeyOf[r + 1] /\ <<line[2]>> = q[KeyOf[r + 1]]
<1>1. PICK o \in Keys : o = Options[r] /\ o = KeyOf[r + 1]
  BY KeysAre
<1>2. q[o] \in Seq(Texts) /\ o \in Texts
  BY KeysAre DEF Questions
<1>3. PICK t \in Seq(Texts) : t = q[o]
  BY <1>2
<1>4. line = <<o>> \o t
  BY <1>1, <1>3, LinesOfQuestion
<1>5. <<o>> \in Seq(Texts)
  BY <1>2
<1>6. Len(line) = 1 + Len(t) /\ line[1] = o /\ \A i \in 1 .. Len(t) : line[i + 1] = t[i]
  BY <1>4, <1>5, ConcatProperties
<1>7. Len(t) = 1 /\ line[2] = t[1]
  <2>1. Len(t) = 1
    <3>1. PICK m \in Nat : m = Len(t)
      BY <1>3
    <3>2. 2 = 1 + m
      BY <1>6, <3>1
    <3>3. m = 1
      BY <3>2
    <3> QED BY <3>1, <3>3
  <2>2. 1 \in 1 .. Len(t) /\ 1 + 1 = 2
    BY <2>1
  <2>3. line[1 + 1] = t[1]
    BY <1>6, <2>2
  <2> QED BY <2>1, <2>2, <2>3
<1>8. <<line[2]>> = t
  BY <1>3, <1>7
<1> QED BY <1>1, <1>3, <1>6, <1>8

-----------------------------------------------------------------------------
(* The steps.                                                              *)

LEMMA InvInit == Init => IInv
<1> SUFFICES ASSUME Init PROVE IInv
  OBVIOUS
<1>1. /\ file = NoFile /\ lineNumber = 0 /\ quiz = <<>> /\ quizzes = <<>> /\ status = "idle"
      /\ written = 0 /\ docs = [c \in Categories |-> <<>>] /\ runs = 0
      /\ longest = [c \in Categories |-> 0]
  BY DEF Init
<1>2. quizzes \in Seq(Questions) /\ Len(quizzes) = 0 /\ quiz \in Dictionaries
  BY <1>1, EmptyDictionary
<1>3. TypeInv
  <2>1. runs \in 0 .. MaxRuns /\ written \in 0 .. Len(quizzes)
    <3>1. MaxRuns \in Nat
      BY UploaderAssumption
    <3> QED BY <1>1, <1>2, <3>1
  <2> QED BY <1>1, <1>2, <2>1 DEF TypeInv
<1>4. DocsInv
  BY <1>1, EmptyDictionary DEF DocsInv
<1>5. LoopInv
  <2>1. file.questions = <<>>
    BY <1>1 DEF NoFile
  <2>2. lineNumber <= 7 * Len(file.questions) /\ (lineNumber + 1) \div 7 = 0
    BY <1>1, <2>1
  <2> QED BY <1>1, <1>2, <2>2 DEF LoopInv
<1> QED BY <1>1, <1>3, <1>4, <1>5 DEF IInv, WriteInv

LEMMA RunStep ==
  ASSUME IInv, NEW f \in Files, Run(f)
  PROVE  IInv'
<1>1. /\ runs < MaxRuns /\ runs' = runs + 1 /\ file' = f /\ lineNumber' = 0 /\ quiz' = <<>>
      /\ quizzes' = <<>> /\ status' = "reading" /\ written' = 0 /\ UNCHANGED <<docs, longest>>
  BY DEF Run
<1>2. quizzes' \in Seq(Questions) /\ Len(quizzes') = 0 /\ quiz' \in Dictionaries
  BY <1>1, EmptyDictionary
<1>3. TypeInv'
  <2>1. runs' \in 0 .. MaxRuns /\ written' \in 0 .. Len(quizzes')
    <3>1. MaxRuns \in Nat
      BY UploaderAssumption
    <3> QED BY <1>1, <1>2, <3>1 DEF IInv, TypeInv
  <2> QED BY <1>1, <1>2, <2>1 DEF IInv, TypeInv
<1>4. DocsInv'
  BY <1>1 DEF IInv, DocsInv
<1>5. LoopInv'
  <2>1. Len(f.questions) \in Nat
    <3>1. f.questions \in Seq([Keys -> Seq(Texts)])
      BY UploaderAssumption
    <3> QED BY <3>1
  <2>2. lineNumber' <= 7 * Len(file'.questions) /\ (lineNumber' + 1) \div 7 = 0 /\ lineNumber' % 7 = 0
    BY <1>1, <2>1
  <2>3. 1 .. 0 = {} /\ DOMAIN quiz' = {}
    BY <1>1, EmptyDictionary
  <2>4. \A q : Partly(q, 0)'
    BY <2>3 DEF Partly
  <2>5. lineNumber' % 7 # 5
    BY <2>2
  <2> QED BY <1>1, <1>2, <2>2, <2>4, <2>5 DEF LoopInv
<1> QED BY <1>1, <1>3, <1>4, <1>5 DEF IInv, WriteInv

LEMMA CrashStep == IInv /\ Crash => IInv'
<1> SUFFICES ASSUME IInv, Crash PROVE IInv'
  OBVIOUS
<1>1. /\ status # "idle" /\ status' = "raised"
      /\ UNCHANGED <<file, lineNumber, quiz, quizzes, written, docs, runs, longest>>
  BY DEF Crash
<1>2. TypeInv' /\ DocsInv'
  BY <1>1 DEF IInv, TypeInv, DocsInv
<1>3. LoopInv'
  BY <1>1 DEF IInv, LoopInv, ReadOK, Clean
<1> QED BY <1>1, <1>2, <1>3 DEF IInv, WriteInv

LEMMA FinishStep == IInv /\ Finish => IInv'
<1> SUFFICES ASSUME IInv, Finish PROVE IInv'
  OBVIOUS
<1>1. /\ status = "writing" /\ status' = "done" /\ written = Len(quizzes)
      /\ UNCHANGED <<file, lineNumber, quiz, quizzes, written, docs, runs, longest>>
  BY DEF Finish
<1>2. TypeInv' /\ DocsInv'
  BY <1>1 DEF IInv, TypeInv, DocsInv
<1>3. LoopInv'
  BY <1>1 DEF IInv, LoopInv, ReadOK, Clean
<1>4. WriteInv'
  BY <1>1 DEF IInv, WriteInv
<1> QED BY <1>2, <1>3, <1>4 DEF IInv

\* The name in the third line is the category of the questions read.
LEMMA CategoryIs ==
  ASSUME TypeInv, LoopInv, quizzes # <<>>
  PROVE  category(file) = file.category /\ file.category \in Categories
<1>1. quizzes \in Seq(Questions) /\ Len(quizzes) \in Nat /\ 1 \in 1 .. Len(quizzes)
  BY DEF TypeInv
<1>2. Clean(7 * 1 - 2) /\ file.missing \in Nat
  BY <1>1, FileFacts DEF LoopInv, ReadOK
<1>3. file.missing \notin 1 .. 3
  BY <1>2 DEF Clean
<1>4. Line(file, 3) = <<file.category>>
  <2>1. Line(file, 3) = Intended(file, 3)
    BY <1>3 DEF Line
  <2> DEFINE a == <<"Math">>
             b == <<"2nd grade">>
             c == <<file.category>>
             d == <<"">>
  <2>2. 3 <= 4
    OBVIOUS
  <2>3. Intended(file, 3) = <<a, b, c, d>>[3]
    BY <2>2 DEF Intended
  <2> HIDE DEF a, b, c, d
  <2>4. <<a, b, c, d>>[3] = c
    OBVIOUS
  <2> QED BY <2>1, <2>3, <2>4 DEF c
<1>5. category(file) = file.category
  BY <1>4 DEF category
<1>6. file # NoFile
  <2> SUFFICES ASSUME file = NoFile PROVE FALSE
    OBVIOUS
  <2>1. file.questions = <<>>
    BY DEF NoFile
  <2>2. lineNumber = 0
    BY <2>1 DEF LoopInv, TypeInv
  <2>3. (lineNumber + 1) \div 7 = 0
    BY <2>2
  <2> QED BY <1>1, <2>3 DEF LoopInv
<1> QED BY <1>5, <1>6, UploaderAssumption DEF TypeInv

LEMMA SetStep == IInv /\ Set => IInv'
<1> SUFFICES ASSUME IInv, Set PROVE IInv'
  OBVIOUS
<1> USE DEF IInv
<1>1. /\ status = "writing" /\ written < Len(quizzes) /\ written' = written + 1
      /\ docs' = [docs EXCEPT ![category(file)] =
                    With(docs[category(file)], written, quizzes[written + 1])]
      /\ UNCHANGED <<file, lineNumber, quiz, quizzes, status, runs, longest>>
  BY DEF Set
<1>2. /\ quizzes \in Seq(Questions) /\ Len(quizzes) \in Nat /\ written \in Nat
      /\ written + 1 \in 1 .. Len(quizzes) /\ quizzes # <<>>
  BY <1>1 DEF TypeInv
<1>3. PICK c \in Categories : c = category(file) /\ c = file.category
  BY <1>2, CategoryIs
<1>4. PICK q \in Questions : q = quizzes[written + 1]
  BY <1>2
<1>5. /\ DOMAIN docs' = Categories
      /\ docs'[c] = With(docs[c], written, q)
      /\ \A d \in Categories : d # c => docs'[d] = docs[d]
  BY <1>1, <1>3, <1>4 DEF DocsInv
<1>6. /\ DOMAIN docs'[c] = DOMAIN docs[c] \union {written}
      /\ docs'[c][written] = q
      /\ \A n \in DOMAIN docs[c] : n # written => docs'[c][n] = docs[c][n]
  BY <1>5 DEF With
<1>7. Len(quizzes) <= longest[c] /\ longest[c] \in Nat
  BY <1>1, <1>2, <1>3 DEF WriteInv, TypeInv
<1>8. TypeInv'
  BY <1>1, <1>2 DEF TypeInv
<1>9. DocsInv'
  <2>1. ASSUME NEW d \in Categories, NEW n \in DOMAIN docs'[d]
        PROVE  n \in 0 .. longest[d] - 1 /\ docs'[d][n] \in Questions
    <3>1. CASE d # c
      BY <1>5, <3>1 DEF DocsInv
    <3>2. CASE d = c /\ n = written
      BY <1>1, <1>2, <1>6, <1>7, <3>2
    <3>3. CASE d = c /\ n # written
      BY <1>6, <3>3 DEF DocsInv
    <3> QED BY <3>1, <3>2, <3>3
  <2> QED BY <1>1, <1>5, <2>1 DEF DocsInv
<1>10. LoopInv'
  BY <1>1 DEF LoopInv, ReadOK, Clean
<1>11. WriteInv'
  <2>1. \A n \in 0 .. written' - 1 : n \in DOMAIN docs'[c] /\ docs'[c][n] = quizzes[n + 1]
    <3> TAKE n \in 0 .. written' - 1
    <3>1. CASE n = written
      BY <1>4, <1>6, <3>1
    <3>2. CASE n # written
      <4>1. n \in 0 .. written - 1
        BY <1>1, <1>2, <3>2
      <4> QED BY <1>1, <1>2, <1>3, <1>6, <3>2, <4>1 DEF WriteInv
    <3> QED BY <3>1, <3>2
  <2> QED BY <1>1, <1>2, <1>3, <1>7, <2>1 DEF WriteInv
<1> QED BY <1>8, <1>9, <1>10, <1>11

LEMMA CleanBefore ==
  ASSUME TypeInv, NEW m \in Nat, NEW n \in Nat, m <= n, Clean(n)
  PROVE  Clean(m)
BY FileFacts DEF Clean

LEMMA TurnNumbers ==
  ASSUME NEW n \in Nat
  PROVE  /\ n % 7 # 5 => ((n + 1) + 1) \div 7 = (n + 1) \div 7
         /\ n % 7 = 5 => /\ ((n + 1) + 1) \div 7 = (n + 1) \div 7 + 1
                        /\ (n + 1) \div 7 = n \div 7
                        /\ n = 7 * (n \div 7) + 5
         /\ (n + 1) % 7 = 5 => n % 7 = 4
<1>1. PICK d \in Nat : d = n \div 7
  BY DivMod
<1>2. PICK r \in 0 .. 6 : r = n % 7
  BY DivMod
<1>3. n = 7 * d + r
  BY DivMod, <1>1, <1>2
<1>4. \A m \in Nat, c \in Nat : 7 * c <= m /\ m < 7 * (c + 1) => m \div 7 = c
  OBVIOUS
<1>5. CASE r < 5
  <2>1. (n + 1) \div 7 = d /\ ((n + 1) + 1) \div 7 = d
    BY <1>3, <1>4, <1>5
  <2>2. (n + 1) % 7 = r + 1
    BY <1>2, <1>5, DivMod
  <2> QED BY <1>2, <1>5, <2>1, <2>2
<1>6. CASE r = 5
  <2>1. (n + 1) \div 7 = d /\ ((n + 1) + 1) \div 7 = d + 1
    BY <1>3, <1>4, <1>6
  <2>2. (n + 1) % 7 = 6
    BY <1>2, <1>6, DivMod
  <2> QED BY <1>1, <1>2, <1>3, <1>6, <2>1, <2>2
<1>7. CASE r = 6
  <2>1. (n + 1) \div 7 = d + 1 /\ ((n + 1) + 1) \div 7 = d + 1
    BY <1>3, <1>4, <1>7
  <2>2. (n + 1) % 7 = 0
    BY <1>2, <1>7, DivMod
  <2> QED BY <1>2, <1>7, <2>1, <2>2
<1> QED BY <1>5, <1>6, <1>7

\* What one turn of the loop keeps, whichever line it reads.
LEMMA TurnStep ==
  ASSUME IInv, status = "reading", lineNumber + 4 < LineCount(file), lineNumber' = lineNumber + 1,
         UNCHANGED <<file, written, docs, runs, longest>>,
         status' \in {"reading", "raised"}, quiz' \in Dictionaries,
         \/ lineNumber % 7 # 5 /\ quizzes' = quizzes
         \/ /\ lineNumber % 7 = 5 /\ quiz' \in Questions /\ quizzes' = Append(quizzes, quiz')
            /\ Clean(lineNumber + 1) => quiz' = file.questions[lineNumber \div 7 + 1],
         NEW q, q = file.questions[(lineNumber + 1) \div 7 + 1],
         NEW r, r = (lineNumber + 1) % 7,
         status' = "reading" /\ r < 6 /\ Clean(lineNumber + 1) => Partly(q, r)',
         status' = "reading" /\ lineNumber % 7 = 4 => Clean(lineNumber + 1)
  PROVE  IInv'
<1> USE DEF IInv
<1>1. /\ lineNumber \in Nat /\ quizzes \in Seq(Questions) /\ Len(quizzes) \in Nat /\ written = 0
      /\ Len(quizzes) = (lineNumber + 1) \div 7 /\ lineNumber + 1 <= 7 * Len(file.questions)
      /\ file \in Files
  BY TheLine DEF TypeInv, LoopInv
<1>2. /\ quizzes' \in Seq(Questions) /\ Len(quizzes') = ((lineNumber + 1) + 1) \div 7
      /\ \A j \in 1 .. Len(quizzes) : quizzes'[j] = quizzes[j]
      /\ lineNumber % 7 # 5 => Len(quizzes') = Len(quizzes)
      /\ lineNumber % 7 = 5 => /\ Len(quizzes') = Len(quizzes) + 1
                               /\ Len(quizzes) = lineNumber \div 7
                               /\ quizzes'[Len(quizzes) + 1] = quiz'
                               /\ lineNumber = 7 * Len(quizzes) + 5
  <2>1. CASE lineNumber % 7 # 5
    <3>1. ((lineNumber + 1) + 1) \div 7 = (lineNumber + 1) \div 7
      BY <1>1, <2>1, TurnNumbers
    <3> QED BY <1>1, <2>1, <3>1
  <2>2. CASE lineNumber % 7 = 5
    <3>1. /\ ((lineNumber + 1) + 1) \div 7 = (lineNumber + 1) \div 7 + 1
          /\ (lineNumber + 1) \div 7 = lineNumber \div 7
          /\ lineNumber = 7 * (lineNumber \div 7) + 5
      BY <1>1, <2>2, TurnNumbers
    <3>2. PICK v \in Questions : v = quiz' /\ quizzes' = Append(quizzes, v)
      BY <2>2
    <3>3. /\ quizzes' \in Seq(Questions) /\ Len(quizzes') = Len(quizzes) + 1
          /\ quizzes'[Len(quizzes) + 1] = v
          /\ \A j \in 1 .. Len(quizzes) : quizzes'[j] = quizzes[j]
      BY <1>1, <3>2, AppendProperties
    <3> QED BY <1>1, <2>2, <3>1, <3>2, <3>3
  <2> QED BY <2>1, <2>2
<1>3. TypeInv'
  <2>1. written' \in 0 .. Len(quizzes') /\ lineNumber' \in Nat
    BY <1>1, <1>2
  <2> QED BY <1>1, <1>2, <2>1 DEF TypeInv
<1>4. DocsInv'
  BY DEF DocsInv
<1>5. \A m : Clean(m)' = Clean(m)
  BY DEF Clean
<1>6. \A j \in 1 .. Len(quizzes') : ReadOK(j)'
  <2> TAKE j \in 1 .. Len(quizzes')
  <2>1. CASE j \in 1 .. Len(quizzes)
    BY <1>2, <1>5, <2>1 DEF LoopInv, ReadOK
  <2>2. CASE j \notin 1 .. Len(quizzes)
    <3>0. lineNumber % 7 = 5
      <4>1. Len(quizzes') # Len(quizzes)
        BY <2>2
      <4> QED BY <1>2, <4>1
    <3>1. j = Len(quizzes) + 1 /\ lineNumber % 7 = 5
      <4>1. PICK k \in Nat : k = Len(quizzes)
        BY <1>1
      <4>2. Len(quizzes') = k + 1
        BY <1>2, <3>0, <4>1
      <4>3. j \in 1 .. k + 1 /\ j \notin 1 .. k
        BY <2>2, <4>1, <4>2
      <4>4. j = k + 1
        BY <4>3
      <4> QED BY <3>0, <4>1, <4>4
    <3>2. 7 * j - 2 = lineNumber /\ 7 * j - 1 = lineNumber + 1 /\ j = lineNumber \div 7 + 1
      BY <1>1, <1>2, <3>1
    <3>3. Clean(lineNumber)
      BY <3>1 DEF LoopInv
    <3>4. Clean(lineNumber + 1) => quizzes'[j] = file.questions[j]
      BY <1>2, <3>1, <3>2
    <3> QED BY <1>5, <3>2, <3>3, <3>4 DEF ReadOK
  <2> QED BY <2>1, <2>2
<1>7. LoopInv'
  <2>1. (lineNumber + 1) % 7 = 5 => lineNumber % 7 = 4
    BY <1>1, TurnNumbers
  <2>2. /\ lineNumber' <= 7 * Len(file'.questions)
        /\ Len(quizzes') = (lineNumber' + 1) \div 7
        /\ written' = 0
    BY <1>1, <1>2
  <2>3. (Clean(lineNumber))' = Clean(lineNumber + 1)
    BY DEF Clean
  <2>4. status' = "reading" /\ lineNumber' % 7 = 5 => (Clean(lineNumber))'
    BY <2>1, <2>3
  <2>5. status' = "reading" /\ lineNumber' % 7 < 6 /\ (Clean(lineNumber))' =>
          (Partly(file.questions[lineNumber \div 7 + 1], lineNumber % 7))'
    <3>1. /\ file'.questions[lineNumber' \div 7 + 1] = q
          /\ lineNumber' % 7 = r
      OBVIOUS
    <3> QED BY <2>3, <3>1 DEF Partly
  <2> QED BY <1>6, <2>2, <2>4, <2>5 DEF LoopInv
<1> QED BY <1>3, <1>4, <1>7 DEF WriteInv

LEMMA ReadLineStep == IInv /\ ReadLine => IInv'
<1> SUFFICES ASSUME IInv, ReadLine PROVE IInv'
  OBVIOUS
<1>1. PICK line : line = Line(file, lineNumber + 5)
  OBVIOUS
<1>2. TypeInv /\ lineNumber \in Nat /\ quiz \in Dictionaries
  BY DEF IInv, TypeInv
<1>3. /\ status = "reading" /\ lineNumber + 4 < LineCount(file) /\ lineNumber' = lineNumber + 1
      /\ UNCHANGED <<file, written, docs, runs, longest>>
  BY DEF ReadLine
<1>4. PICK r \in 0 .. 6 : r = lineNumber % 7
  BY <1>2, DivMod
<1>5. PICK k \in Nat : k = lineNumber \div 7
  BY <1>2, DivMod
<1>6. PICK q \in Questions : q = file.questions[k + 1]
  BY <1>1, <1>2, <1>3, <1>5, TheLine, FileFacts
<1>7. PICK nq : nq = file.questions[(lineNumber + 1) \div 7 + 1]
  OBVIOUS
<1>8. PICK nr : nr = (lineNumber + 1) % 7
  OBVIOUS
<1>9. /\ line \in Seq(Texts)
      /\ Clean(lineNumber + 1) => line = LineOf(q, r)
      /\ ~Clean(lineNumber + 1) /\ r = 4 => Len(line) = 1
  BY <1>1, <1>2, <1>3, <1>4, <1>5, <1>6, TheLine
<1>10. /\ r < 6 => nq = q /\ nr = r + 1
       /\ r = 6 => nr = 0
  BY <1>2, <1>4, <1>5, <1>6, <1>7, <1>8, DivMod
<1>11. Clean(lineNumber + 1) => Clean(lineNumber)
  BY <1>2, CleanBefore
<1>12. r < 6 /\ Clean(lineNumber) => Partly(q, r)
  BY <1>3, <1>4, <1>5, <1>6 DEF IInv, LoopInv
<1>13. r = 5 => Clean(lineNumber)
  BY <1>3, <1>4 DEF IInv, LoopInv
<1>14. /\ KeyOf[1] = "Question" /\ KeyOf[6] = "Answer"
       /\ KeyOf[1] \in Texts /\ KeyOf[6] \in Texts
  <2>1. KeyOf[1] = "Question" /\ KeyOf[6] = "Answer"
    BY DEF KeyOf
  <2> QED BY <2>1, KeysAre
<1>15. CASE r = 0 /\ quiz' = With(quiz, "Question", line) /\ UNCHANGED <<quizzes, status>>
  <2>1. quiz' \in Dictionaries
    BY <1>2, <1>9, <1>14, <1>15, DictionaryWith
  <2>2. Clean(lineNumber + 1) => Partly(nq, nr)'
    <3> SUFFICES ASSUME Clean(lineNumber + 1) PROVE Partly(nq, nr)'
      OBVIOUS
    <3>1. 0 \in 0 .. 5 /\ 0 + 1 = 1 /\ nr = 1 /\ nq = q
      BY <1>10, <1>15
    <3>2. line = q[KeyOf[1]]
      BY <1>9, <1>14, <1>15, LinesOfQuestion
    <3>3. Partly(q, 0)
      BY <1>11, <1>12, <1>15
    <3>4. quiz' = With(quiz, KeyOf[0 + 1], q[KeyOf[0 + 1]])
      BY <1>14, <1>15, <3>1, <3>2
    <3>5. /\ DOMAIN quiz' = {KeyOf[i] : i \in 1 .. 0 + 1}
          /\ \A key \in DOMAIN quiz' : quiz'[key] = q[key]
      BY <3>1, <3>3, <3>4, PartlyWith
    <3> QED BY <3>1, <3>5 DEF Partly
  <2>3. lineNumber % 7 # 5 /\ lineNumber % 7 # 4
    BY <1>4, <1>15
  <2> QED BY <1>3, <1>7, <1>8, <1>15, <2>1, <2>2, <2>3, TurnStep
<1>16. CASE r = 5 /\ quiz' = With(quiz, "Answer", line) /\ quizzes' = Append(quizzes, quiz')
            /\ UNCHANGED status
  <2>1. quiz' \in Dictionaries
    BY <1>2, <1>9, <1>14, <1>16, DictionaryWith
  <2>2. Partly(q, 5)
    BY <1>12, <1>13, <1>16
  <2>3. DOMAIN quiz' = Keys
    <3>1. 1 .. 6 = (1 .. 5) \union {6}
      OBVIOUS
    <3>2. Keys = {KeyOf[i] : i \in 1 .. 5} \union {KeyOf[6]}
      <4>1. Keys = {KeyOf[i] : i \in 1 .. 6}
        BY KeysAre
      <4> QED BY <3>1, <4>1
    <3>3. DOMAIN quiz' = DOMAIN quiz \union {KeyOf[6]}
      BY <1>14, <1>16 DEF With
    <3> QED BY <2>2, <3>2, <3>3 DEF Partly
  <2>4. quiz' \in Questions
    BY <1>2, <1>9, <1>16, <2>3, QuestionWith
  <2>5. Clean(lineNumber + 1) => quiz' = q
    <3> SUFFICES ASSUME Clean(lineNumber + 1) PROVE quiz' = q
      OBVIOUS
    <3>1. 5 \in 0 .. 5 /\ 5 + 1 = 6
      OBVIOUS
    <3>2. line = q[KeyOf[6]]
      BY <1>9, <1>14, <1>16, LinesOfQuestion
    <3>3. quiz' = With(quiz, KeyOf[5 + 1], q[KeyOf[5 + 1]])
      BY <1>14, <1>16, <3>1, <3>2
    <3>4. \A key \in DOMAIN quiz' : quiz'[key] = q[key]
      BY <2>2, <3>1, <3>3, PartlyWith
    <3> QED BY <2>3, <2>4, <3>4 DEF Questions
  <2>6. ~(nr < 6) /\ lineNumber % 7 = 5 /\ lineNumber % 7 # 4
    BY <1>4, <1>10, <1>16
  <2>7. Clean(lineNumber + 1) => quiz' = file.questions[lineNumber \div 7 + 1]
    BY <1>5, <1>6, <2>5
  <2> QED BY <1>3, <1>7, <1>8, <1>16, <2>1, <2>4, <2>6, <2>7, TurnStep
<1>17. CASE r = 6 /\ quiz' = <<>> /\ UNCHANGED <<quizzes, status>>
  <2>1. quiz' \in Dictionaries /\ DOMAIN quiz' = {} /\ 1 .. 0 = {}
    BY <1>17, EmptyDictionary
  <2>2. Partly(nq, nr)'
    BY <1>10, <1>17, <2>1 DEF Partly
  <2>3. lineNumber % 7 # 5 /\ lineNumber % 7 # 4
    BY <1>4, <1>17
  <2> QED BY <1>3, <1>7, <1>8, <1>17, <2>1, <2>2, <2>3, TurnStep
<1>18. CASE /\ r \in 1 .. 4 /\ Len(line) = 2
            /\ quiz' = With(quiz, line[1], <<line[2]>>) /\ UNCHANGED <<quizzes, status>>
  <2>1. quiz' \in Dictionaries
    <3>1. line[1] \in Texts /\ line[2] \in Texts
      BY <1>9, <1>18
    <3>2. <<line[2]>> \in Seq(Texts)
      BY <3>1
    <3> QED BY <1>2, <1>18, <3>1, <3>2, DictionaryWith
  <2>2. Clean(lineNumber + 1) => Partly(nq, nr)'
    <3> SUFFICES ASSUME Clean(lineNumber + 1) PROVE Partly(nq, nr)'
      OBVIOUS
    <3>1. r \in 0 .. 5 /\ r < 6 /\ nr = r + 1 /\ nq = q
      BY <1>10, <1>18
    <3>2. line[1] = KeyOf[r + 1] /\ <<line[2]>> = q[KeyOf[r + 1]]
      BY <1>9, <1>18, OptionLine
    <3>3. Partly(q, r)
      BY <1>11, <1>12, <3>1
    <3>4. quiz' = With(quiz, KeyOf[r + 1], q[KeyOf[r + 1]])
      BY <1>18, <3>2
    <3>5. /\ DOMAIN quiz' = {KeyOf[i] : i \in 1 .. r + 1}
          /\ \A key \in DOMAIN quiz' : quiz'[key] = q[key]
      BY <3>1, <3>3, <3>4, PartlyWith
    <3> QED BY <3>1, <3>5 DEF Partly
  <2>3. lineNumber % 7 # 5 /\ (lineNumber % 7 = 4 => Clean(lineNumber + 1))
    BY <1>4, <1>9, <1>18
  <2> QED BY <1>3, <1>7, <1>8, <1>18, <2>1, <2>2, <2>3, TurnStep
<1>19. CASE r \in 1 .. 4 /\ status' = "raised" /\ UNCHANGED <<quiz, quizzes>>
  <2>1. lineNumber % 7 # 5 /\ quiz' \in Dictionaries
    BY <1>2, <1>4, <1>19
  <2>2. status' # "reading"
    BY <1>19
  <2> QED BY <1>3, <1>7, <1>8, <1>19, <2>1, <2>2, TurnStep
<1> QED BY <1>1, <1>4, <1>15, <1>16, <1>17, <1>18, <1>19 DEF ReadLine

LEMMA AllReadStep == IInv /\ AllRead => IInv'
<1> SUFFICES ASSUME IInv, AllRead PROVE IInv'
  OBVIOUS
<1> USE DEF IInv
<1>1. PICK n \in Nat : n = Len(quizzes)
  BY DEF TypeInv
<1>2. PICK c : c = category(file)
  OBVIOUS
<1>3. /\ status = "reading" /\ lineNumber + 4 >= LineCount(file) /\ status' = "writing"
      /\ longest' = [longest EXCEPT ![c] = IF longest[c] < n THEN n ELSE longest[c]]
      /\ UNCHANGED <<file, lineNumber, quiz, quizzes, written, docs, runs>>
  BY <1>1, <1>2 DEF AllRead
<1>4. longest' \in [Categories -> Nat] /\ \A d \in Categories : longest[d] <= longest'[d]
  <2>1. /\ longest \in [Categories -> Nat]
        /\ DOMAIN longest' = Categories
        /\ \A d \in Categories : d # c => longest'[d] = longest[d]
        /\ c \in Categories => longest'[c] = IF longest[c] < n THEN n ELSE longest[c]
        /\ longest' = [d \in Categories |-> longest'[d]]
    BY <1>3 DEF TypeInv
  <2>2. \A d \in Categories : longest'[d] \in Nat /\ longest[d] <= longest'[d]
    <3> TAKE d \in Categories
    <3>1. PICK m \in Nat : m = longest[d]
      BY <2>1
    <3>2. longest'[d] = m \/ (longest'[d] = n /\ m < n)
      BY <2>1, <3>1
    <3> QED BY <3>1, <3>2
  <2> QED BY <2>1, <2>2
<1>5. TypeInv'
  BY <1>3, <1>4 DEF TypeInv
<1>6. DocsInv'
  <2> SUFFICES ASSUME NEW d \in Categories, NEW m \in DOMAIN docs[d]
               PROVE  m \in 0 .. longest'[d] - 1
    BY <1>3 DEF DocsInv
  <2>1. m \in 0 .. longest[d] - 1
    BY DEF DocsInv
  <2>2. longest[d] \in Nat /\ longest'[d] \in Nat /\ longest[d] <= longest'[d]
    BY <1>4 DEF TypeInv
  <2> QED BY <2>1, <2>2
<1>7. LoopInv'
  BY <1>3 DEF LoopInv, ReadOK, Clean
<1>8. n = Len(file.questions)
  <2>1. PICK N \in Nat : N = Len(file.questions)
    BY FileFacts
  <2>2. PICK L \in Nat : L = 4 + 7 * N
    BY <2>1
  <2>3. LineCount(file) = L \/ LineCount(file) = L - 1
    <3>1. IntendedLines(file) = L
      BY <2>1, <2>2 DEF IntendedLines
    <3>2. LineCount(file) = L - 0 \/ LineCount(file) = L - 1
      BY <3>1 DEF LineCount
    <3> QED BY <3>2
  <2>4. PICK l \in Nat : l = lineNumber
    BY DEF TypeInv
  <2>5. l + 4 >= L - 1 /\ l <= 7 * N
    BY <1>3, <2>1, <2>2, <2>3, <2>4 DEF LoopInv
  <2>6. (l + 1) \div 7 = N
    BY <2>2, <2>5
  <2> QED BY <1>1, <2>1, <2>4, <2>6 DEF LoopInv
<1>9. WriteInv'
  <2>1. CASE quizzes = <<>>
    <3>1. written = Len(quizzes)
      BY <2>1 DEF TypeInv
    <3> QED BY <1>1, <1>3, <1>8, <2>1, <3>1 DEF WriteInv
  <2>2. CASE quizzes # <<>>
    <3>1. c = file.category /\ c \in Categories
      BY <1>2, <2>2, CategoryIs
    <3>2. n <= longest'[c]
      <4>1. PICK m \in Nat : m = longest[c]
        BY <3>1 DEF TypeInv
      <4>2. longest'[c] = IF m < n THEN n ELSE m
        BY <1>3, <3>1, <4>1 DEF TypeInv
      <4> QED BY <4>2
    <3>3. 0 .. written' - 1 = {}
      BY <1>3 DEF LoopInv
    <3> QED BY <1>1, <1>3, <1>8, <3>1, <3>2, <3>3 DEF WriteInv
  <2> QED BY <2>1, <2>2
<1> QED BY <1>5, <1>6, <1>7, <1>9

LEMMA InvStep == IInv /\ [Next]_vars => IInv'
<1> SUFFICES ASSUME IInv, [Next]_vars PROVE IInv'
  OBVIOUS
<1>1. CASE UNCHANGED vars
  BY <1>1 DEF vars, IInv, TypeInv, DocsInv, LoopInv, ReadOK, Clean, Partly, WriteInv
<1>2. CASE Next
  BY <1>2, RunStep, ReadLineStep, AllReadStep, SetStep, FinishStep, CrashStep DEF Next
<1> QED BY <1>1, <1>2

LEMMA IInvAlways == Spec => []IInv
BY InvInit, InvStep, PTL DEF Spec

-----------------------------------------------------------------------------
(* The digits of a number: str is a recursive function, so that one such   *)
(* function exists has to be shown, by least counterexamples.              *)

LEMMA Least ==
  ASSUME NEW T, T \subseteq Nat, T # {}
  PROVE  \E n \in T : \A m \in T : n <= m
<1> DEFINE R == OpToRel(<, Nat)
<1>1. IsWellFoundedOn(R, Nat)
  BY NatLessThanWellFounded, Zenon
<1>2. PICK n \in T : \A m \in T : <<m, n>> \notin R
  <2> HIDE DEF R
  <2> QED BY <1>1, WFMin
<1>3. \A m \in T : ~(m < n)
  BY <1>2 DEF OpToRel
<1> QED BY <1>3

\* The digits of n, given those of smaller numbers.
Digits(g, n) == IF n < 10 THEN <<n>> ELSE Append(g[n \div 10], n % 10)

\* g is str up to n.
Approx(n, g) == DOMAIN g = 0 .. n /\ \A m \in 0 .. n : g[m] = Digits(g, m)

LEMMA DigitsAgree ==
  ASSUME NEW n \in Nat, NEW k \in Nat, NEW g, NEW h, Approx(n, g), Approx(k, h),
         NEW m \in Nat, m <= n, m <= k
  PROVE  g[m] = h[m]
<1> SUFFICES ASSUME g[m] # h[m] PROVE FALSE
  OBVIOUS
<1> DEFINE T == {i \in 0 .. m : g[i] # h[i]}
<1>1. T \subseteq Nat /\ T # {}
  OBVIOUS
<1>2. PICK i \in T : \A j \in T : i <= j
  BY <1>1, Least
<1>3. i \in Nat /\ i <= m /\ g[i] # h[i]
  OBVIOUS
<1>4. g[i] = Digits(g, i) /\ h[i] = Digits(h, i)
  <2>1. i \in 0 .. n /\ i \in 0 .. k
    BY <1>3
  <2> QED BY <2>1 DEF Approx
<1>5. CASE i < 10
  BY <1>3, <1>4, <1>5 DEF Digits
<1>6. CASE ~(i < 10)
  <2>1. i \div 10 \in Nat /\ i \div 10 < i
    BY <1>3, <1>6
  <2>2. i \div 10 \in 0 .. m /\ i \div 10 \notin T
    BY <1>2, <1>3, <2>1
  <2>3. g[i \div 10] = h[i \div 10]
    BY <2>2
  <2> QED BY <1>3, <1>4, <1>6, <2>3 DEF Digits
<1> QED BY <1>5, <1>6

LEMMA ApproxExists == \A n \in Nat : \E g : Approx(n, g)
<1> SUFFICES ASSUME NEW k \in Nat, ~(\E g : Approx(k, g)) PROVE FALSE
  OBVIOUS
<1> DEFINE T == {i \in Nat : ~(\E g : Approx(i, g))}
<1>1. PICK n \in T : \A j \in T : n <= j
  <2>1. T \subseteq Nat /\ T # {}
    OBVIOUS
  <2> HIDE DEF T
  <2> QED BY <2>1, Least
<1>2. n \in Nat
  OBVIOUS
<1>3. CASE n = 0
  <2> DEFINE g == [m \in 0 .. 0 |-> <<m>>]
  <2>1. Approx(0, g)
    BY DEF Approx, Digits
  <2> HIDE DEF g
  <2> QED BY <1>3, <2>1
<1>4. CASE n # 0
  <2>1. PICK p \in Nat : n = p + 1
    BY <1>2, <1>4
  <2>2. p \notin T
    <3>1. ~(n <= p)
      BY <2>1
    <3> HIDE DEF T
    <3> QED BY <1>1, <3>1
  <2>3. PICK g : Approx(p, g)
    BY <2>2
  <2> DEFINE h == [m \in 0 .. n |-> IF m <= p THEN g[m] ELSE Digits(g, n)]
  <2>4. /\ DOMAIN h = 0 .. n
        /\ \A m \in 0 .. p : h[m] = g[m]
        /\ h[n] = Digits(g, n)
    BY <1>2, <2>1
  <2> HIDE DEF h
  <2>5. ASSUME NEW m \in 0 .. n PROVE h[m] = Digits(h, m)
    <3>1. ~(m < 10) => m \div 10 \in 0 .. p
      BY <1>2, <2>1
    <3>2. Digits(h, m) = Digits(g, m)
      BY <2>4, <3>1 DEF Digits
    <3>3. CASE m \in 0 .. p
      BY <2>3, <2>4, <3>2, <3>3 DEF Approx
    <3>4. CASE m = n
      BY <2>4, <3>2, <3>4
    <3> QED BY <1>2, <2>1, <3>3, <3>4
  <2>6. Approx(n, h)
    BY <2>4, <2>5 DEF Approx
  <2> QED BY <2>6
<1> QED BY <1>3, <1>4

LEMMA StrIs == str = [n \in Nat |-> Digits(str, n)]
<1> DEFINE a(n) == CHOOSE g : Approx(n, g)
<1>1. ASSUME NEW n \in Nat PROVE Approx(n, a(n))
  BY ApproxExists
<1> HIDE DEF a
<1> DEFINE G == [n \in Nat |-> a(n)[n]]
<1>2. \A n \in Nat : G[n] = a(n)[n]
  OBVIOUS
<1>3. ASSUME NEW n \in Nat PROVE G[n] = Digits(G, n)
  <2>1. G[n] = Digits(a(n), n)
    <3>1. n \in 0 .. n
      OBVIOUS
    <3> QED BY <1>1, <1>2, <3>1 DEF Approx
  <2>2. CASE n < 10
    BY <2>1, <2>2 DEF Digits
  <2>3. CASE ~(n < 10)
    <3>1. PICK m \in Nat : m = n \div 10 /\ m <= n
      BY <2>3
    <3>2. a(n)[m] = a(m)[m]
      BY <1>1, <3>1, DigitsAgree
    <3>3. a(n)[m] = G[m]
      BY <1>2, <3>2
    <3> HIDE DEF G
    <3> QED BY <2>1, <3>1, <3>3 DEF Digits
  <2> QED BY <2>2, <2>3
<1>4. G = [n \in Nat |-> Digits(G, n)]
  <2>1. G = [n \in Nat |-> G[n]]
    OBVIOUS
  <2> HIDE DEF G
  <2> QED BY <1>3, <2>1
<1> HIDE DEF G
<1>5. \E f : f = [n \in Nat |-> IF n < 10 THEN <<n>> ELSE Append(f[n \div 10], n % 10)]
  BY <1>4 DEF Digits
<1>6. str = [n \in Nat |-> IF n < 10 THEN <<n>> ELSE Append(str[n \div 10], n % 10)]
  BY <1>5 DEF str
<1> QED BY <1>6 DEF Digits

LEMMA OneDigit ==
  ASSUME NEW n \in 0 .. 9
  PROVE  str[n] = <<n>>
<1>1. n \in Nat /\ n < 10
  OBVIOUS
<1>2. str[n] = Digits(str, n)
  BY <1>1, StrIs
<1> QED BY <1>1, <1>2 DEF Digits

LEMMA BeforeIsLess ==
  ASSUME NEW m \in 0 .. 9, NEW n \in 0 .. 9
  PROVE  Before(m, n) <=> m < n
<1> DEFINE a == str[m]
           b == str[n]
<1>1. a = <<m>> /\ b = <<n>>
  BY OneDigit
<1>2. Before(m, n) <=> \/ Len(a) < Len(b) /\ SubSeq(b, 1, Len(a)) = a
                       \/ \E k \in DOMAIN a \intersect DOMAIN b :
                            a[k] < b[k] /\ \A j \in 1 .. k - 1 : a[j] = b[j]
  BY DEF Before
<1> HIDE DEF a, b
<1>3. Len(a) = 1 /\ Len(b) = 1 /\ DOMAIN a \intersect DOMAIN b = {1} /\ a[1] = m /\ b[1] = n
  BY <1>1
<1>4. 1 .. 1 - 1 = {} /\ ~(1 < 1)
  OBVIOUS
<1> QED BY <1>2, <1>3, <1>4

LEMMA Numbered ==
  ASSUME NEW n \in Nat
  PROVE  IsFiniteSet(0 .. n - 1) /\ Cardinality(0 .. n - 1) = n
<1>1. 0 \in Int /\ n - 1 \in Int
  OBVIOUS
<1>2. /\ IsFiniteSet(0 .. n - 1)
      /\ Cardinality(0 .. n - 1) = IF 0 > n - 1 THEN 0 ELSE (n - 1) - 0 + 1
  BY <1>1, FS_Interval
<1> QED BY <1>2

\* At most ten documents, numbered without gaps, are fetched in their order.
LEMMA FetchedInOrder ==
  ASSUME NEW c, NEW N \in 0 .. 10, DOMAIN docs[c] = 0 .. N - 1
  PROVE  Fetched(c) = [k \in 1 .. N |-> docs[c][k - 1]]
<1> DEFINE ids == 0 .. N - 1
           At(k) == CHOOSE n \in ids : Cardinality({m \in ids : Before(m, n)}) = k - 1
<1>1. Cardinality(ids) = N
  BY Numbered
<1>2. ASSUME NEW n \in ids
      PROVE  Cardinality({m \in ids : Before(m, n)}) = n
  <2>1. ids \subseteq 0 .. 9 /\ n \in Nat
    OBVIOUS
  <2>2. {m \in ids : Before(m, n)} = {m \in ids : m < n}
    BY <2>1, BeforeIsLess
  <2>3. {m \in ids : m < n} = 0 .. n - 1
    OBVIOUS
  <2> QED BY <2>1, <2>2, <2>3, Numbered
<1>3. ASSUME NEW k \in 1 .. N
      PROVE  At(k) = k - 1
  <2>1. k - 1 \in ids
    OBVIOUS
  <2>2. Cardinality({m \in ids : Before(m, k - 1)}) = k - 1
    BY <1>2, <2>1
  <2>3. At(k) \in ids /\ Cardinality({m \in ids : Before(m, At(k))}) = k - 1
    <3> HIDE DEF ids
    <3> QED BY <2>1, <2>2
  <2> HIDE DEF At
  <2> QED BY <1>2, <2>3
<1>4. Fetched(c) = [k \in 1 .. Cardinality(ids) |-> docs[c][At(k)]]
  BY DEF Fetched
<1> HIDE DEF ids, At
<1> QED BY <1>1, <1>3, <1>4

-----------------------------------------------------------------------------
(* The theorems.                                                           *)

\* The script's variables and the documents have their types, and a category has
\* no document beyond the longest file that was ever uploaded to it
\* (document(str(quizNumber)).set).
THEOREM UploaderTypes == Spec => []TypeOK
<1>1. IInv => TypeOK
  <2> SUFFICES ASSUME IInv PROVE TypeOK
    OBVIOUS
  <2>1. \A d \in Dictionaries : IsQuestion(d)
    BY DEF Dictionaries, IsQuestion
  <2>2. \A q \in Questions : IsQuestion(q)
    BY KeysAre DEF Questions, IsQuestion
  <2>3. \A k \in DOMAIN quizzes : IsQuestion(quizzes[k])
    BY <2>2 DEF IInv, TypeInv
  <2>4. \A c \in Categories : /\ DOMAIN docs[c] \subseteq 0 .. longest[c] - 1
                              /\ \A n \in DOMAIN docs[c] : IsQuestion(docs[c][n])
    BY <2>2 DEF IInv, DocsInv
  <2> QED BY <2>1, <2>3, <2>4 DEF IInv, TypeInv, DocsInv, TypeOK
<1> QED BY <1>1, IInvAlways, PTL

\* Whatever line of whatever file is missing, no document lacks a key that
\* nextQuestion or checkIfCorrect unwraps: an answer is only read after the
\* question's own four options (lineNumber % 7, quizzes.append).
THEOREM UnwrapCorrect == Spec => []NothingToUnwrapIsMissing
<1>1. IInv => NothingToUnwrapIsMissing
  BY DEF IInv, DocsInv, Questions, NothingToUnwrapIsMissing
<1> QED BY <1>1, IInvAlways, PTL

\* A run that gets to write has read every question but the last as it was
\* meant: a line missing before it would have put an answer, which is one
\* part, where the fourth option is split in two.
THEOREM MissingCorrect == Spec => []MissingLineIsNoticed
<1>1. IInv => MissingLineIsNoticed
  <2> SUFFICES ASSUME IInv, status \in {"writing", "done"}
               PROVE  /\ Len(quizzes) <= Len(file.questions)
                      /\ \A k \in DOMAIN quizzes :
                           k < Len(file.questions) => quizzes[k] = file.questions[k]
    BY DEF MissingLineIsNoticed
  <2>1. PICK N \in Nat : N = Len(file.questions) /\ N = Len(quizzes)
    BY FileFacts DEF IInv, WriteInv
  <2>2. DOMAIN quizzes = 1 .. N
    BY <2>1 DEF IInv, TypeInv
  <2>3. ASSUME NEW k \in 1 .. N, k < N
        PROVE  quizzes[k] = file.questions[k]
    <3>1. N \in 1 .. N
      BY <2>3
    <3>2. Clean(7 * N - 2)
      BY <2>1, <3>1 DEF IInv, LoopInv, ReadOK
    <3>3. 7 * k - 1 \in Nat /\ 7 * N - 2 \in Nat /\ 7 * k - 1 <= 7 * N - 2
      BY <2>3
    <3>4. Clean(7 * k - 1)
      BY <3>2, <3>3, CleanBefore DEF IInv
    <3> QED BY <2>1, <3>4 DEF IInv, LoopInv, ReadOK
  <2> QED BY <2>1, <2>2, <2>3
<1> QED BY <1>1, IInvAlways, PTL

\* The quiz asks the questions of a complete file of at most ten in their order,
\* and none of an earlier run, after any runs, cut off or not, with files that
\* were no longer: document(str(quizNumber)) and the order of the ids.
THEOREM AskedCorrect == Spec => []AskedInOrder
<1>1. IInv => AskedInOrder
  <2> SUFFICES ASSUME IInv, status = "done", file.missing = 0,
                      longest[file.category] <= Len(file.questions),
                      Len(file.questions) <= 10
               PROVE  Fetched(file.category) = file.questions
    BY DEF AskedInOrder
  <2>1. file.questions \in Seq(Questions) /\ file.category \in Categories
    <3>1. file \in Files
      BY DEF IInv, TypeInv
    <3> QED BY <3>1, UploaderAssumption DEF Questions
  <2>2. PICK c \in Categories : c = file.category
    BY <2>1
  <2>3. PICK N \in Nat : N = Len(file.questions) /\ N = Len(quizzes) /\ N \in 0 .. 10
    BY <2>1 DEF IInv, WriteInv
  <2>4. \A k \in 1 .. N : quizzes[k] = file.questions[k]
    BY <2>3 DEF IInv, LoopInv, ReadOK, Clean
  <2>5. longest[c] \in Nat /\ longest[c] <= N
    BY <2>2, <2>3 DEF IInv, TypeInv
  <2>6. DOMAIN docs[c] \subseteq 0 .. N - 1
    <3>1. 0 .. longest[c] - 1 \subseteq 0 .. N - 1
      BY <2>5
    <3> QED BY <3>1 DEF IInv, DocsInv
  <2>7. \A n \in 0 .. N - 1 : n \in DOMAIN docs[c] /\ docs[c][n] = quizzes[n + 1]
    <3>1. CASE N = 0
      BY <3>1
    <3>2. CASE N # 0
      <4>1. quizzes # <<>> /\ written = N
        BY <2>3, <3>2 DEF IInv, WriteInv
      <4> QED BY <2>2, <4>1 DEF IInv, WriteInv
    <3> QED BY <3>1, <3>2
  <2>8. DOMAIN docs[c] = 0 .. N - 1
    BY <2>6, <2>7
  <2>9. Fetched(c) = [k \in 1 .. N |-> docs[c][k - 1]]
    BY <2>3, <2>8, FetchedInOrder
  <2>10. \A k \in 1 .. N : docs[c][k - 1] = file.questions[k]
    <3> TAKE k \in 1 .. N
    <3>1. k - 1 \in 0 .. N - 1 /\ (k - 1) + 1 = k
      OBVIOUS
    <3> QED BY <2>4, <2>7, <3>1
  <2>11. file.questions = [k \in 1 .. N |-> file.questions[k]]
    <3>1. file.questions \in [1 .. N -> Questions]
      BY <2>1, <2>3, LenProperties
    <3> QED BY <3>1
  <2> QED BY <2>2, <2>9, <2>10, <2>11
<1> QED BY <1>1, IInvAlways, PTL
=============================================================================
