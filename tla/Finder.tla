------------------------------- MODULE Finder -------------------------------
(***************************************************************************)
(* The script that fills the database: it goes through the rows of a saved *)
(* page, numbers categories and lessons on the way, searches YouTube for   *)
(* each lesson and writes a document for the category, the lesson and each *)
(* video of ten minutes or less.                                           *)
(*                                                                         *)
(* Every call may raise, which ends the script; it keeps nothing, so the   *)
(* next run starts over, on the documents of the runs before and with      *)
(* whatever the search then answers.                                       *)
(***************************************************************************)
EXTENDS Integers, Sequences, FiniteSets, FiniteSetsExt, SequencesExt

CONSTANTS
  Tables,      \* pages: sequences of rows, a row being text.split(": ")
  None,        \* Python's None
  Videos,      \* what YouTube has
  Length,      \* the time each video takes: days, hours, minutes, seconds
  MaxFound,    \* bound: videos in the answer of a search
  MaxRuns      \* bound: runs of the script

Times == [days: Nat, hours: 0 .. 23, minutes: 0 .. 59, seconds: 0 .. 59]

Rows == UNION {Range(t) : t \in Tables}

Names == UNION {Range(r) : r \in Rows}

ASSUME FinderAssumption ==
  /\ \A t \in Tables : t \in Seq(Seq(Names))
  /\ None \notin Names
  /\ Length \in [Videos -> Times]
  /\ MaxFound \in Nat
  /\ MaxRuns \in Nat

VARIABLES
  table,            \* the rows of Results.html
  pc,               \* the next call of the script, or how it ended
  row,              \* the row of the loop
  categoryNumber, lessonNumber, previousCategory,
  items,            \* videos of the search still to look at
  docs,             \* the documents below "Courses", by path
  runs,             \* times the script was started
  crashed,          \* history: some run has raised
  answered          \* history: the paths of the videos this run was offered

vars == <<table, pc, row, categoryNumber, lessonNumber, previousCategory, items,
          docs, runs, crashed, answered>>

Labels == {"idle", "grade", "rows", "videos", "category", "lesson", "video",
           "done", "raised"}

subject == "Math"
grade == "2nd grade"

lesson == table[row][1]
category == table[row][2]

categoryRef == <<subject, grade, category>>
lessonRef == Append(categoryRef, lesson)

\* The answers search().list() may give.
Answers == {s \in UNION {[1 .. n -> Videos] : n \in 0 .. MaxFound} :
              IsInjective(s)}

Documents ==
  [type: {"Subject", "Grade"}]
    \union [type: {"Category", "Lesson"}, id: Int]
    \union [type: {"Video"}, duration: Nat]

Init ==
  /\ table \in Tables
  /\ pc = "idle"
  /\ row = 1
  /\ categoryNumber = -1
  /\ lessonNumber = 0
  /\ previousCategory = None
  /\ items = <<>>
  /\ docs = <<>>
  /\ runs = 0
  /\ crashed = FALSE
  /\ answered = {}

-----------------------------------------------------------------------------
\* YouTube writes a duration as ISO 8601 and leaves out the zero parts; this
\* is the text as groupby(_, str.isalpha) cuts it, with the numbers read.
ISO8601(t) ==
  LET part(n, unit) == IF n = 0 THEN <<>> ELSE <<n, unit>>
      time == part(t.hours, "H") \o part(t.minutes, "M") \o part(t.seconds, "S")
  IN  IF time = <<>> THEN <<"P", t.days, "D">>
      ELSE IF t.days = 0 THEN <<"PT">> \o time
      ELSE <<"P", t.days, "DT">> \o time

timeValueInSeconds == [H |-> 3600, M |-> 60, S |-> 1]

\* The numbers and units of a duration, after listTime.pop(0).
listTime(v) == Tail(ISO8601(Length[v]))

\* Every unit is in timeValueInSeconds; otherwise the script raises KeyError.
UnitsKnown(v) ==
  \A k \in 1 .. Len(listTime(v)) :
    k % 2 = 0 => listTime(v)[k] \in DOMAIN timeValueInSeconds

\* Mutant: units by position from the end, as the commented-out regular
\* expression and reverse() of the source did.
durationInSeconds_ByPosition(v) ==
  LET n == Len(listTime(v)) \div 2
  IN  MapThenSumSet(LAMBDA k : listTime(v)[2 * k - 1]
                                 * (CASE n - k = 0 -> 1
                                      [] n - k = 1 -> 60
                                      [] n - k = 2 -> 3600), 1 .. n)

durationInSeconds(v) ==
  MapThenSumSet(LAMBDA k : listTime(v)[2 * k - 1]
                             * timeValueInSeconds[listTime(v)[2 * k]],
                1 .. Len(listTime(v)) \div 2)

\* document(path).set(value) replaces the document.
Set(path, value) ==
  docs' = [p \in DOMAIN docs \union {path} |->
             IF p = path THEN value ELSE docs[p]]

\* An exception ends the script.
Raise == /\ pc' = "raised"
         /\ crashed' = TRUE

-----------------------------------------------------------------------------
\* The script starts with the document of the subject ...
Start ==
  /\ pc \in {"idle", "done", "raised"}
  /\ runs < MaxRuns
  /\ runs' = runs + 1
  /\ Set(<<subject>>, [type |-> "Subject"])
  /\ pc' = "grade"
  /\ items' = <<>>
  /\ answered' = {}
  /\ UNCHANGED <<table, row, categoryNumber, lessonNumber, previousCategory,
                 crashed>>

\* ... and of the grade, then reads the page.
SetGrade ==
  /\ pc = "grade"
  /\ Set(<<subject, grade>>, [type |-> "Grade"])
  /\ pc' = "rows"
  /\ row' = 1
  /\ categoryNumber' = -1
  /\ lessonNumber' = 0
  /\ previousCategory' = None
  /\ UNCHANGED <<table, items, runs, crashed, answered>>

\* Mutant: lessonNumber goes on counting in the next category.
Numbering_NoReset ==
  \/ /\ previousCategory # category
     /\ categoryNumber' = categoryNumber + 1
     /\ previousCategory' = category
     /\ UNCHANGED lessonNumber
  \/ /\ previousCategory = category
     /\ UNCHANGED <<categoryNumber, lessonNumber, previousCategory>>

\* A row of another category than the one before begins a new number.
Numbering ==
  \/ /\ previousCategory # category
     /\ categoryNumber' = categoryNumber + 1
     /\ lessonNumber' = 0
     /\ previousCategory' = category
  \/ /\ previousCategory = category
     /\ UNCHANGED <<categoryNumber, lessonNumber, previousCategory>>

\* Mutant: the lesson's document is written before the search.
NextRow_SetsLesson ==
  /\ pc = "rows" /\ row <= Len(table) /\ Len(table[row]) = 2
  /\ Numbering
  /\ \E found \in Answers :
       /\ items' = found
       /\ answered' = answered \union
                        {Append(lessonRef, v) : v \in Range(found)}
  /\ pc' = "videos"
  /\ Set(lessonRef, [type |-> "Lesson", id |-> lessonNumber'])
  /\ UNCHANGED <<table, row, runs, crashed>>

\* A row of the page: its two parts, the numbers, the search.  A text with
\* none or several ": " cannot be unpacked.
NextRow ==
  /\ pc = "rows"
  /\ row <= Len(table)
  /\ \/ /\ Len(table[row]) = 2
        /\ Numbering
        /\ \E found \in Answers :
             /\ items' = found
             /\ answered' = answered \union
                              {Append(lessonRef, v) : v \in Range(found)}
        /\ pc' = "videos"
        /\ UNCHANGED crashed
     \/ /\ Len(table[row]) # 2
        /\ Raise
        /\ UNCHANGED <<categoryNumber, lessonNumber, previousCategory, items,
                       answered>>
  /\ UNCHANGED <<table, row, docs, runs>>

\* Mutant: a long video ends the search's loop.
videosListById_StopsAtLong ==
  /\ pc = "videos"
  /\ items # <<>>
  /\ \/ /\ UnitsKnown(Head(items))
        /\ \/ durationInSeconds(Head(items)) <= 600 /\ pc' = "category"
                /\ UNCHANGED items
           \/ durationInSeconds(Head(items)) > 600 /\ items' = <<>>
                /\ UNCHANGED pc
        /\ UNCHANGED crashed
     \/ ~UnitsKnown(Head(items)) /\ Raise /\ UNCHANGED items
  /\ UNCHANGED <<table, row, categoryNumber, lessonNumber, previousCategory,
                 docs, runs, answered>>

\* The next video of the answer: uploaded if it is short enough.
videosListById ==
  /\ pc = "videos"
  /\ items # <<>>
  /\ \/ /\ UnitsKnown(Head(items))
        /\ \/ /\ durationInSeconds(Head(items)) <= 600
              /\ pc' = "category"
              /\ UNCHANGED items
           \/ /\ durationInSeconds(Head(items)) > 600
              /\ items' = Tail(items)
              /\ UNCHANGED pc
        /\ UNCHANGED crashed
     \/ /\ ~UnitsKnown(Head(items))
        /\ Raise
        /\ UNCHANGED items
  /\ UNCHANGED <<table, row, categoryNumber, lessonNumber, previousCategory,
                 docs, runs, answered>>

-----------------------------------------------------------------------------
\* Mutant: the lesson's own document is not written.
SetCategory_NoLesson ==
  /\ pc = "category"
  /\ Set(categoryRef, [type |-> "Category", id |-> categoryNumber])
  /\ pc' = "video"
  /\ UNCHANGED <<table, row, categoryNumber, lessonNumber, previousCategory,
                 items, runs, crashed, answered>>

\* uploadToFirestore is three calls, each answered before the next.
SetCategory ==
  /\ pc = "category"
  /\ Set(categoryRef, [type |-> "Category", id |-> categoryNumber])
  /\ pc' = "lesson"
  /\ UNCHANGED <<table, row, categoryNumber, lessonNumber, previousCategory,
                 items, runs, crashed, answered>>

SetLesson ==
  /\ pc = "lesson"
  /\ Set(lessonRef, [type |-> "Lesson", id |-> lessonNumber])
  /\ pc' = "video"
  /\ UNCHANGED <<table, row, categoryNumber, lessonNumber, previousCategory,
                 items, runs, crashed, answered>>

\* Mutant: lessonNumber += 1 is inside the loop over the videos.
SetVideo_CountsVideos ==
  /\ pc = "video"
  /\ Set(Append(lessonRef, Head(items)),
         [type |-> "Video", duration |-> durationInSeconds(Head(items))])
  /\ items' = Tail(items)
  /\ lessonNumber' = lessonNumber + 1
  /\ pc' = "videos"
  /\ UNCHANGED <<table, row, categoryNumber, previousCategory, runs, crashed,
                 answered>>

\* The counts and the score are set to 0 here; Feedback has them.
SetVideo ==
  /\ pc = "video"
  /\ Set(Append(lessonRef, Head(items)),
         [type |-> "Video", duration |-> durationInSeconds(Head(items))])
  /\ items' = Tail(items)
  /\ pc' = "videos"
  /\ UNCHANGED <<table, row, categoryNumber, lessonNumber, previousCategory,
                 runs, crashed, answered>>

\* getVideos returns.
RowDone ==
  /\ pc = "videos"
  /\ items = <<>>
  /\ lessonNumber' = lessonNumber + 1
  /\ row' = row + 1
  /\ pc' = "rows"
  /\ UNCHANGED <<table, categoryNumber, previousCategory, items, docs, runs,
                 crashed, answered>>

Finish ==
  /\ pc = "rows"
  /\ row > Len(table)
  /\ pc' = "done"
  /\ UNCHANGED <<table, row, categoryNumber, lessonNumber, previousCategory,
                 items, docs, runs, crashed, answered>>

\* A call of Firestore or of YouTube raises (HttpError, a video that is gone
\* since the search, no network), or the operator stops the script.
Crash ==
  /\ pc \notin {"idle", "done", "raised"}
  /\ Raise
  /\ UNCHANGED <<table, row, categoryNumber, lessonNumber, previousCategory,
                 items, docs, runs, answered>>

-----------------------------------------------------------------------------
Next ==
  \/ Start \/ SetGrade
  \/ NextRow \/ videosListById
  \/ SetCategory \/ SetLesson \/ SetVideo
  \/ RowDone \/ Finish
  \/ Crash

Spec == Init /\ [][Next]_vars

-----------------------------------------------------------------------------
TypeOK ==
  /\ table \in Tables
  /\ pc \in Labels
  /\ row \in 1 .. Len(table) + 1
  /\ categoryNumber \in -1 .. Len(table) - 1
  /\ lessonNumber \in 0 .. Len(table)
  /\ previousCategory \in Names \union {None}
  /\ items \in Seq(Videos)
  /\ IsInjective(items)
  /\ \A p \in DOMAIN docs : docs[p] \in Documents
  /\ runs \in Nat
  /\ crashed \in BOOLEAN
  /\ answered \subseteq
       {<<subject, grade, r[2], r[1], v>> :
          r \in {s \in Range(table) : Len(s) = 2}, v \in Videos}

\* The documents are a tree at every moment, wherever a run has stopped and
\* whatever the next one finds: no document is written before the one above
\* it (uploadToFirestore), which the catalog goes through to reach it, and
\* the depth of a document tells its type, by which the catalog opens it.
DocumentsAreATree ==
  \A p \in DOMAIN docs :
    /\ Len(p) > 1 => Front(p) \in DOMAIN docs
    /\ docs[p].type =
         <<"Subject", "Grade", "Category", "Lesson", "Video">>[Len(p)]

\* The rows of a category follow each other, no lesson is listed twice and
\* every row has its two parts.
WellFormed(t) ==
  /\ \A i \in DOMAIN t : Len(t[i]) = 2
  /\ \A i, j \in DOMAIN t :
       i < j => /\ t[i] # t[j]
                /\ t[i][2] = t[j][2] =>
                     \A k \in i .. j : t[k][2] = t[i][2]

\* The numbers categories and lessons are ordered by in the app are their
\* places on the page, after any number of runs that stopped anywhere and
\* got different answers: the rows a run skips for want of a short video
\* are counted all the same.
NumbersFollowThePage ==
  WellFormed(table) =>
    \A i \in DOMAIN table :
      LET c == <<subject, grade, table[i][2]>>
          l == Append(c, table[i][1])
          before == {j \in 1 .. i - 1 : table[j][2] = table[i][2]}
          above == {table[j][2] : j \in 1 .. i - 1} \ {table[i][2]}
      IN  /\ c \in DOMAIN docs => docs[c].id = Cardinality(above)
          /\ l \in DOMAIN docs => docs[l].id = Cardinality(before)

\* A video in the database takes ten minutes or less, and its document says
\* how long, whatever parts its ISO 8601 duration leaves out.
OnlyShortVideos ==
  \A p \in DOMAIN docs :
    docs[p].type = "Video" =>
      LET t == Length[Last(p)]
      IN  /\ docs[p].duration = 3600 * (24 * t.days + t.hours)
                                  + 60 * t.minutes + t.seconds
          /\ docs[p].duration <= 600

\* While no run has raised, every lesson in the database has a video, but
\* for the one being uploaded: a lesson without one would show the student
\* an empty screen.
LessonsHaveVideos ==
  ~crashed /\ pc # "video" =>
    \A p \in DOMAIN docs :
      docs[p].type = "Lesson" => \E v \in Videos : Append(p, v) \in DOMAIN docs

\* A run that came to its end has put every short video it was offered into
\* the lesson it was offered for.
FinishedRunIsComplete ==
  pc = "done" =>
    \A p \in answered :
      LET t == Length[Last(p)]
      IN  t.days = 0 /\ t.hours = 0 /\ 60 * t.minutes + t.seconds <= 600
            => p \in DOMAIN docs
=============================================================================
