------------------------------ MODULE Catalog -------------------------------
(***************************************************************************)
(* The course catalog: CatalogViewController on one device, with the       *)
(* lessons it pushes on its navigation stack.                              *)
(*                                                                         *)
(* The controller keeps the collection it stands in (ref) and the rows of  *)
(* the table.  A tap moves ref at once, the rows follow when the query     *)
(* answers, and the answer is applied to the ref of that moment: a tap     *)
(* before the answer finds rows and ref of different places.               *)
(***************************************************************************)
EXTENDS Integers, Sequences, FiniteSets, SequencesExt

CONSTANTS
  Documents,     \* paths of the documents of "Courses" that have an "Id"
  LessonDepth,   \* length of a lesson's path; a video's is one longer
  FirstLesson,   \* path of the lesson the app starts with
  MaxRequests,   \* bound: queries sent
  MaxPending,    \* bound: queries the student leaves unanswered
  MaxErrors      \* bound: queries that fail

Names == UNION {Range(d) : d \in Documents}

Paths == Seq(Names)

CatalogConstants ==
  /\ \A d \in Documents : d \in Paths /\ Len(d) \in 1 .. LessonDepth + 1
  /\ \A d \in Documents : Len(d) > 1 => Front(d) \in Documents
  /\ LessonDepth \in Nat \ {0, 1}
  /\ FirstLesson \in Documents /\ Len(FirstLesson) = LessonDepth
  /\ MaxRequests \in Nat
  /\ MaxPending \in Nat
  /\ MaxErrors \in Nat

ASSUME CatalogAssumption == CatalogConstants

VARIABLES
  ref,          \* the collection the controller stands in: the path of the
                \* document it belongs to, <<>> for "Courses"
  catalogItems, \* the rows of the table
  queries,      \* getDocuments calls pending, numbered
  requests,     \* queries sent
  pushed,       \* LessonViewControllers on the navigation stack
  categoryRef,  \* global: a document
  lessonRef,    \* global: a document
  trapped,      \* a forced unwrap of nil has ended the app
  errors,       \* queries that have failed
  patient       \* history: every tap waited for the answer before it, and
                \* every query was answered

vars == <<ref, catalogItems, queries, requests, pushed, categoryRef, lessonRef,
          trapped, errors, patient>>

Queries == [number: Nat, ref: Paths]

\* The names of the documents in the collection of path p.
Content(p) == {Last(d) : d \in {e \in Documents : Front(e) = p}}

\* The documents of a lesson's collection have the "Type" "Video".
HasVideos(p) == Len(p) = LessonDepth /\ Content(p) # {}

Init ==
  /\ ref = <<>>
  /\ catalogItems = {}
  /\ queries = {}
  /\ requests = 0
  /\ pushed = 0
  /\ categoryRef = Front(FirstLesson)
  /\ lessonRef = FirstLesson
  /\ trapped = FALSE
  /\ errors = 0
  /\ patient = TRUE

-----------------------------------------------------------------------------
\* The query of getCatalogItems, on the collection ref has become.
getCatalogItems ==
  /\ requests < MaxRequests
  /\ requests' = requests + 1
  /\ queries' = queries \union {[number |-> requests, ref |-> ref']}

\* The table is on the screen, and the student has not left too many taps
\* unanswered.
Usable == /\ ~trapped /\ pushed = 0 /\ requests > 0
          /\ Cardinality(queries) < MaxPending

\* Once: the side menu keeps the catalog's navigation controller.
viewDidLoad ==
  /\ requests = 0
  /\ UNCHANGED ref
  /\ getCatalogItems
  /\ UNCHANGED <<catalogItems, pushed, categoryRef, lessonRef, trapped, errors,
                 patient>>

didSelectRow(n) ==
  /\ Usable
  /\ n \in catalogItems
  /\ ref' = Append(ref, n)
  /\ getCatalogItems
  /\ patient' = (patient /\ queries = {})
  /\ UNCHANGED <<catalogItems, pushed, categoryRef, lessonRef, trapped, errors>>

\* ref.parent?.parent ?? ref: "Courses" has no parent.
onBackButton ==
  /\ Usable
  /\ ref' = IF ref = <<>> THEN ref ELSE Front(ref)
  /\ getCatalogItems
  /\ patient' = (patient /\ queries = {})
  /\ UNCHANGED <<catalogItems, pushed, categoryRef, lessonRef, trapped, errors>>

\* Mutant: ref stays in the lesson.
OpenLesson_StaysInLesson ==
  /\ Len(ref) > 1
  /\ lessonRef' = ref
  /\ categoryRef' = Front(ref)
  /\ pushed' = pushed + 1
  /\ UNCHANGED <<ref, trapped>>

\* Mutant: the category is the parent's parent.
OpenLesson_GradeOfCategory ==
  /\ Len(ref) > 1
  /\ lessonRef' = Front(ref)
  /\ categoryRef' = Front(Front(ref))
  /\ ref' = Front(ref)
  /\ pushed' = pushed + 1
  /\ UNCHANGED trapped

\* Videos: the globals are set from where the controller stands now, it goes
\* up to the category and pushes the lesson.  In "Courses" and in a
\* subject's collection there is no parent to unwrap.
OpenLesson ==
  \/ /\ Len(ref) > 1
     /\ lessonRef' = ref
     /\ categoryRef' = Front(ref)
     /\ ref' = Front(ref)
     /\ pushed' = pushed + 1
     /\ UNCHANGED trapped
  \/ /\ Len(ref) <= 1
     /\ trapped' = TRUE
     /\ UNCHANGED <<ref, pushed, categoryRef, lessonRef>>

\* Mutant: catalogItems is not emptied first.
QueryAnswered_Appends(q) ==
  /\ ~trapped
  /\ queries' = queries \ {q}
  /\ \/ HasVideos(q.ref) /\ OpenLesson /\ UNCHANGED catalogItems
     \/ /\ ~HasVideos(q.ref)
        /\ catalogItems' = catalogItems \union Content(q.ref)
        /\ UNCHANGED <<ref, pushed, categoryRef, lessonRef, trapped>>
  /\ UNCHANGED <<requests, errors, patient>>

\* The completion of getCatalogItems.  Answers come in any order; offline
\* with nothing cached the answer is empty.
QueryAnswered(q) ==
  /\ ~trapped
  /\ queries' = queries \ {q}
  /\ \/ /\ HasVideos(q.ref)
        /\ OpenLesson
        /\ UNCHANGED catalogItems
     \/ /\ ~HasVideos(q.ref)
        /\ catalogItems' = Content(q.ref)
        /\ UNCHANGED <<ref, pushed, categoryRef, lessonRef, trapped>>
     \/ /\ catalogItems' = {}
        /\ UNCHANGED <<ref, pushed, categoryRef, lessonRef, trapped>>
  /\ UNCHANGED <<requests, errors, patient>>

\* The error is printed: ref stays where the tap has put it.
QueryFailed(q) ==
  /\ ~trapped
  /\ errors < MaxErrors
  /\ errors' = errors + 1
  /\ queries' = queries \ {q}
  /\ patient' = FALSE
  /\ UNCHANGED <<ref, catalogItems, requests, pushed, categoryRef, lessonRef,
                 trapped>>

\* Mutant: left although it is not there.
PopLesson_NoGuard ==
  /\ ~trapped
  /\ pushed' = pushed - 1
  /\ UNCHANGED <<ref, catalogItems, queries, requests, categoryRef, lessonRef,
                 trapped, errors, patient>>

\* The lesson is left, with the back button or once it is understood.
PopLesson ==
  /\ ~trapped /\ pushed > 0
  /\ pushed' = pushed - 1
  /\ UNCHANGED <<ref, catalogItems, queries, requests, categoryRef, lessonRef,
                 trapped, errors, patient>>

-----------------------------------------------------------------------------
Next ==
  \/ viewDidLoad
  \/ \E n \in Names : didSelectRow(n)
  \/ onBackButton
  \/ \E q \in queries : QueryAnswered(q) \/ QueryFailed(q)
  \/ PopLesson

Spec == Init /\ [][Next]_vars

-----------------------------------------------------------------------------
TypeOK ==
  /\ ref \in Paths
  /\ catalogItems \subseteq Names
  /\ queries \subseteq Queries
  /\ requests \in Nat
  /\ pushed \in Nat
  /\ categoryRef \in Paths
  /\ lessonRef \in Paths
  /\ trapped \in BOOLEAN
  /\ errors \in Nat
  /\ patient \in BOOLEAN

\* A patient student always has the rows of the place the controller stands
\* in, or none, however the student got there: after a lesson the controller
\* has gone up by itself to the list that is still in the table.
RowsMatchRef ==
  patient /\ queries = {} /\ requests > 0 =>
    catalogItems = {} \/ catalogItems = Content(ref)

\* What a patient student opens is a lesson, with the category it is in: the
\* ITS and the quiz work on these two globals.  No forced unwrap fails, and
\* one lesson is open at most.
OpensLessons ==
  patient => /\ lessonRef \in Documents /\ Len(lessonRef) = LessonDepth
             /\ categoryRef = Front(lessonRef)
             /\ ~trapped
             /\ pushed <= 1

\* However impatient the student is, the rows are those of one collection:
\* the answers of two queries are never mixed in one table, and videos are
\* never listed (getCatalogItems).
RowsOfOneCollection ==
  \/ catalogItems = {}
  \/ \E p \in {<<>>} \union Documents :
       catalogItems = Content(p) /\ Len(p) < LessonDepth
=============================================================================
