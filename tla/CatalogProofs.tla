--------------------------- MODULE CatalogProofs ----------------------------
(***************************************************************************)
(* Proofs about Catalog, for any documents, depth and bounds.              *)
(***************************************************************************)
EXTENDS Catalog, SequenceTheorems, TLAPS

-----------------------------------------------------------------------------
(* The inductive invariant.                                                *)

\* Before the first query there is nothing; then the controller of a patient
\* student stands in "Courses" or in a document above the videos, and waits
\* for the rows of that place at most, with no lesson pushed as long.
PlaceInv ==
  /\ requests = 0 => queries = {} /\ catalogItems = {} /\ pushed = 0 /\ ref = <<>>
  /\ ref = <<>> \/ ref \in Documents
  /\ Len(ref) <= LessonDepth
  /\ queries = {} \/ \E q \in Queries : queries = {q} /\ q.ref = ref
  /\ queries # {} => pushed = 0

\* The rows: those of the place or none; while a lesson's videos are asked for
\* they are those of the category above it.
RowsInv ==
  /\ queries = {} =>
       catalogItems = {} \/ (catalogItems = Content(ref) /\ Len(ref) < LessonDepth)
  /\ queries # {} /\ Len(ref) = LessonDepth =>
       catalogItems = {} \/ catalogItems = Content(Front(ref))

PatientInv == patient => PlaceInv /\ RowsInv

IInv == TypeOK /\ PatientInv /\ OpensLessons /\ RowsOfOneCollection

-----------------------------------------------------------------------------
(* Paths.                                                                  *)

LEMMA FrontOfPath ==
  ASSUME NEW S, NEW p \in Seq(S), p # <<>>
  PROVE  /\ Front(p) \in Seq(S) /\ Len(Front(p)) = Len(p) - 1
         /\ Last(p) \in S /\ Append(Front(p), Last(p)) = p
<1>1. Len(p) \in Nat \ {0} /\ DOMAIN p = 1 .. Len(p) /\ p[Len(p)] \in S
  BY EmptySeq, LenProperties
<1>2. /\ Front(p) \in Seq(S) /\ Len(Front(p)) = Len(p) - 1
      /\ \A i \in 1 .. Len(p) - 1 : Front(p)[i] = p[i]
  BY <1>1 DEF Front
<1>3. \A i \in 1 .. Len(p) : Append(Front(p), p[Len(p)])[i] = p[i]
  BY <1>1, <1>2
<1>4. Append(Front(p), p[Len(p)]) \in Seq(S) /\ Len(Append(Front(p), p[Len(p)])) = Len(p)
  <2>1. PICK f \in Seq(S), e \in S : f = Front(p) /\ e = p[Len(p)] /\ Len(f) = Len(p) - 1
    BY <1>1, <1>2
  <2>2. Append(f, e) \in Seq(S) /\ Len(Append(f, e)) = Len(f) + 1
    BY AppendProperties
  <2>3. Len(Append(f, e)) = Len(p)
    BY <1>1, <2>1, <2>2
  <2> QED BY <2>1, <2>2, <2>3
<1>5. Append(Front(p), p[Len(p)]) = p
  BY <1>3, <1>4, SeqEqual
<1> QED BY <1>1, <1>2, <1>5 DEF Last

LEMMA FrontOfAppend ==
  ASSUME NEW S, NEW p \in Seq(S), NEW n \in S
  PROVE  /\ Append(p, n) \in Seq(S) /\ Len(Append(p, n)) = Len(p) + 1
         /\ Append(p, n) # <<>> /\ Front(Append(p, n)) = p
<1>1. Append(p, n) \in Seq(S) /\ Len(Append(p, n)) = Len(p) + 1 /\ Len(p) \in Nat
  OBVIOUS
<1>2. Append(p, n) # <<>>
  BY <1>1
<1>3. /\ Front(Append(p, n)) \in Seq(S) /\ Len(Front(Append(p, n))) = Len(p)
  <2>1. /\ Front(Append(p, n)) \in Seq(S)
        /\ Len(Front(Append(p, n))) = Len(Append(p, n)) - 1
    BY <1>1, <1>2, FrontOfPath
  <2> QED BY <1>1, <2>1
<1>4. \A i \in 1 .. Len(p) : Front(Append(p, n))[i] = p[i]
  BY <1>1 DEF Front
<1> QED BY <1>1, <1>2, <1>3, <1>4, SeqEqual

LEMMA FrontOfDocument ==
  ASSUME NEW d \in Documents
  PROVE  /\ d \in Paths /\ d # <<>> /\ Len(d) \in Nat /\ Len(d) <= LessonDepth + 1
         /\ Front(d) \in Paths /\ Len(Front(d)) = Len(d) - 1
         /\ Front(d) = <<>> \/ Front(d) \in Documents
<1>1. d \in Paths /\ Len(d) \in 1 .. LessonDepth + 1 /\ (Len(d) > 1 => Front(d) \in Documents)
  BY CatalogAssumption DEF CatalogConstants
<1>2. d # <<>>
  BY <1>1
<1>3. Front(d) \in Paths /\ Len(Front(d)) = Len(d) - 1
  BY <1>1, <1>2, FrontOfPath DEF Paths
<1>4. Len(d) = 1 => Front(d) = <<>>
  BY <1>3 DEF Paths
<1> QED BY <1>1, <1>2, <1>3, <1>4

\* A row stands for a document of the collection, which is that of a document
\* or "Courses" and above the videos.
LEMMA ContentOfPath ==
  ASSUME NEW p \in Paths, NEW n \in Content(p)
  PROVE  /\ n \in Names /\ Append(p, n) \in Documents
         /\ p = <<>> \/ p \in Documents
         /\ Len(p) <= LessonDepth
<1>1. PICK d \in Documents : Front(d) = p /\ Last(d) = n
  BY DEF Content
<1>2. d \in Paths /\ d # <<>>
  BY FrontOfDocument
<1>3. n \in Names /\ Append(p, n) = d
  BY <1>1, <1>2, FrontOfPath DEF Paths
<1>4. LessonDepth \in Nat /\ Len(d) \in Nat /\ Len(d) <= LessonDepth + 1 /\ Len(p) = Len(d) - 1
  BY <1>1, FrontOfDocument, CatalogAssumption DEF CatalogConstants
<1>5. Len(p) <= LessonDepth
  BY <1>4
<1> QED BY <1>1, <1>3, <1>5, FrontOfDocument

LEMMA ContentIsNames == ASSUME NEW p \in Paths PROVE Content(p) \subseteq Names
BY ContentOfPath

-----------------------------------------------------------------------------
(* Every step keeps the types.                                             *)

LEMMA TypeInit == Init => TypeOK
<1>1. FirstLesson \in Paths /\ Front(FirstLesson) \in Paths
  BY CatalogAssumption, FrontOfDocument DEF CatalogConstants
<1>2. <<>> \in Paths
  BY DEF Paths
<1>3. Init => trapped \in BOOLEAN /\ patient \in BOOLEAN
  BY DEF Init
<1> QED BY <1>1, <1>2, <1>3 DEF Init, TypeOK

LEMMA AskTypes ==
  ASSUME TypeOK, getCatalogItems, ref' \in Paths
  PROVE  queries' \subseteq Queries /\ requests' \in Nat
BY DEF TypeOK, getCatalogItems, Queries

LEMMA TypeNext == TypeOK /\ [Next]_vars => TypeOK'
<1> SUFFICES ASSUME TypeOK, [Next]_vars PROVE TypeOK'
  OBVIOUS
<1>0. ref # <<>> => Front(ref) \in Paths
  BY FrontOfPath DEF TypeOK, Paths
<1>1. CASE viewDidLoad
  BY <1>1, AskTypes DEF viewDidLoad, TypeOK
<1>2. ASSUME NEW n \in Names, didSelectRow(n) PROVE TypeOK'
  <2>1. ref' \in Paths
    BY <1>2 DEF didSelectRow, TypeOK, Paths
  <2>2. patient' \in BOOLEAN
    BY <1>2 DEF didSelectRow
  <2> QED BY <1>2, <2>1, <2>2, AskTypes DEF didSelectRow, TypeOK
<1>3. CASE onBackButton
  <2>1. ref' \in Paths
    BY <1>0, <1>3 DEF onBackButton, TypeOK
  <2>2. patient' \in BOOLEAN
    BY <1>3 DEF onBackButton
  <2> QED BY <1>3, <2>1, <2>2, AskTypes DEF onBackButton, TypeOK
<1>4. ASSUME NEW q \in queries, QueryAnswered(q) PROVE TypeOK'
  <2>1. q.ref \in Paths /\ queries' \subseteq Queries
    BY <1>4 DEF TypeOK, Queries, QueryAnswered
  <2>2. ASSUME OpenLesson
        PROVE  /\ ref' \in Paths /\ lessonRef' \in Paths /\ categoryRef' \in Paths
               /\ pushed' \in Nat /\ trapped' \in BOOLEAN
    <3>1. Len(ref) > 1 => ref # <<>>
      OBVIOUS
    <3>2. trapped' \in BOOLEAN
      BY <2>2 DEF OpenLesson, TypeOK
    <3> QED BY <1>0, <2>2, <3>1, <3>2 DEF OpenLesson, TypeOK
  <2>3. CASE OpenLesson /\ UNCHANGED catalogItems
    BY <1>4, <2>1, <2>2, <2>3 DEF QueryAnswered, TypeOK
  <2>4. CASE /\ catalogItems' \in {Content(q.ref), {}}
             /\ UNCHANGED <<ref, pushed, categoryRef, lessonRef, trapped>>
    BY <1>4, <2>1, <2>4, ContentIsNames DEF QueryAnswered, TypeOK
  <2> QED BY <1>4, <2>3, <2>4 DEF QueryAnswered
<1>5. ASSUME NEW q \in queries, QueryFailed(q) PROVE TypeOK'
  <2>1. patient' \in BOOLEAN
    BY <1>5 DEF QueryFailed
  <2> QED BY <1>5, <2>1 DEF QueryFailed, TypeOK
<1>6. CASE PopLesson
  BY <1>6 DEF PopLesson, TypeOK
<1>7. CASE UNCHANGED vars
  BY <1>7 DEF vars, TypeOK
<1> QED BY <1>1, <1>2, <1>3, <1>4, <1>5, <1>6, <1>7 DEF Next

-----------------------------------------------------------------------------
(* However impatient the student is.                                       *)

\* An answer that is listed is that of a collection above the lessons.
LEMMA AnswerIsACollection ==
  ASSUME NEW p \in Paths, ~HasVideos(p)
  PROVE  \/ Content(p) = {}
         \/ p \in {<<>>} \union Documents /\ Len(p) < LessonDepth
<1> SUFFICES ASSUME NEW n \in Content(p)
             PROVE  p \in {<<>>} \union Documents /\ Len(p) < LessonDepth
  OBVIOUS
<1>1. p \in {<<>>} \union Documents /\ Len(p) <= LessonDepth
  BY ContentOfPath
<1>2. Len(p) \in Nat /\ LessonDepth \in Nat /\ Len(p) # LessonDepth
  BY CatalogAssumption DEF HasVideos, Paths, CatalogConstants
<1> QED BY <1>1, <1>2

LEMMA RowsStep == TypeOK /\ RowsOfOneCollection /\ [Next]_vars => RowsOfOneCollection'
<1> SUFFICES ASSUME TypeOK, RowsOfOneCollection, [Next]_vars PROVE RowsOfOneCollection'
  OBVIOUS
<1>1. CASE UNCHANGED catalogItems
  BY <1>1 DEF RowsOfOneCollection
<1>2. ASSUME NEW q \in queries, QueryAnswered(q), catalogItems' # catalogItems
      PROVE  RowsOfOneCollection'
  <2>1. q.ref \in Paths
    BY DEF TypeOK, Queries
  <2>2. catalogItems' = {} \/ (~HasVideos(q.ref) /\ catalogItems' = Content(q.ref))
    BY <1>2 DEF QueryAnswered
  <2> QED BY <2>1, <2>2, AnswerIsACollection DEF RowsOfOneCollection
<1>3. catalogItems' # catalogItems => \E q \in queries : QueryAnswered(q)
  BY DEF Next, vars, viewDidLoad, didSelectRow, onBackButton, QueryFailed, PopLesson
<1> QED BY <1>1, <1>2, <1>3

-----------------------------------------------------------------------------
(* The patient student.                                                    *)

\* A tap of a patient student: the query is the only one.
LEMMA PatientAsks ==
  ASSUME TypeOK, requests < MaxRequests, getCatalogItems, queries = {}, pushed' = 0,
         ref' \in Paths, ref' = <<>> \/ ref' \in Documents, Len(ref') <= LessonDepth,
         Len(ref') = LessonDepth =>
           catalogItems' = {} \/ catalogItems' = Content(Front(ref'))
  PROVE  PlaceInv' /\ RowsInv'
<1>1. PICK q \in Queries : q = [number |-> requests, ref |-> ref']
  BY DEF TypeOK, Queries
<1>2. queries' = {q} /\ q.ref = ref' /\ queries' # {} /\ requests' # 0
  BY <1>1 DEF getCatalogItems, TypeOK
<1>3. PlaceInv'
  BY <1>2 DEF PlaceInv
<1>4. RowsInv'
  <2>1. Content(Front(ref)') = Content(Front(ref))'
    BY DEF Content
  <2> QED BY <1>2, <2>1 DEF RowsInv
<1> QED BY <1>3, <1>4

\* What an answer opens for a patient student: the lesson the controller
\* stands in.
LEMMA PatientOpens ==
  ASSUME TypeOK, PatientInv, patient, NEW q \in queries, QueryAnswered(q)
  PROVE  \/ /\ catalogItems' = {} \/ (~HasVideos(ref) /\ catalogItems' = Content(ref))
            /\ UNCHANGED <<ref, pushed, categoryRef, lessonRef, trapped>>
         \/ /\ ref \in Documents /\ Len(ref) = LessonDepth /\ pushed' = 1
            /\ lessonRef' = ref /\ categoryRef' = Front(ref) /\ ref' = Front(ref)
            /\ UNCHANGED <<catalogItems, trapped>>
<1>1. /\ queries = {q} /\ q.ref = ref /\ pushed = 0 /\ LessonDepth \in Nat \ {0, 1}
      /\ ref = <<>> \/ ref \in Documents
  BY CatalogAssumption DEF PatientInv, PlaceInv, CatalogConstants
<1>2. CASE HasVideos(ref) /\ OpenLesson /\ UNCHANGED catalogItems
  <2>1. Len(ref) = LessonDepth /\ Len(ref) > 1 /\ ref # <<>>
    BY <1>1, <1>2 DEF HasVideos
  <2>2. /\ lessonRef' = ref /\ categoryRef' = Front(ref) /\ ref' = Front(ref)
        /\ pushed' = 1 /\ trapped' = trapped
    BY <1>1, <1>2, <2>1 DEF OpenLesson
  <2> QED BY <1>1, <1>2, <2>1, <2>2
<1>3. CASE ~(HasVideos(ref) /\ OpenLesson /\ UNCHANGED catalogItems)
  BY <1>1, <1>3 DEF QueryAnswered
<1> QED BY <1>2, <1>3

LEMMA PatientStep == TypeOK /\ PatientInv /\ [Next]_vars => PatientInv'
<1> SUFFICES ASSUME TypeOK, PatientInv, [Next]_vars, patient'
             PROVE  (PlaceInv /\ RowsInv)'
  BY DEF PatientInv
<1>0. /\ patient /\ PlaceInv /\ RowsInv /\ LessonDepth \in Nat \ {0, 1}
      /\ pushed \in Nat /\ ref \in Paths /\ Len(ref) \in Nat
  <2>1. patient
    BY DEF Next, vars, viewDidLoad, didSelectRow, onBackButton, QueryAnswered, QueryFailed,
           PopLesson
  <2>2. pushed \in Nat /\ ref \in Paths /\ Len(ref) \in Nat
    BY DEF TypeOK, Paths
  <2> QED BY <2>1, <2>2, CatalogAssumption DEF PatientInv, CatalogConstants
<1>1. CASE viewDidLoad
  <2>1. /\ queries = {} /\ catalogItems = {} /\ pushed = 0 /\ ref = <<>> /\ getCatalogItems
        /\ UNCHANGED <<ref, catalogItems, pushed, categoryRef, lessonRef, trapped>>
    BY <1>0, <1>1 DEF viewDidLoad, PlaceInv
  <2>2. requests < MaxRequests /\ Len(ref') <= LessonDepth
    BY <1>0, <2>1 DEF getCatalogItems
  <2> QED BY <1>0, <2>1, <2>2, PatientAsks
<1>2. ASSUME NEW n \in Names, didSelectRow(n) PROVE (PlaceInv /\ RowsInv)'
  <2>1. /\ queries = {} /\ pushed = 0 /\ n \in catalogItems /\ ref' = Append(ref, n)
        /\ getCatalogItems
        /\ UNCHANGED <<catalogItems, pushed, categoryRef, lessonRef, trapped>>
    BY <1>2 DEF didSelectRow, Usable
  <2>2. catalogItems = Content(ref) /\ Len(ref) < LessonDepth
    BY <1>0, <2>1 DEF RowsInv
  <2>3. /\ ref' \in Documents /\ ref' \in Paths /\ Len(ref') = Len(ref) + 1
        /\ Front(ref') = ref
    BY <1>0, <2>1, <2>2, ContentOfPath, FrontOfAppend DEF Paths
  <2>4. requests < MaxRequests /\ Len(ref') <= LessonDepth
    BY <1>0, <2>1, <2>2, <2>3 DEF getCatalogItems
  <2> QED BY <2>1, <2>2, <2>3, <2>4, PatientAsks
<1>3. CASE onBackButton
  <2>1. /\ queries = {} /\ pushed = 0 /\ ref' = IF ref = <<>> THEN ref ELSE Front(ref)
        /\ getCatalogItems
        /\ UNCHANGED <<catalogItems, pushed, categoryRef, lessonRef, trapped>>
    BY <1>3 DEF onBackButton, Usable
  <2>2. /\ ref' = <<>> \/ ref' \in Documents
        /\ ref' \in Paths /\ Len(ref') < LessonDepth /\ Len(ref') \in Nat
    <3>1. CASE ref = <<>>
      BY <1>0, <2>1, <3>1
    <3>2. CASE ref # <<>>
      <4>1. ref \in Documents /\ ref' = Front(ref) /\ Len(ref) <= LessonDepth
        BY <1>0, <2>1, <3>2 DEF PlaceInv
      <4>2. /\ ref' \in Paths /\ Len(ref') = Len(ref) - 1
            /\ ref' = <<>> \/ ref' \in Documents
        BY <4>1, FrontOfDocument
      <4>3. Len(ref') \in Nat
        BY <4>2 DEF Paths
      <4> QED BY <1>0, <4>1, <4>2, <4>3
    <3> QED BY <3>1, <3>2
  <2>3. requests < MaxRequests /\ Len(ref') <= LessonDepth /\ Len(ref') # LessonDepth
    BY <1>0, <2>1, <2>2 DEF getCatalogItems
  <2> QED BY <2>1, <2>2, <2>3, PatientAsks
<1>4. ASSUME NEW q \in queries, QueryAnswered(q)
      PROVE  (PlaceInv /\ RowsInv)'
  <2>1. queries = {q} /\ q.ref = ref /\ pushed = 0 /\ requests # 0 /\ Len(ref) <= LessonDepth
    BY <1>0, <1>4 DEF PlaceInv
  <2>2. queries' = {} /\ UNCHANGED <<requests, errors>>
    BY <1>4, <2>1 DEF QueryAnswered
  <2>3. CASE /\ ref \in Documents /\ Len(ref) = LessonDepth /\ ref' = Front(ref)
             /\ UNCHANGED catalogItems
    <3>1. /\ ref' = <<>> \/ ref' \in Documents
          /\ Len(ref') = Len(ref) - 1
      BY <2>3, FrontOfDocument
    <3>2. Len(ref') < LessonDepth /\ Len(ref') <= LessonDepth
      BY <1>0, <2>3, <3>1
    <3>3. catalogItems' = {} \/ catalogItems' = Content(ref')
      BY <1>0, <2>1, <2>3 DEF RowsInv
    <3>4. PlaceInv'
      BY <2>1, <2>2, <3>1, <3>2 DEF PlaceInv
    <3>5. RowsInv'
      <4>1. Content(ref') = Content(ref)'
        BY DEF Content
      <4> QED BY <2>2, <3>2, <3>3, <4>1 DEF RowsInv
    <3> QED BY <3>4, <3>5
  <2>4. CASE /\ catalogItems' = {} \/ (~HasVideos(ref) /\ catalogItems' = Content(ref))
             /\ UNCHANGED <<ref, pushed, categoryRef, lessonRef, trapped>>
    <3>1. catalogItems' = {} \/ (catalogItems' = Content(ref') /\ Len(ref') < LessonDepth)
      BY <1>0, <2>4, AnswerIsACollection
    <3>2. PlaceInv'
      BY <1>0, <2>1, <2>2, <2>4 DEF PlaceInv
    <3>3. RowsInv'
      <4>1. Content(ref') = Content(ref)'
        BY DEF Content
      <4> QED BY <2>2, <3>1, <4>1 DEF RowsInv
    <3> QED BY <3>2, <3>3
  <2> QED BY <1>0, <1>4, <2>3, <2>4, PatientOpens
<1>5. ASSUME NEW q \in queries, QueryFailed(q) PROVE FALSE
  BY <1>5 DEF QueryFailed
<1>6. CASE PopLesson
  <2>1. /\ pushed > 0 /\ UNCHANGED <<ref, catalogItems, queries, requests>>
    BY <1>6 DEF PopLesson
  <2>2. queries = {} /\ requests # 0
    BY <1>0, <2>1 DEF PlaceInv
  <2> QED BY <1>0, <2>1, <2>2 DEF PlaceInv, RowsInv, Content
<1>7. CASE UNCHANGED vars
  BY <1>0, <1>7 DEF vars, PlaceInv, RowsInv, Content
<1> QED BY <1>1, <1>2, <1>3, <1>4, <1>5, <1>6, <1>7 DEF Next

LEMMA OpensStep == TypeOK /\ PatientInv /\ OpensLessons /\ [Next]_vars => OpensLessons'
<1> SUFFICES ASSUME TypeOK, PatientInv, OpensLessons, [Next]_vars, patient' PROVE OpensLessons'
  BY DEF OpensLessons
<1>1. patient /\ pushed \in Nat
  BY DEF Next, vars, viewDidLoad, didSelectRow, onBackButton, QueryAnswered, QueryFailed,
         PopLesson, TypeOK
<1>2. CASE UNCHANGED <<categoryRef, lessonRef, trapped>> /\ pushed' \in {pushed, pushed - 1}
  BY <1>1, <1>2 DEF OpensLessons
<1>3. ASSUME NEW q \in queries, QueryAnswered(q) PROVE OpensLessons'
  <2>1. CASE UNCHANGED <<pushed, categoryRef, lessonRef, trapped>>
    BY <1>2, <2>1
  <2>2. CASE ~UNCHANGED <<pushed, categoryRef, lessonRef, trapped>>
    <3>1. /\ ref \in Documents /\ Len(ref) = LessonDepth /\ pushed' = 1 /\ trapped' = trapped
          /\ lessonRef' = ref /\ categoryRef' = Front(ref)
      BY <1>1, <1>3, <2>2, PatientOpens
    <3> QED BY <1>1, <3>1 DEF OpensLessons
  <2> QED BY <2>1, <2>2
<1>4. CASE viewDidLoad \/ (\E n \in Names : didSelectRow(n)) \/ onBackButton
  BY <1>2, <1>4 DEF viewDidLoad, didSelectRow, onBackButton
<1>5. ASSUME NEW q \in queries, QueryFailed(q) PROVE FALSE
  BY <1>5 DEF QueryFailed
<1>6. CASE PopLesson \/ UNCHANGED vars
  BY <1>2, <1>6 DEF PopLesson, vars
<1> QED BY <1>3, <1>4, <1>5, <1>6 DEF Next

-----------------------------------------------------------------------------
(* The theorems.                                                           *)

LEMMA IInvAlways == Spec => []IInv
<1>1. Init => IInv
  <2> SUFFICES ASSUME Init PROVE IInv
    OBVIOUS
  <2>1. FirstLesson \in Documents /\ Len(FirstLesson) = LessonDepth /\ Len(<<>>) = 0
        /\ LessonDepth \in Nat
    BY CatalogAssumption, EmptySeq DEF CatalogConstants
  <2>2. PlaceInv /\ RowsInv
    BY <2>1 DEF Init, PlaceInv, RowsInv
  <2>3. OpensLessons
    BY <2>1 DEF Init, OpensLessons
  <2>4. RowsOfOneCollection
    BY DEF Init, RowsOfOneCollection
  <2> QED BY <2>2, <2>3, <2>4, TypeInit DEF IInv, PatientInv
<1>2. IInv /\ [Next]_vars => IInv'
  BY TypeNext, RowsStep, PatientStep, OpensStep DEF IInv
<1> QED BY <1>1, <1>2, PTL DEF Spec

\* The place, the rows, the queries and the globals keep their types, whatever
\* the order of taps and answers (CatalogViewController).
THEOREM CatalogTypes == Spec => []TypeOK
BY IInvAlways, PTL DEF IInv

\* A student who waits for every answer has the rows of the place the
\* controller stands in, or none, also after a lesson from which the controller
\* has gone up by itself (getCatalogItems, onBackButton, didSelectRowAt).
THEOREM RowsCorrect == Spec => []RowsMatchRef
<1>1. IInv => RowsMatchRef
  BY DEF IInv, PatientInv, RowsInv, RowsMatchRef
<1> QED BY <1>1, IInvAlways, PTL

\* What such a student opens is a lesson with its category, one at a time, and
\* no forced unwrap fails (getCatalogItems).
THEOREM OpensCorrect == Spec => []OpensLessons
BY IInvAlways, PTL DEF IInv

\* However impatient the student is, the table never mixes two answers and never
\* lists videos (getCatalogItems).
THEOREM OneCollectionCorrect == Spec => []RowsOfOneCollection
BY IInvAlways, PTL DEF IInv
=============================================================================
