----------------------------- MODULE AppProofs ------------------------------
(***************************************************************************)
(* Proofs about App, for any lessons, videos, catalog and bounds: it       *)
(* implements ITS, so the invariants of ITS hold of the app; the types;    *)
(* the lesson a page votes in; the lesson and the category in the globals. *)
(***************************************************************************)
EXTENDS App, SequenceTheorems, FiniteSetTheorems, TLAPS

\* The theorems about ITS, of the ITS as it sees the rest of the app.
P == INSTANCE ITSProofs WITH
  categoryRef <- IF itsLoaded THEN categoryRef ELSE CategoryOf[ITSLessonRef],
  lessonRef <- IF itsLoaded THEN lessonRef ELSE I!RefOf(ITSLessonRef),
  browsing <- queries # {}

-----------------------------------------------------------------------------
(* What the ITS does in the app.                                           *)
LEMMA ViewActions ==
  /\ ITSView!Init => P!Init
  /\ ITSView!viewDidLoad => P!viewDidLoad
  /\ ITSView!GoBack => P!GoBack
  /\ ITSView!BrowseCatalog => P!BrowseCatalog
  /\ ITSView!CatalogAnswers => P!CatalogAnswers
  /\ ITSView!onIrrelevanceButton => P!onIrrelevanceButton
  /\ ITSView!AlertNo => P!AlertNo
  /\ \A f : ITSView!OnButton(f) => P!OnButton(f)
  /\ ITSView!AlertYes => P!AlertYes
  /\ ITSView!WriteFailed => P!WriteFailed
<1> USE DEF ITSView!globals, P!globals, ITSView!queries, P!queries, ITSView!Alive, P!Alive,
            ITSView!Controllers, P!Controllers, ITSView!Vote, P!Vote, ITSView!None, P!None,
            ITSView!RefOf, P!RefOf
<1>1. ITSView!Init => P!Init
  BY DEF ITSView!Init, P!Init, ITSView!Fresh, P!Fresh
<1>2. ITSView!viewDidLoad => P!viewDidLoad
  BY DEF ITSView!viewDidLoad, P!viewDidLoad
<1>3. ITSView!GoBack => P!GoBack
  BY DEF ITSView!GoBack, P!GoBack
<1>4. ITSView!BrowseCatalog => P!BrowseCatalog
  BY DEF ITSView!BrowseCatalog, P!BrowseCatalog
<1>5. ITSView!CatalogAnswers => P!CatalogAnswers
  BY DEF ITSView!CatalogAnswers, P!CatalogAnswers, ITSView!Front, P!Front
<1>6. ITSView!onIrrelevanceButton => P!onIrrelevanceButton
  BY DEF ITSView!onIrrelevanceButton, P!onIrrelevanceButton
<1>7. ITSView!AlertNo => P!AlertNo
  BY DEF ITSView!AlertNo, P!AlertNo
<1>8. \A f : ITSView!OnButton(f) => P!OnButton(f)
  BY DEF ITSView!OnButton, P!OnButton
<1>9. ITSView!AlertYes => P!AlertYes
  BY DEF ITSView!AlertYes, P!AlertYes
<1>10. ITSView!WriteFailed => P!WriteFailed
  BY DEF ITSView!WriteFailed, P!WriteFailed, ITSView!Content, P!Content
<1> QED BY <1>1, <1>2, <1>3, <1>4, <1>5, <1>6, <1>7, <1>8, <1>9, <1>10

LEMMA ViewAnswers ==
  /\ \A i : ITSView!GetLessonsDone(i) => P!GetLessonsDone(i)
  /\ \A i : ITSView!GetVideosDone(i) => P!GetVideosDone(i)
  /\ \A i : ITSView!GetFailed(i) => P!GetFailed(i)
  /\ ITSView!WriteDone => P!WriteDone
<1> USE DEF ITSView!globals, P!globals, ITSView!Alive, P!Alive, ITSView!None, P!None
<1>1. \A i, q, r : ITSView!getVideos(i, q, r) = P!getVideos(i, q, r)
  BY DEF ITSView!getVideos, P!getVideos
<1>2. \A r : ITSView!Content(r) = P!Content(r)
  BY DEF ITSView!Content, P!Content, ITSView!RefOf, P!RefOf
<1>3. \A q, list : ITSView!getVideo(q, list) = P!getVideo(q, list)
  BY DEF ITSView!getVideo, P!getVideo
<1>4. \A S : ITSView!Cardinality(S) = P!Cardinality(S)
  BY DEF ITSView!Cardinality, P!Cardinality
<1>5. \A c : ITSView!LessonLists(c) = P!LessonLists(c)
  <2> TAKE c
  <2> QED BY <1>4 DEF ITSView!LessonLists, P!LessonLists
<1>6. \A r : ITSView!VideoLists(r) = P!VideoLists(r)
  <2> TAKE r
  <2>1. ITSView!Content(r) = P!Content(r)
    BY <1>2
  <2> QED BY <1>4, <2>1 DEF ITSView!VideoLists, P!VideoLists, ITSView!Last, P!Last
<1>7. \A i : ITSView!GetLessonsDone(i) => P!GetLessonsDone(i)
  BY <1>1, <1>5 DEF ITSView!GetLessonsDone, P!GetLessonsDone
<1>8. \A i : ITSView!GetVideosDone(i) => P!GetVideosDone(i)
  BY <1>3, <1>6 DEF ITSView!GetVideosDone, P!GetVideosDone
<1>9. \A i : ITSView!GetFailed(i) => P!GetFailed(i)
  BY DEF ITSView!GetFailed, P!GetFailed
<1>10. ITSView!WriteDone => P!WriteDone
  BY <1>1, <1>2, <1>3 DEF ITSView!WriteDone, P!WriteDone, ITSView!nextLesson, P!nextLesson
<1> QED BY <1>7, <1>8, <1>9, <1>10

\* The ITS of ImplementsITS is the one the theorems are about.
LEMMA ViewIsITS == ITSView!Spec => P!Spec
<1>1. ITSView!Next => P!Next
  BY ViewActions, ViewAnswers DEF ITSView!Next, P!Next, ITSView!Controllers, P!Controllers,
                                  ITSView!Fields, P!Fields
<1>2. UNCHANGED ITSView!vars => UNCHANGED P!vars
  BY DEF ITSView!vars, P!vars, ITSView!globals, P!globals, ITSView!queries, P!queries
<1>3. [ITSView!Next]_(ITSView!vars) => [P!Next]_(P!vars)
  BY <1>1, <1>2
<1> QED BY <1>3, ViewActions, PTL DEF ITSView!Spec, P!Spec

LEMMA SameMoves ==
  ASSUME itsLoaded, itsLoaded', queries' = queries
  PROVE  /\ I!viewDidLoad => ITSView!viewDidLoad
         /\ I!GoBack => ITSView!GoBack
         /\ I!onIrrelevanceButton => ITSView!onIrrelevanceButton
         /\ I!AlertNo => ITSView!AlertNo
<1>1. I!viewDidLoad => ITSView!viewDidLoad
  BY DEF I!viewDidLoad, ITSView!viewDidLoad, I!globals, ITSView!globals, I!Controllers,
         ITSView!Controllers
<1>2. I!GoBack => ITSView!GoBack
  BY DEF I!GoBack, ITSView!GoBack, I!globals, ITSView!globals, I!queries, ITSView!queries
<1>3. I!onIrrelevanceButton => ITSView!onIrrelevanceButton
  BY DEF I!onIrrelevanceButton, ITSView!onIrrelevanceButton, I!globals, ITSView!globals,
         I!queries, ITSView!queries
<1>4. I!AlertNo => ITSView!AlertNo
  BY DEF I!AlertNo, ITSView!AlertNo, I!globals, ITSView!globals, I!queries, ITSView!queries
<1> QED BY <1>1, <1>2, <1>3, <1>4

LEMMA SameVotes ==
  ASSUME itsLoaded, itsLoaded', queries' = queries
  PROVE  /\ \A f : I!OnButton(f) => ITSView!OnButton(f)
         /\ I!AlertYes => ITSView!AlertYes
         /\ I!WriteFailed => ITSView!WriteFailed
<1>1. \A f : I!Vote(f) => ITSView!Vote(f)
  BY DEF I!Vote, ITSView!Vote
<1>2. \A f : I!OnButton(f) => ITSView!OnButton(f)
  BY <1>1 DEF I!OnButton, ITSView!OnButton, I!globals, ITSView!globals, I!queries,
              ITSView!queries
<1>3. I!AlertYes => ITSView!AlertYes
  BY <1>1 DEF I!AlertYes, ITSView!AlertYes, I!globals, ITSView!globals, I!queries,
              ITSView!queries
<1>4. I!WriteFailed => ITSView!WriteFailed
  BY DEF I!WriteFailed, ITSView!WriteFailed, I!globals, ITSView!globals, I!queries,
         ITSView!queries, I!Alive, ITSView!Alive, I!Content, ITSView!Content, I!RefOf,
         ITSView!RefOf
<1> QED BY <1>2, <1>3, <1>4

LEMMA SameAnswers ==
  ASSUME itsLoaded, itsLoaded', queries' = queries
  PROVE  /\ \A i : I!GetLessonsDone(i) => ITSView!GetLessonsDone(i)
         /\ \A i : I!GetVideosDone(i) => ITSView!GetVideosDone(i)
         /\ \A i : I!GetFailed(i) => ITSView!GetFailed(i)
         /\ I!WriteDone => ITSView!WriteDone
<1>1. \A i, q, r : I!getVideos(i, q, r) = ITSView!getVideos(i, q, r)
  BY DEF I!getVideos, ITSView!getVideos
<1>2. \A r : I!Content(r) = ITSView!Content(r)
  BY DEF I!Content, ITSView!Content, I!RefOf, ITSView!RefOf
<1>3. \A q, list : I!getVideo(q, list) = ITSView!getVideo(q, list)
  BY DEF I!getVideo, ITSView!getVideo
<1>4. \A S : I!Cardinality(S) = ITSView!Cardinality(S)
  BY DEF I!Cardinality, ITSView!Cardinality
<1>5. \A c : I!LessonLists(c) = ITSView!LessonLists(c)
  <2> TAKE c
  <2> QED BY <1>4 DEF I!LessonLists, ITSView!LessonLists
<1>6. \A r : I!VideoLists(r) = ITSView!VideoLists(r)
  <2> TAKE r
  <2>1. I!Content(r) = ITSView!Content(r)
    BY <1>2
  <2> QED BY <1>4, <2>1 DEF I!VideoLists, ITSView!VideoLists, I!Last, ITSView!Last
<1>7. \A i : I!GetLessonsDone(i) => ITSView!GetLessonsDone(i)
  BY <1>1, <1>5 DEF I!GetLessonsDone, ITSView!GetLessonsDone, I!globals, ITSView!globals,
                    I!Alive, ITSView!Alive, I!None, ITSView!None
<1>8. \A i : I!GetVideosDone(i) => ITSView!GetVideosDone(i)
  BY <1>3, <1>6 DEF I!GetVideosDone, ITSView!GetVideosDone, I!globals,
        ITSView!globals, I!Alive, ITSView!Alive, I!None, ITSView!None
<1>9. \A i : I!GetFailed(i) => ITSView!GetFailed(i)
  BY DEF I!GetFailed, ITSView!GetFailed, I!globals, ITSView!globals, I!Alive,
         ITSView!Alive, I!None, ITSView!None
<1>10. I!WriteDone => ITSView!WriteDone
  BY <1>1 DEF I!WriteDone, ITSView!WriteDone, I!nextLesson, ITSView!nextLesson, I!Alive,
              ITSView!Alive, I!Content, ITSView!Content, I!RefOf, ITSView!RefOf,
              I!getVideo, ITSView!getVideo
<1> QED BY <1>7, <1>8, <1>9, <1>10
-----------------------------------------------------------------------------
(* The documents of the catalog.                                           *)

\* The theorems about the catalog.
Q == INSTANCE CatalogProofs WITH Documents <- CatalogDocuments,
                                 FirstLesson <- I!RefOf(ITSLessonRef),
                                 errors <- lessonErrors

LEMMA ITSParameters == P!ITSConstants
<1>1. \A S : I!IsFiniteSet(S) = P!IsFiniteSet(S)
  BY DEF I!IsFiniteSet, P!IsFiniteSet
<1>2. I!ITSConstants
  BY AppAssumption
<1> QED BY <1>1, <1>2 DEF I!ITSConstants, P!ITSConstants

LEMMA SameHelpers ==
  /\ \A s : I!Front(s) = Front(s) /\ C!Front(s) = Front(s) /\ Q!Front(s) = Front(s)
            /\ P!Front(s) = Front(s)
  /\ \A s : C!Last(s) = Last(s) /\ Q!Last(s) = Last(s)
  /\ \A s : C!Range(s) = Range(s) /\ Q!Range(s) = Range(s)
<1>1. \A s : I!Front(s) = Front(s) /\ C!Front(s) = Front(s) /\ Q!Front(s) = Front(s)
             /\ P!Front(s) = Front(s)
  BY DEF I!Front, C!Front, Q!Front, P!Front, Front
<1>2. \A s : C!Last(s) = Last(s) /\ Q!Last(s) = Last(s)
  BY DEF C!Last, Q!Last, Last
<1>3. \A s : C!Range(s) = Range(s) /\ Q!Range(s) = Range(s)
  BY DEF C!Range, Q!Range, Range
<1> QED BY <1>1, <1>2, <1>3

LEMMA FrontOfAppend ==
  ASSUME NEW S, NEW c \in Seq(S), NEW l \in S
  PROVE  Front(Append(c, l)) = c
<1>1. P!Front(Append(c, l)) = c
  BY ITSParameters, P!FrontAndLast
<1> QED BY <1>1, SameHelpers

LEMMA Prefix ==
  ASSUME NEW S, NEW e \in Seq(S), NEW k \in 1 .. Len(e)
  PROVE  /\ SubSeq(e, 1, k) \in Seq(S) /\ Len(SubSeq(e, 1, k)) = k
         /\ \A i \in 1 .. k : SubSeq(e, 1, k)[i] = e[i]
OBVIOUS

LEMMA FrontOfPrefix ==
  ASSUME NEW S, NEW e \in Seq(S), NEW k \in 2 .. Len(e)
  PROVE  Front(SubSeq(e, 1, k)) = SubSeq(e, 1, k - 1)
<1>1. k \in 1 .. Len(e) /\ k - 1 \in 1 .. Len(e) /\ k \in Nat
  OBVIOUS
<1>2. PICK s \in Seq(S) : s = SubSeq(e, 1, k) /\ Len(s) = k /\ \A i \in 1 .. k : s[i] = e[i]
  BY <1>1, Prefix
<1>3. PICK t \in Seq(S) : /\ t = SubSeq(e, 1, k - 1) /\ Len(t) = k - 1
                          /\ \A i \in 1 .. k - 1 : t[i] = e[i]
  BY <1>1, Prefix
<1>4. /\ Front(s) \in Seq(S) /\ Len(Front(s)) = k - 1
      /\ \A i \in 1 .. k - 1 : Front(s)[i] = s[i]
  BY <1>1, <1>2 DEF Front
<1>5. \A i \in 1 .. k - 1 : Front(s)[i] = t[i]
  BY <1>1, <1>2, <1>3, <1>4
<1>6. Front(s) = t
  BY <1>3, <1>4, <1>5, SeqEqual
<1> QED BY <1>2, <1>3, <1>6

\* The path of a lesson, and of a video of it.
LEMMA PathOfLesson ==
  ASSUME NEW l \in Lessons, NEW v \in I!Videos
  PROVE  /\ I!RefOf(l) \in Seq(Nat) /\ Len(I!RefOf(l)) = LessonDepth
         /\ Front(I!RefOf(l)) = CategoryOf[l] /\ CategoryOf[l] \in Seq(Nat)
         /\ Append(I!RefOf(l), v) \in Seq(Nat)
         /\ Len(Append(I!RefOf(l), v)) = LessonDepth + 1
         /\ SubSeq(Append(I!RefOf(l), v), 1, LessonDepth) = I!RefOf(l)
<1>1. /\ l \in Nat /\ v \in Nat /\ CategoryOf[l] \in Seq(Nat)
      /\ LessonDepth \in Nat /\ LessonDepth > 1 /\ Len(CategoryOf[l]) + 1 = LessonDepth
  BY AppAssumption DEF I!ITSConstants, I!Videos
<1>2. PICK r \in Seq(Nat) : r = I!RefOf(l) /\ r = Append(CategoryOf[l], l)
                            /\ Len(r) = LessonDepth
  <2>1. /\ Append(CategoryOf[l], l) \in Seq(Nat)
        /\ Len(Append(CategoryOf[l], l)) = Len(CategoryOf[l]) + 1
    BY <1>1, AppendProperties
  <2> QED BY <1>1, <2>1 DEF I!RefOf
<1>3. Front(r) = CategoryOf[l]
  BY <1>1, <1>2, FrontOfAppend
<1>4. PICK e \in Seq(Nat) : /\ e = Append(r, v) /\ Len(e) = LessonDepth + 1
                            /\ \A i \in 1 .. LessonDepth : e[i] = r[i]
  <2>1. /\ Append(r, v) \in Seq(Nat) /\ Len(Append(r, v)) = Len(r) + 1
        /\ \A i \in 1 .. Len(r) : Append(r, v)[i] = r[i]
    BY <1>1, AppendProperties
  <2> QED BY <1>2, <2>1
<1>5. LessonDepth \in 1 .. Len(e)
  BY <1>1, <1>4
<1>6. PICK s \in Seq(Nat) : /\ s = SubSeq(e, 1, LessonDepth) /\ Len(s) = LessonDepth
                            /\ \A i \in 1 .. LessonDepth : s[i] = e[i]
  BY <1>5, Prefix
<1>7. s = r
  BY <1>2, <1>4, <1>6, SeqEqual
<1> QED BY <1>1, <1>2, <1>3, <1>4, <1>6, <1>7

\* A document of the catalog is a part of the path of a video.
LEMMA DocumentIsAPrefix ==
  ASSUME NEW d \in CatalogDocuments
  PROVE  \E l \in Lessons, v \in I!Videos, k \in 1 .. LessonDepth + 1 :
           /\ d = SubSeq(Append(I!RefOf(l), v), 1, k) /\ d \in Seq(Nat) /\ Len(d) = k
<1>1. PICK l \in Lessons, v \in I!Videos : \E k \in 1 .. Len(Append(I!RefOf(l), v)) :
             d = SubSeq(Append(I!RefOf(l), v), 1, k)
  BY DEF CatalogDocuments, Documents
<1>2. PICK e \in Seq(Nat) : e = Append(I!RefOf(l), v) /\ Len(e) = LessonDepth + 1
  BY PathOfLesson
<1>3. PICK k \in 1 .. Len(e) : d = SubSeq(e, 1, k)
  BY <1>1, <1>2
<1>4. d \in Seq(Nat) /\ Len(d) = k
  BY <1>3, Prefix
<1> QED BY <1>2, <1>3, <1>4

\* The converse, above the videos.
LEMMA PrefixIsADocument ==
  ASSUME NEW l \in Lessons, NEW v \in I!Videos, NEW k \in 1 .. LessonDepth
  PROVE  SubSeq(Append(I!RefOf(l), v), 1, k) \in CatalogDocuments
<1>1. PICK e \in Seq(Nat) : e = Append(I!RefOf(l), v) /\ Len(e) = LessonDepth + 1
  BY PathOfLesson
<1>2. LessonDepth \in Nat
  BY AppAssumption
<1>3. k \in 1 .. Len(e) /\ k \in Nat
  BY <1>1, <1>2
<1>4. SubSeq(e, 1, k) \in Documents
  BY <1>1, <1>3 DEF Documents
<1>5. Len(SubSeq(e, 1, k)) = k /\ ~(k > LessonDepth)
  BY <1>2, <1>3, Prefix
<1> QED BY <1>1, <1>4, <1>5 DEF CatalogDocuments

LEMMA CatalogParameters == C!CatalogConstants
<1>1. ASSUME NEW d \in CatalogDocuments
      PROVE  d \in C!Paths /\ Len(d) \in 1 .. LessonDepth + 1
  <2>1. d \in Seq(Nat) /\ Len(d) \in 1 .. LessonDepth + 1
    BY DocumentIsAPrefix
  <2>2. \A i \in 1 .. Len(d) : d[i] \in C!Names
    <3> TAKE i \in 1 .. Len(d)
    <3>1. d[i] \in Range(d)
      BY <2>1 DEF Range
    <3> QED BY <3>1, SameHelpers DEF C!Names
  <2>3. d \in Seq(C!Names)
    BY <2>1, <2>2
  <2> QED BY <2>1, <2>3 DEF C!Paths
<1>2. ASSUME NEW d \in CatalogDocuments, Len(d) > 1
      PROVE  C!Front(d) \in CatalogDocuments
  <2>1. PICK l \in Lessons, v \in I!Videos, k \in 1 .. LessonDepth + 1 :
           d = SubSeq(Append(I!RefOf(l), v), 1, k) /\ Len(d) = k
    BY DocumentIsAPrefix
  <2>2. Append(I!RefOf(l), v) \in Seq(Nat) /\ Len(Append(I!RefOf(l), v)) = LessonDepth + 1
    BY PathOfLesson
  <2>3. LessonDepth \in Nat
    BY AppAssumption
  <2>4. k \in 2 .. LessonDepth + 1 /\ k - 1 \in 1 .. LessonDepth
    BY <1>2, <2>1, <2>3
  <2>5. Front(d) = SubSeq(Append(I!RefOf(l), v), 1, k - 1)
    BY <2>1, <2>2, <2>4, FrontOfPrefix
  <2> QED BY <2>4, <2>5, PrefixIsADocument, SameHelpers
<1>3. LessonDepth \in Nat \ {0, 1} /\ MaxRequests \in Nat /\ MaxPending \in Nat
      /\ ITSLessonRef \in Lessons /\ MaxErrors \in Nat
  BY AppAssumption DEF I!ITSConstants
<1>4. I!RefOf(ITSLessonRef) \in CatalogDocuments /\ Len(I!RefOf(ITSLessonRef)) = LessonDepth
  <2>1. PICK v \in I!Videos : TRUE
    BY AppAssumption
  <2>2. LessonDepth \in 1 .. LessonDepth
    BY <1>3
  <2>3. /\ SubSeq(Append(I!RefOf(ITSLessonRef), v), 1, LessonDepth) = I!RefOf(ITSLessonRef)
        /\ Len(I!RefOf(ITSLessonRef)) = LessonDepth
    BY <1>3, PathOfLesson
  <2> QED BY <1>3, <2>2, <2>3, PrefixIsADocument
<1> QED BY <1>1, <1>2, <1>3, <1>4 DEF C!CatalogConstants

LEMMA CatalogTheorems == Q!CatalogConstants
<1>1. C!Names = Q!Names
  BY SameHelpers DEF C!Names, Q!Names
<1>2. C!Paths = Q!Paths
  BY <1>1 DEF C!Paths, Q!Paths
<1> QED BY <1>2, CatalogParameters, SameHelpers DEF C!CatalogConstants, Q!CatalogConstants

\* A lesson of the catalog is a lesson of the ITS.
LEMMA LessonDocument ==
  ASSUME NEW d \in CatalogDocuments, Len(d) = LessonDepth
  PROVE  \E l \in Lessons : d = I!RefOf(l) /\ Front(d) = CategoryOf[l]
<1>1. PICK l \in Lessons, v \in I!Videos, k \in 1 .. LessonDepth + 1 :
         d = SubSeq(Append(I!RefOf(l), v), 1, k) /\ Len(d) = k
  BY DocumentIsAPrefix
<1>2. d = I!RefOf(l) /\ Front(I!RefOf(l)) = CategoryOf[l]
  BY <1>1, PathOfLesson
<1> QED BY <1>2
-----------------------------------------------------------------------------
(* The menu and the place of the catalog.                                  *)

\* The ITS is on the screen when its row is selected, and nothing of it is
\* under way before its menu was loaded; an alert covers the side menu.
MenuInv ==
  /\ selectedMenuItem \in 0 .. 3 /\ itsLoaded \in BOOLEAN
  /\ screen \in {"menu", "its", "alert", "badLessonIndex"}
  /\ selectedMenuItem = 1 => itsLoaded
  /\ screen = "alert" => selectedMenuItem = 1
  /\ ~itsLoaded => /\ top = 0 /\ outbox = <<>>
                   /\ \A i \in I!Controllers : lessonQuery[i] = {} /\ videoQuery[i] = {}

\* The catalog stands no deeper than there were taps.
PathInv ==
  /\ ref \in C!Paths /\ catalogItems \subseteq C!Names /\ queries \subseteq C!Queries
  /\ requests \in 0 .. MaxRequests
  /\ ref = <<>> \/ Len(ref) < requests

LEMMA MenuInit == Init => MenuInv
<1> SUFFICES ASSUME Init PROVE MenuInv
  OBVIOUS
<1>1. selectedMenuItem = 0 /\ itsLoaded = FALSE /\ screen = "menu" /\ top = 0 /\ outbox = <<>>
  BY DEF Init, I!Init
<1>2. \A i \in I!Controllers : lessonQuery[i] = {} /\ videoQuery[i] = {}
  BY DEF Init, I!Init, I!None
<1>3. itsLoaded \in BOOLEAN
  BY <1>1
<1>4. selectedMenuItem \in 0 .. 3 /\ selectedMenuItem # 1 /\ screen # "alert"
  BY <1>1
<1> QED BY <1>1, <1>2, <1>3, <1>4 DEF MenuInv

LEMMA MenuStep ==
  ASSUME MenuInv, [Next]_vars
  PROVE  MenuInv'
<1>1. ASSUME NEW n \in 0 .. 3, SelectKept(n) PROVE MenuInv'
  BY <1>1 DEF SelectKept, Selectable, MenuInv, itsVars
<1>2. CASE LoadITSMenu
  BY <1>2 DEF LoadITSMenu, Selectable, MenuInv, itsVars
<1>3. CASE LoadCatalog
  BY <1>3 DEF LoadCatalog, Selectable, MenuInv, itsVars
<1>4. CASE ITSMoves
  <2>1. UNCHANGED menuVars /\ selectedMenuItem = 1 /\ itsLoaded
    BY <1>4 DEF ITSMoves, MenuInv
  <2>2. screen' \in {"menu", "its", "alert"}
    BY <1>4 DEF ITSMoves, I!viewDidLoad, I!GoBack, I!onIrrelevanceButton, I!AlertNo
  <2> QED BY <2>1, <2>2 DEF MenuInv, menuVars
<1>5. CASE ITSVotes
  <2>1. UNCHANGED menuVars /\ selectedMenuItem = 1 /\ itsLoaded
    BY <1>5 DEF ITSVotes, MenuInv
  <2>2. screen' = "its"
    BY <1>5 DEF ITSVotes, I!OnButton, I!AlertYes
  <2> QED BY <2>1, <2>2 DEF MenuInv, menuVars
<1>6. CASE ITSAnswered
  <2>1. UNCHANGED menuVars /\ itsLoaded
    BY <1>6 DEF ITSAnswered, MenuInv, I!GetLessonsDone, I!GetVideosDone, I!GetFailed, I!WriteDone,
                I!WriteFailed
  <2>2. screen' = screen \/ screen' = "badLessonIndex"
    BY <1>6 DEF ITSAnswered, I!GetLessonsDone, I!GetVideosDone, I!GetFailed, I!WriteDone,
                I!WriteFailed, I!nextLesson
  <2> QED BY <2>1, <2>2 DEF MenuInv, menuVars
<1>7. CASE UNCHANGED <<menuVars, itsVars>>
  BY <1>7 DEF MenuInv, menuVars, itsVars
<1>8. CASE CatalogTapped \/ CatalogAnswered \/ CatalogFailed
  BY <1>7, <1>8 DEF CatalogTapped, CatalogAnswered, CatalogFailed
<1>9. CASE viewDidLoad \/ AlertYes \/ AlertNo \/ WriteDone \/ WriteFailed
  BY <1>7, <1>9 DEF viewDidLoad, AlertYes, AlertNo, WriteDone, WriteFailed, others
<1>10. ASSUME NEW p \in DOMAIN pages,
              \/ GetVideosDone(p) \/ GetVideosFailed(p) \/ (\E f \in I!Fields : OnButton(p, f))
              \/ onIrrelevanceButton(p) \/ GoBack(p)
       PROVE  MenuInv'
  BY <1>7, <1>10 DEF GetVideosDone, GetVideosFailed, OnButton, onIrrelevanceButton, GoBack, others
<1>11. CASE UNCHANGED vars
  BY <1>7, <1>11 DEF vars
<1> QED BY <1>1, <1>2, <1>3, <1>4, <1>5, <1>6, <1>8, <1>9, <1>10, <1>11 DEF Next

LEMMA RowsAreNames == \A p : C!Content(p) \subseteq C!Names
<1> SUFFICES ASSUME NEW p, NEW n \in C!Content(p) PROVE n \in C!Names
  OBVIOUS
<1>1. PICK d \in CatalogDocuments : n = Last(d)
  BY SameHelpers DEF C!Content
<1>2. d \in C!Paths /\ Len(d) \in 1 .. LessonDepth + 1
  BY CatalogParameters DEF C!CatalogConstants
<1>3. d[Len(d)] \in C!Names
  BY <1>2 DEF C!Paths
<1> QED BY <1>1, <1>3 DEF Last

LEMMA PathInit == Init => PathInv
BY AppAssumption DEF Init, C!Init, PathInv, C!Paths

\* One level up.
LEMMA FrontOfRef ==
  ASSUME PathInv, ref # <<>>
  PROVE  /\ Front(ref) \in C!Paths /\ Len(Front(ref)) = Len(ref) - 1
         /\ Len(ref) \in Nat /\ Len(ref) < requests
<1>1. ref \in Seq(C!Names) /\ Len(ref) \in Nat \ {0}
  BY DEF PathInv, C!Paths
<1>2. Front(ref) \in Seq(C!Names) /\ Len(Front(ref)) = Len(ref) - 1
  BY <1>1 DEF Front
<1> QED BY <1>1, <1>2 DEF PathInv, C!Paths

\* A query is sent from where the catalog then stands.
LEMMA AskStep ==
  ASSUME PathInv, C!getCatalogItems, ref' \in C!Paths, ref' = <<>> \/ Len(ref') < requests + 1,
         catalogItems' = catalogItems
  PROVE  PathInv'
<1>1. requests \in Nat /\ MaxRequests \in Nat /\ requests < MaxRequests /\ requests' = requests + 1
  BY AppAssumption DEF PathInv, C!getCatalogItems
<1>2. requests' \in 0 .. MaxRequests
  BY <1>1
<1>3. queries' \subseteq C!Queries
  BY <1>1 DEF PathInv, C!getCatalogItems, C!Queries
<1> QED BY <1>1, <1>2, <1>3 DEF PathInv

LEMMA PathAnswer ==
  ASSUME PathInv, NEW q \in queries, C!QueryAnswered(q)
  PROVE  PathInv'
<1>1. queries' \subseteq C!Queries /\ requests' = requests
  BY DEF C!QueryAnswered, PathInv
<1>2. catalogItems' \subseteq C!Names
  BY RowsAreNames DEF C!QueryAnswered, PathInv
<1>3. ref' = ref \/ (ref # <<>> /\ ref' = Front(ref))
  <2>1. Len(ref) > 1 => ref # <<>>
    OBVIOUS
  <2> QED BY <2>1, SameHelpers DEF C!QueryAnswered, C!OpenLesson
<1>4. CASE ref' = ref
  BY <1>1, <1>2, <1>4 DEF PathInv
<1>5. CASE ref # <<>> /\ ref' = Front(ref)
  <2>1. /\ ref' \in C!Paths /\ Len(ref') = Len(ref) - 1
        /\ Len(ref) \in Nat /\ Len(ref) < requests /\ requests \in Nat
    BY <1>5, FrontOfRef DEF PathInv
  <2>2. Len(ref') < requests'
    BY <1>1, <2>1
  <2> QED BY <1>1, <1>2, <2>1, <2>2 DEF PathInv
<1> QED BY <1>3, <1>4, <1>5

LEMMA PathStep ==
  ASSUME PathInv, [Next]_vars
  PROVE  PathInv'
<1>0. requests \in Nat /\ ref \in Seq(C!Names) /\ Len(ref) \in Nat /\ (ref = <<>> => Len(ref) = 0)
  BY DEF PathInv, C!Paths
<1>1. CASE LoadCatalog
  <2>1. requests = 0 /\ ref' = ref /\ C!getCatalogItems /\ catalogItems' = catalogItems
    BY <1>1 DEF LoadCatalog, C!viewDidLoad
  <2>2. ref = <<>> /\ ref \in C!Paths
    BY <1>0, <2>1 DEF PathInv
  <2> QED BY <2>1, <2>2, AskStep
<1>2. ASSUME NEW n \in C!Names, C!didSelectRow(n) PROVE PathInv'
  <2>1. ref' = Append(ref, n) /\ C!getCatalogItems /\ catalogItems' = catalogItems /\ requests > 0
    BY <1>2 DEF C!didSelectRow, C!Usable
  <2>2. ref' \in Seq(C!Names) /\ Len(ref') = Len(ref) + 1
    BY <1>0, <2>1, AppendProperties
  <2>3. Len(ref') < requests + 1
    BY <1>0, <2>1, <2>2 DEF PathInv
  <2> QED BY <2>1, <2>2, <2>3, AskStep DEF C!Paths
<1>3. CASE C!onBackButton
  <2>1. /\ ref' = IF ref = <<>> THEN ref ELSE Front(ref)
        /\ C!getCatalogItems /\ catalogItems' = catalogItems
    BY <1>3, SameHelpers DEF C!onBackButton
  <2>2. CASE ref = <<>>
    BY <2>1, <2>2, AskStep DEF PathInv
  <2>3. CASE ref # <<>>
    <3>1. /\ ref' \in C!Paths /\ Len(ref') = Len(ref) - 1 /\ Len(ref) < requests
      BY <2>1, <2>3, FrontOfRef
    <3>2. Len(ref') < requests + 1
      BY <1>0, <3>1
    <3> QED BY <2>1, <3>1, <3>2, AskStep
  <2> QED BY <2>2, <2>3
<1>4. CASE CatalogTapped
  BY <1>2, <1>3, <1>4 DEF CatalogTapped
<1>5. CASE CatalogAnswered
  BY <1>5, PathAnswer DEF CatalogAnswered
<1>6. CASE CatalogFailed
  BY <1>6 DEF CatalogFailed, C!QueryFailed, PathInv
<1>7. CASE UNCHANGED catalogVars
  BY <1>7 DEF catalogVars, PathInv
<1>8. ASSUME NEW n \in 0 .. 3, SelectKept(n) PROVE PathInv'
  BY <1>7, <1>8 DEF SelectKept
<1>9. CASE LoadITSMenu \/ ITSMoves \/ ITSVotes \/ ITSAnswered
  BY <1>7, <1>9 DEF LoadITSMenu, ITSMoves, ITSVotes, ITSAnswered
<1>10. CASE viewDidLoad \/ AlertYes \/ AlertNo \/ WriteDone \/ WriteFailed
  BY <1>7, <1>10 DEF viewDidLoad, AlertYes, AlertNo, WriteDone, WriteFailed, others
<1>11. ASSUME NEW p \in DOMAIN pages,
              \/ GetVideosDone(p) \/ GetVideosFailed(p) \/ (\E f \in I!Fields : OnButton(p, f))
              \/ onIrrelevanceButton(p) \/ GoBack(p)
       PROVE  PathInv'
  BY <1>7, <1>11 DEF GetVideosDone, GetVideosFailed, OnButton, onIrrelevanceButton, GoBack, others
<1>12. CASE UNCHANGED vars
  BY <1>7, <1>12 DEF vars
<1> QED BY <1>1, <1>4, <1>5, <1>6, <1>8, <1>9, <1>10, <1>11, <1>12 DEF Next

LEMMA Control == Spec => [](MenuInv /\ PathInv)
<1>1. Init => MenuInv /\ PathInv
  BY MenuInit, PathInit
<1>2. MenuInv /\ PathInv /\ [Next]_vars => (MenuInv /\ PathInv)'
  BY MenuStep, PathStep
<1> QED BY <1>1, <1>2, PTL DEF Spec

-----------------------------------------------------------------------------
(* The app implements ITS.                                                 *)

LEMMA ViewInit == Init => ITSView!Init
<1> SUFFICES ASSUME Init PROVE ITSView!Init
  OBVIOUS
<1>1. queries = {} /\ ~itsLoaded
  BY DEF Init, C!Init
<1> QED BY <1>1 DEF Init, I!Init, ITSView!Init, I!Fresh, ITSView!Fresh, I!None, ITSView!None,
                    I!Controllers, ITSView!Controllers, I!RefOf, ITSView!RefOf

\* What the ITS does not see.
LEMMA Silent ==
  ASSUME UNCHANGED <<itsVars, alone>>, UNCHANGED queries,
         \/ UNCHANGED <<itsLoaded, globals>>
         \/ /\ ~itsLoaded
            /\ categoryRef' = CategoryOf[ITSLessonRef] /\ lessonRef' = I!RefOf(ITSLessonRef)
  PROVE  UNCHANGED ITSView!vars
<1>1. UNCHANGED ITSView!globals
  BY DEF ITSView!globals, globals
<1> QED BY <1>1 DEF ITSView!vars, ITSView!queries, itsVars

\* The student opens the catalog or taps in it.
LEMMA Browse ==
  ASSUME screen \in {"menu", "its"}, UNCHANGED <<itsLoaded, globals, itsVars>>,
         alone' = FALSE, C!getCatalogItems
  PROVE  ITSView!BrowseCatalog
<1>1. queries' # {}
  BY DEF C!getCatalogItems
<1>2. UNCHANGED ITSView!globals
  BY DEF ITSView!globals, globals
<1> QED BY <1>1, <1>2 DEF ITSView!BrowseCatalog, ITSView!queries, itsVars

\* Where the catalog takes a lesson from is one of CatalogRefs.
LEMMA OpenedRef ==
  ASSUME PathInv, Len(ref) > 1
  PROVE  ref \in CatalogRefs
<1>1. ref \in Seq(C!Names) /\ Len(ref) \in Nat /\ requests \in Nat /\ MaxRequests \in Nat
  BY AppAssumption DEF PathInv, C!Paths
<1>2. ref # <<>>
  OBVIOUS
<1>3. Len(ref) < requests /\ requests <= MaxRequests
  BY <1>1, <1>2 DEF PathInv
<1>4. Len(ref) \in 2 .. MaxRequests - 1
  BY <1>1, <1>3
<1>5. ref \in [1 .. Len(ref) -> C!Names]
  BY <1>1
<1> QED BY <1>4, <1>5, AppAssumption

LEMMA Answered ==
  ASSUME PathInv, I!Alive, NEW q \in queries, UNCHANGED <<itsLoaded, itsVars, alone>>,
         \/ C!QueryAnswered(q)
         \/ C!QueryFailed(q)
  PROVE  ITSView!CatalogAnswers
<1>1. \/ UNCHANGED globals
      \/ Len(ref) > 1 /\ lessonRef' = ref /\ categoryRef' = Front(ref)
  BY SameHelpers DEF C!QueryAnswered, C!QueryFailed, C!OpenLesson, globals
<1>2. \/ \E r \in CatalogRefs : categoryRef' = Front(r) /\ lessonRef' = r
      \/ UNCHANGED globals
  BY <1>1, OpenedRef
<1>3. \A r : ITSView!Front(r) = Front(r)
  BY DEF ITSView!Front, Front
<1>4. CASE itsLoaded
  <2>1. itsLoaded'
    BY <1>4
  <2>2. \/ \E r \in CatalogRefs : categoryRef' = ITSView!Front(r) /\ lessonRef' = r
        \/ UNCHANGED globals
    BY <1>2, <1>3
  <2> QED BY <1>4, <2>1, <2>2 DEF ITSView!CatalogAnswers, ITSView!Alive, I!Alive, ITSView!globals,
                                  globals, ITSView!queries, itsVars
<1>5. CASE ~itsLoaded
  <2>1. ~itsLoaded'
    BY <1>5
  <2>2. UNCHANGED ITSView!globals
    BY <1>5, <2>1 DEF ITSView!globals
  <2> QED BY <2>2 DEF ITSView!CatalogAnswers, ITSView!Alive, I!Alive, ITSView!queries, itsVars
<1> QED BY <1>4, <1>5

\* Every step of the app is a step of the ITS, or the ITS does not see it.
LEMMA ViewStep ==
  ASSUME MenuInv, PathInv, [Next]_vars
  PROVE  [ITSView!Next]_(ITSView!vars)
<1>1. ASSUME NEW n \in 0 .. 3, SelectKept(n) PROVE UNCHANGED ITSView!vars
  BY <1>1, Silent DEF SelectKept, catalogVars
<1>2. CASE LoadITSMenu
  BY <1>2, Silent DEF LoadITSMenu, catalogVars
<1>3. CASE LoadCatalog
  <2>1. screen \in {"menu", "its"}
    BY <1>3 DEF LoadCatalog, Selectable, Alive, I!Alive, MenuInv
  <2>2. C!getCatalogItems /\ alone' = FALSE /\ UNCHANGED <<itsLoaded, globals, itsVars>>
    BY <1>3 DEF LoadCatalog, C!viewDidLoad, globals
  <2> QED BY <2>1, <2>2, Browse DEF ITSView!Next
<1>4. CASE CatalogTapped
  <2>1. screen \in {"menu", "its"}
    BY <1>4 DEF CatalogTapped, Alive, I!Alive, MenuInv
  <2>2. C!getCatalogItems /\ alone' = FALSE /\ UNCHANGED <<itsLoaded, globals, itsVars>>
    BY <1>4 DEF CatalogTapped, C!didSelectRow, C!onBackButton, globals, menuVars
  <2> QED BY <2>1, <2>2, Browse DEF ITSView!Next
<1>5. CASE CatalogAnswered
  <2>1. I!Alive /\ UNCHANGED <<itsLoaded, itsVars, alone>>
    BY <1>5 DEF CatalogAnswered, Alive, menuVars
  <2>2. PICK q \in queries : C!QueryAnswered(q)
    BY <1>5 DEF CatalogAnswered
  <2> QED BY <2>1, <2>2, Answered DEF ITSView!Next
<1>6. CASE CatalogFailed
  <2>1. I!Alive /\ UNCHANGED <<itsLoaded, itsVars, alone>>
    BY <1>6 DEF CatalogFailed, Alive, menuVars
  <2>2. PICK q \in queries : C!QueryFailed(q)
    BY <1>6 DEF CatalogFailed
  <2> QED BY <2>1, <2>2, Answered DEF ITSView!Next
<1>7. CASE ITSMoves
  <2>1. itsLoaded /\ itsLoaded' /\ queries' = queries
    BY <1>7 DEF ITSMoves, MenuInv, menuVars, catalogVars
  <2> QED BY <1>7, <2>1, SameMoves DEF ITSMoves, ITSView!Next
<1>8. CASE ITSVotes
  <2>1. itsLoaded /\ itsLoaded' /\ queries' = queries
    BY <1>8 DEF ITSVotes, MenuInv, menuVars, catalogVars
  <2> QED BY <1>8, <2>1, SameVotes DEF ITSVotes, ITSView!Next, I!Fields, ITSView!Fields
<1>9. CASE ITSAnswered
  <2>1. itsLoaded /\ itsLoaded' /\ queries' = queries
    BY <1>9 DEF ITSAnswered, MenuInv, menuVars, catalogVars, I!GetLessonsDone, I!GetVideosDone,
                I!GetFailed, I!WriteDone, I!WriteFailed
  <2> QED BY <1>9, <2>1, SameAnswers, SameVotes
          DEF ITSAnswered, ITSView!Next, I!Controllers, ITSView!Controllers
<1>10. CASE UNCHANGED others
  BY <1>10, Silent DEF others, menuVars, catalogVars
<1>11. CASE viewDidLoad \/ AlertYes \/ AlertNo \/ WriteDone \/ WriteFailed
  BY <1>10, <1>11 DEF viewDidLoad, AlertYes, AlertNo, WriteDone, WriteFailed
<1>12. ASSUME NEW p \in DOMAIN pages,
              \/ GetVideosDone(p) \/ GetVideosFailed(p) \/ (\E f \in I!Fields : OnButton(p, f))
              \/ onIrrelevanceButton(p) \/ GoBack(p)
       PROVE  UNCHANGED ITSView!vars
  <2>1. UNCHANGED others
    BY <1>12 DEF GetVideosDone, GetVideosFailed, OnButton, onIrrelevanceButton, GoBack
  <2> QED BY <2>1, Silent DEF others, menuVars, catalogVars
<1>13. CASE UNCHANGED vars
  BY <1>10, <1>13 DEF vars, others
<1> QED BY <1>1, <1>2, <1>3, <1>4, <1>5, <1>6, <1>7, <1>8, <1>9, <1>11, <1>12, <1>13 DEF Next

\* The app implements ITS: whatever the side menu, the catalog and its lessons
\* do, the ITS sees BrowseCatalog, CatalogAnswers and its own steps.
THEOREM AppImplementsITS == Spec => ImplementsITS
<1>1. MenuInv /\ PathInv /\ [Next]_vars => [ITSView!Next]_(ITSView!vars)
  BY ViewStep
<1> QED BY <1>1, ViewInit, Control, PTL DEF Spec, ImplementsITS, ITSView!Spec

\* The invariants of ITS hold of the app.
LEMMA InvOfITS == Spec => []P!IInv
<1>1. P!Spec => []P!IInv
  BY ITSParameters, P!IInvAlways
<1> QED BY <1>1, AppImplementsITS, ViewIsITS, PTL DEF ImplementsITS

-----------------------------------------------------------------------------
(* The types of the app.                                                   *)

\* The globals, counters and flags.
GlobalsOK == categoryRef \in I!Categories /\ lessonRef \in I!Refs

FlagsOK == /\ trapped \in BOOLEAN /\ patient \in BOOLEAN /\ mixed \in BOOLEAN
           /\ lessonErrors \in Nat

PagesType ==
  /\ pages \in Seq(Fields) /\ Len(pages) <= MaxPages
  /\ stack \in Seq(1 .. Len(pages)) /\ pushed = Len(stack)
  /\ lessonAlert \in 0 .. Len(pages)
  /\ lessonOutbox \in Seq(Votes)

\* Buttons are on when there is a video and nothing is being fetched.
PageOK(q) ==
  /\ q.enabled => q.title # NoRef /\ q.videos # <<>> /\ ~q.fetching
  /\ q.fetching \/ q.calm => q.title # NoRef

\* A page that waits for a vote has its buttons off and the video voted on.
VoteOK(w) ==
  /\ w.page \in 1 .. Len(pages)
  /\ pages[w.page].title # NoRef /\ pages[w.page].videos # <<>>
  /\ ~pages[w.page].enabled /\ ~pages[w.page].fetching

PagesInv ==
  /\ \A p \in 1 .. Len(pages) : PageOK(pages[p])
  /\ \A k \in 1 .. Len(lessonOutbox) : VoteOK(lessonOutbox[k])
  /\ \A j, k \in 1 .. Len(lessonOutbox) :
       lessonOutbox[j].page = lessonOutbox[k].page => j = k
  /\ lessonAlert # 0 => pages[lessonAlert].enabled

LEMMA SameSets ==
  /\ P!Categories = I!Categories /\ P!Refs = I!Refs /\ P!Videos = I!Videos
  /\ P!Controllers = I!Controllers /\ P!Snapshots = I!Snapshots /\ P!Fields = I!Fields
  /\ P!ITSFields = I!ITSFields /\ P!Votes = I!Votes
<1>1. P!Categories = I!Categories
  BY SameHelpers DEF P!Categories, I!Categories
<1>2. P!Refs = I!Refs
  <2>1. \A s : P!Last(s) = I!Last(s)
    BY DEF P!Last, I!Last
  <2> QED BY <1>1, <2>1, SameHelpers DEF P!Refs, I!Refs
<1>3. P!Videos = I!Videos
  BY DEF P!Videos, I!Videos
<1>4. P!Controllers = I!Controllers /\ P!Fields = I!Fields
  BY DEF P!Controllers, I!Controllers, P!Fields, I!Fields
<1>5. P!Snapshots = I!Snapshots
  BY <1>2, <1>3 DEF P!Snapshots, I!Snapshots
<1>6. P!ITSFields = I!ITSFields
  BY <1>5 DEF P!ITSFields, I!ITSFields
<1>7. P!Votes = I!Votes
  BY <1>2, <1>3, <1>4 DEF P!Votes, I!Votes
<1> QED BY <1>1, <1>2, <1>3, <1>4, <1>5, <1>6, <1>7

LEMMA TypesOfITS ==
  ASSUME P!TypeOK, GlobalsOK
  PROVE  I!TypeOK
<1>1. (queries # {}) \in BOOLEAN
  OBVIOUS
<1> QED BY <1>1, SameSets DEF P!TypeOK, I!TypeOK, GlobalsOK

\* What the app starts with, and what the catalog takes for a lesson.
LEMMA RefsOfTheApp ==
  /\ \A r \in CatalogRefs : Front(r) \in I!Categories /\ r \in I!Refs
  /\ CategoryOf[ITSLessonRef] \in I!Categories /\ I!RefOf(ITSLessonRef) \in I!Refs
<1>1. ITSLessonRef \in Lessons
  BY AppAssumption DEF I!ITSConstants
<1>2. \A r \in CatalogRefs : P!Front(r) \in P!Categories /\ r \in P!Refs
  BY ITSParameters, P!RefsOfCategories
<1>3. \A l \in Lessons : CategoryOf[l] \in P!Categories /\ P!RefOf(l) \in P!Refs
  BY ITSParameters, P!RefsOfCategories
<1>4. \A l : P!RefOf(l) = I!RefOf(l)
  BY DEF P!RefOf, I!RefOf
<1> QED BY <1>1, <1>2, <1>3, <1>4, SameSets, SameHelpers

\* The lessons and the categories are in the catalog.
LEMMA LessonIsADocument ==
  ASSUME NEW l \in Lessons
  PROVE  /\ I!RefOf(l) \in CatalogDocuments /\ I!RefOf(l) \in C!Paths /\ l \in C!Names
         /\ Len(I!RefOf(l)) = LessonDepth /\ Front(I!RefOf(l)) = CategoryOf[l]
<1>1. PICK v \in I!Videos : TRUE
  BY AppAssumption
<1>2. LessonDepth \in 1 .. LessonDepth
  BY AppAssumption
<1>3. /\ I!RefOf(l) \in CatalogDocuments /\ Len(I!RefOf(l)) = LessonDepth
      /\ Front(I!RefOf(l)) = CategoryOf[l] /\ CategoryOf[l] \in Seq(Nat)
  BY <1>1, <1>2, PathOfLesson, PrefixIsADocument
<1>4. I!RefOf(l) \in C!Paths
  BY <1>3, CatalogParameters DEF C!CatalogConstants
<1>5. I!RefOf(l)[LessonDepth] = l
  <2>1. Len(CategoryOf[l]) + 1 = LessonDepth /\ l \in Nat
    BY AppAssumption DEF I!ITSConstants
  <2>2. Append(CategoryOf[l], l)[Len(CategoryOf[l]) + 1] = l
    BY <1>3, <2>1, AppendProperties
  <2> QED BY <2>1, <2>2 DEF I!RefOf
<1>6. l \in C!Names
  BY <1>2, <1>3, <1>4, <1>5 DEF C!Paths
<1> QED BY <1>3, <1>4, <1>6

LEMMA FrontElements ==
  ASSUME NEW S, NEW r \in Seq(S), r # <<>>
  PROVE  /\ Len(r) \in Nat \ {0} /\ Front(r) \in Seq(S) /\ Len(Front(r)) = Len(r) - 1
         /\ \A i \in 1 .. Len(r) - 1 : Front(r)[i] = r[i]
<1>1. Len(r) \in Nat \ {0} /\ DOMAIN r = 1 .. Len(r) /\ r[Len(r)] \in S
  BY EmptySeq, LenProperties
<1>2. /\ Front(r) \in Seq(S) /\ Len(Front(r)) = Len(r) - 1
      /\ \A i \in 1 .. Len(r) - 1 : Front(r)[i] = r[i]
  BY <1>1 DEF Front
<1> QED BY <1>1, <1>2

LEMMA RefsArePaths == I!Categories \subseteq C!Paths /\ I!Refs \subseteq C!Paths
<1>1. ASSUME NEW r \in C!Paths, r # <<>> PROVE Front(r) \in C!Paths
  <2>1. r \in Seq(C!Names) /\ Len(r) \in Nat \ {0}
    BY <1>1 DEF C!Paths
  <2> QED BY <2>1 DEF Front, C!Paths
<1>2. \A r \in CatalogRefs : r \in C!Paths /\ r # <<>>
  BY AppAssumption DEF I!ITSConstants
<1>3. \A l \in Lessons : CategoryOf[l] \in C!Paths
  <2> TAKE l \in Lessons
  <2>1. /\ I!RefOf(l) \in C!Paths /\ Len(I!RefOf(l)) = LessonDepth
        /\ Front(I!RefOf(l)) = CategoryOf[l] /\ LessonDepth # 0
    BY AppAssumption, LessonIsADocument
  <2>2. I!RefOf(l) # <<>>
    BY <2>1
  <2> QED BY <1>1, <2>1, <2>2
<1>4. \A c \in I!Categories : c \in C!Paths
  BY <1>1, <1>2, <1>3, SameHelpers DEF I!Categories
<1>5. ASSUME NEW r \in Seq(Nat), r # <<>>, Front(r) \in C!Paths, Last(r) \in C!Names
      PROVE  r \in C!Paths
  <2>1. /\ Len(r) \in Nat \ {0} /\ Front(r) \in Seq(C!Names) /\ Len(Front(r)) = Len(r) - 1
        /\ \A i \in 1 .. Len(r) - 1 : Front(r)[i] = r[i]
    <3>1. Len(r) \in Nat \ {0} /\ Len(Front(r)) = Len(r) - 1
          /\ \A i \in 1 .. Len(r) - 1 : Front(r)[i] = r[i]
      BY <1>5, FrontElements
    <3> QED BY <1>5, <3>1 DEF C!Paths
  <2>2. \A i \in 1 .. Len(r) - 1 : r[i] \in C!Names
    BY <2>1
  <2>3. r[Len(r)] \in C!Names
    BY <1>5 DEF Last
  <2>4. \A i \in 1 .. Len(r) : i \in 1 .. Len(r) - 1 \/ i = Len(r)
    BY <2>1
  <2>5. \A i \in 1 .. Len(r) : r[i] \in C!Names
    BY <2>2, <2>3, <2>4
  <2> QED BY <2>5 DEF C!Paths
<1>6. \A r \in I!Refs : r \in C!Paths
  <2> TAKE r \in I!Refs
  <2>1. CASE r \in CatalogRefs
    BY <1>2, <2>1
  <2>2. CASE r \notin CatalogRefs
    <3>1. /\ r \in Seq(Nat) /\ r # <<>> /\ Front(r) \in I!Categories
          /\ Last(r) \in Lessons
      BY <2>2, SameHelpers DEF I!Refs, I!Last, Last
    <3> QED BY <1>4, <1>5, <3>1, LessonIsADocument
  <2> QED BY <2>1, <2>2
<1> QED BY <1>4, <1>6

LEMMA GlobalsInit == Init => GlobalsOK
BY RefsOfTheApp DEF Init, I!Init, GlobalsOK

LEMMA GlobalsStep ==
  ASSUME MenuInv, PathInv, GlobalsOK, P!TypeOK', [Next]_vars
  PROVE  GlobalsOK'
<1>1. CASE itsLoaded'
  BY <1>1, SameSets DEF P!TypeOK, GlobalsOK
<1>2. CASE UNCHANGED globals
  BY <1>2 DEF globals, GlobalsOK
<1>3. CASE LoadITSMenu
  BY <1>1, <1>3 DEF LoadITSMenu
<1>4. CASE ITSMoves \/ ITSVotes
  BY <1>1, <1>4 DEF ITSMoves, ITSVotes, MenuInv, menuVars
<1>5. CASE ITSAnswered
  BY <1>1, <1>5 DEF ITSAnswered, MenuInv, menuVars, I!GetLessonsDone, I!GetVideosDone, I!GetFailed,
                I!WriteDone, I!WriteFailed
<1>6. CASE CatalogAnswered
  <2>1. \/ UNCHANGED globals
        \/ Len(ref) > 1 /\ lessonRef' = ref /\ categoryRef' = Front(ref)
    BY <1>6, SameHelpers DEF CatalogAnswered, C!QueryAnswered, C!OpenLesson, globals
  <2> QED BY <1>2, <2>1, OpenedRef, RefsOfTheApp DEF GlobalsOK
<1>7. CASE LoadCatalog \/ CatalogTapped \/ CatalogFailed
  BY <1>2, <1>7 DEF LoadCatalog, CatalogTapped, CatalogFailed, C!viewDidLoad, C!didSelectRow,
                    C!onBackButton, C!QueryFailed, globals
<1>8. ASSUME NEW n \in 0 .. 3, SelectKept(n) PROVE GlobalsOK'
  BY <1>2, <1>8 DEF SelectKept
<1>9. CASE viewDidLoad \/ AlertYes \/ AlertNo \/ WriteDone \/ WriteFailed
  BY <1>2, <1>9 DEF viewDidLoad, AlertYes, AlertNo, WriteDone, WriteFailed, others
<1>10. ASSUME NEW p \in DOMAIN pages,
              \/ GetVideosDone(p) \/ GetVideosFailed(p) \/ (\E f \in I!Fields : OnButton(p, f))
              \/ onIrrelevanceButton(p) \/ GoBack(p)
       PROVE  GlobalsOK'
  BY <1>2, <1>10 DEF GetVideosDone, GetVideosFailed, OnButton, onIrrelevanceButton, GoBack, others
<1>11. CASE UNCHANGED vars
  BY <1>2, <1>11 DEF vars
<1> QED BY <1>3, <1>4, <1>5, <1>6, <1>7, <1>8, <1>9, <1>10, <1>11 DEF Next

LEMMA FlagsInit == Init => FlagsOK
<1>1. Init => trapped \in BOOLEAN /\ patient \in BOOLEAN /\ mixed \in BOOLEAN
  BY DEF Init, C!Init
<1> QED BY <1>1 DEF Init, C!Init, FlagsOK

LEMMA FlagsStep ==
  ASSUME FlagsOK, [Next]_vars
  PROVE  FlagsOK'
<1>1. CASE UNCHANGED <<catalogVars, mixed>> /\ lessonErrors' \in {lessonErrors, lessonErrors + 1}
  BY <1>1 DEF catalogVars, FlagsOK
<1>2. CASE LoadCatalog
  BY <1>2 DEF LoadCatalog, C!viewDidLoad, FlagsOK
<1>3. CASE CatalogTapped
  <2>1. patient' \in BOOLEAN
    BY <1>3 DEF CatalogTapped, C!didSelectRow, C!onBackButton
  <2> QED BY <1>3, <2>1 DEF CatalogTapped, C!didSelectRow, C!onBackButton, FlagsOK
<1>4. CASE CatalogAnswered
  <2>1. mixed' \in BOOLEAN
    BY <1>4 DEF CatalogAnswered
  <2>2. trapped' \in BOOLEAN
    BY <1>4 DEF CatalogAnswered, C!QueryAnswered, C!OpenLesson, FlagsOK
  <2> QED BY <1>4, <2>1, <2>2 DEF CatalogAnswered, C!QueryAnswered, FlagsOK
<1>5. CASE CatalogFailed
  <2>1. patient' \in BOOLEAN
    BY <1>5 DEF CatalogFailed, C!QueryFailed
  <2> QED BY <1>5, <2>1 DEF CatalogFailed, C!QueryFailed, FlagsOK
<1>6. ASSUME NEW n \in 0 .. 3, SelectKept(n) PROVE FlagsOK'
  BY <1>1, <1>6 DEF SelectKept
<1>7. CASE LoadITSMenu \/ ITSMoves \/ ITSVotes \/ ITSAnswered
  BY <1>1, <1>7 DEF LoadITSMenu, ITSMoves, ITSVotes, ITSAnswered
<1>8. CASE viewDidLoad \/ AlertYes \/ AlertNo \/ WriteDone \/ WriteFailed
  BY <1>1, <1>8 DEF viewDidLoad, AlertYes, AlertNo, WriteDone, WriteFailed, others
<1>9. ASSUME NEW p \in DOMAIN pages,
              \/ GetVideosDone(p) \/ GetVideosFailed(p) \/ (\E f \in I!Fields : OnButton(p, f))
              \/ onIrrelevanceButton(p) \/ GoBack(p)
      PROVE  FlagsOK'
  BY <1>1, <1>9 DEF GetVideosDone, GetVideosFailed, OnButton, onIrrelevanceButton, GoBack, others
<1>10. CASE UNCHANGED vars
  BY <1>1, <1>10 DEF vars
<1> QED BY <1>2, <1>3, <1>4, <1>5, <1>6, <1>7, <1>8, <1>9, <1>10 DEF Next

-----------------------------------------------------------------------------
(* The lessons opened from the catalog.                                    *)

LEMMA FreshPage ==
  Fresh \in Fields /\ PageOK(Fresh) /\ ~Fresh.enabled /\ ~Fresh.calm /\ Fresh.title = NoRef
BY DEF Fresh, Fields, PageOK, NoRef

\* The fields of a page that has got a list.
LEMMA ListedPage ==
  ASSUME NEW q \in Fields, ~q.enabled, q.title # NoRef, NEW list \in Seq(I!Videos)
  PROVE  LET r == getVideo(q, list)
         IN r \in Fields /\ PageOK(r) /\ r.title = q.title /\ r.calm = q.calm
<1> DEFINE r == getVideo(q, list)
<1>1. /\ r \in Fields /\ r.title = q.title /\ r.calm = q.calm /\ r.videos = list
      /\ r.fetching = FALSE /\ (r.enabled => list # <<>>)
  BY DEF getVideo, Fields
<1> HIDE DEF r
<1>2. PageOK(r)
  BY <1>1 DEF PageOK
<1>3. r \in Fields /\ PageOK(r) /\ r.title = q.title /\ r.calm = q.calm
  BY <1>1, <1>2
<1> QED BY <1>3 DEF r

LEMMA VideosOfAnswer ==
  ASSUME NEW r, NEW s \in {<<>>} \union I!VideoLists(r)
  PROVE  s \in Seq(I!Videos)
<1>1. I!VideoLists(r) = P!VideoLists(r)
  <2>1. \A S : I!Cardinality(S) = P!Cardinality(S)
    BY DEF I!Cardinality, P!Cardinality
  <2>2. I!Content(r) = P!Content(r)
    BY DEF I!Content, P!Content, I!RefOf, P!RefOf
  <2> QED BY <2>1, <2>2 DEF I!VideoLists, P!VideoLists, I!Last, P!Last
<1>2. s \in Seq(P!Videos)
  BY <1>1, ITSParameters, P!VideoListIsASequence
<1> QED BY <1>2, SameSets

\* Page p, which nobody has voted on, has the fields q.
LEMMA OnePageStep ==
  ASSUME PagesType, PagesInv, NEW p \in 1 .. Len(pages), NEW q \in Fields, PageOK(q),
         pages' = [pages EXCEPT ![p] = q],
         pages[p].fetching \/ pages[p].title = NoRef,
         UNCHANGED <<stack, pushed, lessonAlert, lessonOutbox>>
  PROVE  PagesType' /\ PagesInv'
<1>1. /\ pages' \in Seq(Fields) /\ Len(pages') = Len(pages) /\ pages'[p] = q
      /\ \A n \in 1 .. Len(pages) : n # p => pages'[n] = pages[n]
  BY DEF PagesType
<1>2. PagesType'
  BY <1>1 DEF PagesType
<1>3. \A n \in 1 .. Len(pages') : PageOK(pages'[n])
  BY <1>1 DEF PagesInv
<1>4. \A k \in 1 .. Len(lessonOutbox) : VoteOK(lessonOutbox[k])'
  <2> TAKE k \in 1 .. Len(lessonOutbox)
  <2>1. VoteOK(lessonOutbox[k])
    BY DEF PagesInv
  <2>2. lessonOutbox[k].page # p
    BY <2>1 DEF VoteOK
  <2> QED BY <1>1, <2>1, <2>2 DEF VoteOK
<1>5. lessonAlert # 0 => pages'[lessonAlert].enabled
  <2> HAVE lessonAlert # 0
  <2>1. lessonAlert \in 1 .. Len(pages) /\ pages[lessonAlert].enabled
    BY DEF PagesType, PagesInv
  <2>2. lessonAlert # p
    BY <2>1 DEF PagesInv, PageOK
  <2> QED BY <1>1, <2>1, <2>2
<1>6. PagesInv'
  BY <1>1, <1>3, <1>4, <1>5 DEF PagesInv
<1> QED BY <1>2, <1>6

\* The fields of a page with its buttons off, or disturbed.
LEMMA VotedPage ==
  ASSUME NEW m \in Fields
  PROVE  LET q == [m EXCEPT !.enabled = FALSE]
         IN /\ q \in Fields /\ q.enabled = FALSE /\ q.title = m.title
            /\ q.videos = m.videos /\ q.fetching = m.fetching /\ q.calm = m.calm
BY DEF Fields

LEMMA DisturbedPage ==
  ASSUME NEW m \in Fields
  PROVE  LET q == [m EXCEPT !.calm = FALSE]
         IN /\ q \in Fields /\ q.enabled = m.enabled /\ q.title = m.title
            /\ q.videos = m.videos /\ q.fetching = m.fetching /\ q.calm = FALSE
BY DEF Fields

\* A page whose view has been loaded.
WithTitle(m, r, c) == [m EXCEPT !.title = r, !.fetching = TRUE, !.calm = c]

LEMMA LoadedPage ==
  ASSUME NEW m \in Fields, NEW r \in I!Refs, NEW c \in BOOLEAN, NEW q, q = WithTitle(m, r, c)
  PROVE  q \in Fields /\ q.title = r /\ q.enabled = m.enabled /\ q.calm = c
BY DEF Fields, WithTitle

LEMMA FailedPage ==
  ASSUME NEW m \in Fields
  PROVE  LET q == [m EXCEPT !.fetching = FALSE]
         IN q \in Fields /\ q.title = m.title /\ q.enabled = m.enabled /\ q.calm = m.calm
BY DEF Fields

\* The student votes on the video of page p.
LEMMA PageVotes ==
  ASSUME PagesType, PagesInv, GlobalsOK, NEW p \in 1 .. Len(pages), pages[p].enabled,
         NEW f \in I!Fields, Vote(p, f), lessonAlert' = 0, UNCHANGED <<stack, pushed>>
  PROVE  PagesType' /\ PagesInv'
<1> DEFINE w == [page |-> p, ref |-> lessonRef, id |-> Head(pages[p].videos), field |-> f]
<1>1. pages[p] \in Fields /\ PageOK(pages[p])
  BY DEF PagesType, PagesInv
<1>2. /\ pages[p].title # NoRef /\ pages[p].videos # <<>> /\ ~pages[p].fetching
      /\ pages[p].videos \in Seq(I!Videos)
  BY <1>1 DEF PageOK, Fields
<1>3. Head(pages[p].videos) \in I!Videos
  BY <1>2
<1>4. p \in 1 .. MaxPages
  BY AppAssumption DEF PagesType
<1>5. w \in Votes /\ w.page = p
  BY <1>3, <1>4 DEF Votes, GlobalsOK
<1>6. pages' = [pages EXCEPT ![p].enabled = FALSE] /\ lessonOutbox' = Append(lessonOutbox, w)
  BY DEF Vote
<1> HIDE DEF w
<1>7. PICK q \in Fields : /\ q = [pages[p] EXCEPT !.enabled = FALSE] /\ ~q.enabled
                          /\ q.title = pages[p].title /\ q.videos = pages[p].videos
                          /\ q.fetching = pages[p].fetching
  BY <1>1, VotedPage
<1>8. /\ pages' \in Seq(Fields) /\ Len(pages') = Len(pages) /\ pages'[p] = q
      /\ \A n \in 1 .. Len(pages) : n # p => pages'[n] = pages[n]
  <2>1. pages' = [pages EXCEPT ![p] = q]
    BY <1>6, <1>7
  <2> QED BY <2>1 DEF PagesType
<1>9. lessonOutbox \in Seq(Votes) /\ Len(lessonOutbox) \in Nat
  BY DEF PagesType
<1>10. /\ lessonOutbox' \in Seq(Votes) /\ Len(lessonOutbox') = Len(lessonOutbox) + 1
       /\ \A k \in 1 .. Len(lessonOutbox) : lessonOutbox'[k] = lessonOutbox[k]
       /\ lessonOutbox'[Len(lessonOutbox) + 1] = w
  BY <1>5, <1>6, <1>9
<1>11. PagesType'
  <2>1. Len(pages) \in Nat
    BY DEF PagesType
  <2> QED BY <1>8, <1>10, <2>1 DEF PagesType
<1>12. \A n \in 1 .. Len(pages') : PageOK(pages'[n])
  <2>1. PageOK(q)
    BY <1>2, <1>7 DEF PageOK
  <2> QED BY <1>8, <2>1 DEF PagesInv
<1>13. \A k \in 1 .. Len(lessonOutbox') : k \in 1 .. Len(lessonOutbox) \/ k = Len(lessonOutbox) + 1
  BY <1>9, <1>10
<1>14. \A k \in 1 .. Len(lessonOutbox) : VoteOK(lessonOutbox[k]) /\ lessonOutbox[k].page # p
  BY DEF PagesInv, VoteOK
<1>15. \A k \in 1 .. Len(lessonOutbox') : VoteOK(lessonOutbox[k])'
  <2> TAKE k \in 1 .. Len(lessonOutbox')
  <2>1. CASE k \in 1 .. Len(lessonOutbox)
    <3>1. /\ VoteOK(lessonOutbox[k]) /\ lessonOutbox[k].page # p
          /\ lessonOutbox'[k] = lessonOutbox[k]
      BY <1>10, <1>14, <2>1
    <3> QED BY <1>8, <3>1 DEF VoteOK
  <2>2. CASE k = Len(lessonOutbox) + 1
    <3>1. lessonOutbox'[k] = w
      BY <1>10, <2>2
    <3> QED BY <1>2, <1>5, <1>7, <1>8, <3>1 DEF VoteOK
  <2> QED BY <1>13, <2>1, <2>2
<1>16. \A j, k \in 1 .. Len(lessonOutbox') :
         lessonOutbox'[j].page = lessonOutbox'[k].page => j = k
  BY <1>5, <1>10, <1>13, <1>14 DEF PagesInv
<1>17. PagesInv'
  BY <1>12, <1>15, <1>16 DEF PagesInv
<1> QED BY <1>11, <1>17

\* The oldest vote is answered; what is left of the others.
LEMMA TailOfVotes ==
  ASSUME PagesType, PagesInv, lessonOutbox # <<>>, lessonOutbox' = Tail(lessonOutbox)
  PROVE  /\ lessonOutbox' \in Seq(Votes) /\ Len(lessonOutbox') \in Nat
         /\ Head(lessonOutbox) = lessonOutbox[1] /\ 1 \in 1 .. Len(lessonOutbox)
         /\ lessonOutbox[1] \in Votes /\ VoteOK(lessonOutbox[1])
         /\ \A k \in 1 .. Len(lessonOutbox') :
              /\ k + 1 \in 1 .. Len(lessonOutbox) /\ lessonOutbox'[k] = lessonOutbox[k + 1]
              /\ VoteOK(lessonOutbox[k + 1]) /\ lessonOutbox'[k].page # lessonOutbox[1].page
         /\ \A j, k \in 1 .. Len(lessonOutbox') :
              lessonOutbox'[j].page = lessonOutbox'[k].page => j = k
<1>1. lessonOutbox \in Seq(Votes) /\ Len(lessonOutbox) \in Nat /\ Len(lessonOutbox) > 0
  BY DEF PagesType
<1>2. /\ lessonOutbox' \in Seq(Votes) /\ Len(lessonOutbox') = Len(lessonOutbox) - 1
      /\ \A k \in 1 .. Len(lessonOutbox') : lessonOutbox'[k] = lessonOutbox[k + 1]
  BY <1>1
<1>3. \A k \in 1 .. Len(lessonOutbox') : k + 1 \in 1 .. Len(lessonOutbox) /\ k + 1 # 1
  BY <1>1, <1>2
<1>4. /\ Head(lessonOutbox) = lessonOutbox[1] /\ lessonOutbox[1] \in Votes
      /\ 1 \in 1 .. Len(lessonOutbox)
  BY <1>1
<1>5. /\ \A k \in 1 .. Len(lessonOutbox) : VoteOK(lessonOutbox[k])
      /\ \A j, k \in 1 .. Len(lessonOutbox) :
           lessonOutbox[j].page = lessonOutbox[k].page => j = k
  BY DEF PagesInv
<1>6. \A j, k \in 1 .. Len(lessonOutbox') : j + 1 = k + 1 => j = k
  BY <1>1, <1>2
<1> QED BY <1>1, <1>2, <1>3, <1>4, <1>5, <1>6

\* Its answer leaves the pages alone.
LEMMA VoteGone ==
  ASSUME PagesType, PagesInv, lessonOutbox # <<>>, lessonOutbox' = Tail(lessonOutbox),
         UNCHANGED <<pages, lessonAlert>>, stack' \in Seq(1 .. Len(pages)), pushed' = Len(stack')
  PROVE  PagesType' /\ PagesInv'
<1>1. PagesType'
  BY TailOfVotes DEF PagesType
<1>2. \A k \in 1 .. Len(lessonOutbox') : VoteOK(lessonOutbox[k])'
  <2> TAKE k \in 1 .. Len(lessonOutbox')
  <2>1. lessonOutbox'[k] = lessonOutbox[k + 1] /\ VoteOK(lessonOutbox[k + 1])
    BY TailOfVotes
  <2> QED BY <2>1 DEF VoteOK
<1>3. PagesInv'
  BY <1>2, TailOfVotes DEF PagesInv
<1> QED BY <1>1, <1>3

\* popViewController.
LEMMA PopTypes ==
  ASSUME PagesType, stack # <<>>, Pop
  PROVE  /\ stack' \in Seq(1 .. Len(pages)) /\ pushed' = Len(stack')
         /\ Len(stack') = Len(stack) - 1 /\ pushed \in Nat /\ pushed > 0
         /\ \A k \in 1 .. Len(stack') : stack'[k] = stack[k]
<1>1. stack \in Seq(1 .. Len(pages)) /\ stack' = Front(stack) /\ pushed = Len(stack)
      /\ pushed' = pushed - 1
  BY DEF PagesType, Pop
<1>2. /\ Len(stack) \in Nat \ {0} /\ Front(stack) \in Seq(1 .. Len(pages))
      /\ Len(Front(stack)) = Len(stack) - 1
      /\ \A i \in 1 .. Len(stack) - 1 : Front(stack)[i] = stack[i]
  BY <1>1, FrontElements
<1> QED BY <1>1, <1>2

LEMMA WriteDoneStep ==
  ASSUME PagesType, PagesInv, WriteDone
  PROVE  PagesType' /\ PagesInv'
<1>1. /\ lessonOutbox # <<>> /\ lessonOutbox' = Tail(lessonOutbox) /\ lessonAlert' = lessonAlert
      /\ Head(lessonOutbox) = lessonOutbox[1] /\ VoteOK(lessonOutbox[1])
  BY TailOfVotes DEF WriteDone
<1>2. PICK p \in 1 .. Len(pages) : p = lessonOutbox[1].page
  BY <1>1 DEF VoteOK
<1>3. \/ p \in Range(stack) /\ Pop /\ UNCHANGED pages
      \/ UNCHANGED <<pages, stack, pushed>>
      \/ /\ pages' = [pages EXCEPT ![p] = getVideo(@, Tail(@.videos))]
         /\ UNCHANGED <<stack, pushed>>
  BY <1>1, <1>2 DEF WriteDone
<1>4. CASE p \in Range(stack) /\ Pop /\ UNCHANGED pages
  <2>1. stack # <<>>
    BY <1>4 DEF Range
  <2> QED BY <1>1, <1>4, <2>1, PopTypes, VoteGone
<1>5. CASE UNCHANGED <<pages, stack, pushed>>
  BY <1>1, <1>5, VoteGone DEF PagesType
<1>6. CASE /\ pages' = [pages EXCEPT ![p] = getVideo(@, Tail(@.videos))]
           /\ UNCHANGED <<stack, pushed>>
  <2>1. /\ pages[p] \in Fields /\ ~pages[p].enabled /\ pages[p].title # NoRef
        /\ pages[p].videos # <<>>
    BY <1>1, <1>2 DEF VoteOK, PagesType
  <2>2. pages[p].videos \in Seq(I!Videos)
    BY <2>1 DEF Fields
  <2>3. Tail(pages[p].videos) \in Seq(I!Videos)
    BY <2>1, <2>2
  <2>4. PICK q \in Fields : q = getVideo(pages[p], Tail(pages[p].videos)) /\ PageOK(q)
    BY <2>1, <2>3, ListedPage
  <2>5. pages' = [pages EXCEPT ![p] = q]
    BY <1>6, <2>4
  <2>6. /\ pages' \in Seq(Fields) /\ Len(pages') = Len(pages) /\ pages'[p] = q
        /\ \A n \in 1 .. Len(pages) : n # p => pages'[n] = pages[n]
    BY <2>5 DEF PagesType
  <2>7. PagesType'
    BY <1>1, <1>6, <2>6, TailOfVotes DEF PagesType
  <2>8. \A k \in 1 .. Len(lessonOutbox') : VoteOK(lessonOutbox[k])'
    <3> TAKE k \in 1 .. Len(lessonOutbox')
    <3>1. /\ lessonOutbox'[k] = lessonOutbox[k + 1] /\ VoteOK(lessonOutbox[k + 1])
          /\ lessonOutbox'[k].page # p
      BY <1>1, <1>2, TailOfVotes
    <3> QED BY <2>6, <3>1 DEF VoteOK
  <2>9. lessonAlert # 0 => pages'[lessonAlert].enabled
    <3> HAVE lessonAlert # 0
    <3>1. lessonAlert \in 1 .. Len(pages) /\ pages[lessonAlert].enabled
      BY DEF PagesType, PagesInv
    <3> QED BY <2>1, <2>6, <3>1
  <2>10. PagesInv'
    BY <1>1, <2>4, <2>6, <2>8, <2>9, TailOfVotes DEF PagesInv
  <2> QED BY <2>7, <2>10
<1> QED BY <1>3, <1>4, <1>5, <1>6

\* The ITS menu is loaded or the ITS votes.
LEMMA DisturbedPages ==
  ASSUME PagesType, pages' = Disturbed
  PROVE  /\ pages' \in Seq(Fields) /\ Len(pages') = Len(pages)
         /\ \A n \in 1 .. Len(pages) :
              /\ pages'[n].enabled = pages[n].enabled /\ pages'[n].title = pages[n].title
              /\ pages'[n].videos = pages[n].videos /\ pages'[n].fetching = pages[n].fetching
              /\ pages'[n].calm = FALSE
<1>1. pages \in Seq(Fields) /\ Len(pages) \in Nat /\ DOMAIN pages = 1 .. Len(pages)
  BY DEF PagesType
<1>2. \A n \in 1 .. Len(pages) : pages[n] \in Fields
  BY <1>1
<1>3. \A n \in 1 .. Len(pages) : pages'[n] = [pages[n] EXCEPT !.calm = FALSE]
  BY <1>1 DEF Disturbed
<1>4. \A n \in 1 .. Len(pages) :
        /\ pages'[n] \in Fields
        /\ pages'[n].enabled = pages[n].enabled /\ pages'[n].title = pages[n].title
        /\ pages'[n].videos = pages[n].videos /\ pages'[n].fetching = pages[n].fetching
        /\ pages'[n].calm = FALSE
  <2> TAKE n \in 1 .. Len(pages)
  <2>1. PICK m \in Fields : m = pages[n] /\ pages'[n] = [m EXCEPT !.calm = FALSE]
    BY <1>2, <1>3
  <2> QED BY <2>1, DisturbedPage
<1>5. pages' \in [1 .. Len(pages) -> Fields]
  BY <1>1, <1>4 DEF Disturbed
<1>6. pages' \in Seq(Fields) /\ Len(pages') = Len(pages)
  BY <1>1, <1>5
<1> QED BY <1>4, <1>6

LEMMA DisturbedStep ==
  ASSUME PagesType, PagesInv, pages' = Disturbed,
         UNCHANGED <<stack, pushed, lessonAlert, lessonOutbox>>
  PROVE  PagesType' /\ PagesInv'
<1>1. /\ pages' \in Seq(Fields) /\ Len(pages') = Len(pages)
      /\ \A n \in 1 .. Len(pages) :
           /\ pages'[n].enabled = pages[n].enabled /\ pages'[n].title = pages[n].title
           /\ pages'[n].videos = pages[n].videos /\ pages'[n].fetching = pages[n].fetching
           /\ pages'[n].calm = FALSE
  BY DisturbedPages
<1>2. PagesType'
  BY <1>1 DEF PagesType
<1>3. \A n \in 1 .. Len(pages') : PageOK(pages'[n])
  <2> TAKE n \in 1 .. Len(pages')
  <2>1. PageOK(pages[n])
    BY <1>1 DEF PagesInv
  <2> QED BY <1>1, <2>1 DEF PageOK
<1>4. \A k \in 1 .. Len(lessonOutbox) : VoteOK(lessonOutbox[k])'
  <2> TAKE k \in 1 .. Len(lessonOutbox)
  <2>1. VoteOK(lessonOutbox[k])
    BY DEF PagesInv
  <2> QED BY <1>1, <2>1 DEF VoteOK
<1>5. lessonAlert # 0 => pages'[lessonAlert].enabled
  <2> HAVE lessonAlert # 0
  <2>1. lessonAlert \in 1 .. Len(pages) /\ pages[lessonAlert].enabled
    BY DEF PagesType, PagesInv
  <2> QED BY <1>1, <2>1
<1>6. PagesInv'
  BY <1>1, <1>3, <1>4, <1>5 DEF PagesInv
<1> QED BY <1>2, <1>6

\* The catalog pushes a new page.
LEMMA PushedPage ==
  ASSUME PagesType, pages' = Append(pages, Fresh), stack' = Append(stack, Len(pages) + 1),
         pushed' = pushed + 1
  PROVE  /\ pages' \in Seq(Fields) /\ Len(pages') = Len(pages) + 1 /\ Len(pages) \in Nat
         /\ \A n \in 1 .. Len(pages) : pages'[n] = pages[n]
         /\ pages'[Len(pages) + 1] = Fresh
         /\ stack' \in Seq(1 .. Len(pages')) /\ pushed' = Len(stack')
         /\ Len(stack') = Len(stack) + 1 /\ Len(stack) \in Nat
         /\ \A k \in 1 .. Len(stack) : stack'[k] = stack[k]
         /\ stack'[Len(stack) + 1] = Len(pages) + 1
<1>1. pages \in Seq(Fields) /\ Len(pages) \in Nat
  BY DEF PagesType
<1>2. /\ pages' \in Seq(Fields) /\ Len(pages') = Len(pages) + 1
      /\ \A n \in 1 .. Len(pages) : pages'[n] = pages[n]
      /\ pages'[Len(pages) + 1] = Fresh
  BY <1>1, FreshPage
<1>3. stack \in Seq(1 .. Len(pages)) /\ pushed = Len(stack) /\ Len(stack) \in Nat
  BY DEF PagesType
<1>4. 1 .. Len(pages) \subseteq 1 .. Len(pages') /\ Len(pages) + 1 \in 1 .. Len(pages')
  BY <1>1, <1>2
<1>5. stack \in Seq(1 .. Len(pages'))
  BY <1>3, <1>4, SeqMonotonic
<1>6. PICK S : S = 1 .. Len(pages')
  OBVIOUS
<1>7. stack \in Seq(S) /\ Len(pages) + 1 \in S
  BY <1>4, <1>5, <1>6
<1>8. /\ stack' \in Seq(S) /\ Len(stack') = Len(stack) + 1
      /\ \A k \in 1 .. Len(stack) : stack'[k] = stack[k]
      /\ stack'[Len(stack) + 1] = Len(pages) + 1
  BY <1>7, AppendProperties
<1> QED BY <1>1, <1>2, <1>3, <1>6, <1>8

LEMMA PushStep ==
  ASSUME PagesType, PagesInv, Len(pages) < MaxPages, pages' = Append(pages, Fresh),
         stack' = Append(stack, Len(pages) + 1), pushed' = pushed + 1,
         UNCHANGED <<lessonAlert, lessonOutbox>>
  PROVE  PagesType' /\ PagesInv'
<1>1. /\ pages' \in Seq(Fields) /\ Len(pages') = Len(pages) + 1 /\ Len(pages) \in Nat
      /\ \A n \in 1 .. Len(pages) : pages'[n] = pages[n]
      /\ pages'[Len(pages) + 1] = Fresh
      /\ stack' \in Seq(1 .. Len(pages')) /\ pushed' = Len(stack')
  BY PushedPage
<1>2. \A n \in 1 .. Len(pages') : n \in 1 .. Len(pages) \/ n = Len(pages) + 1
  BY <1>1
<1>3. Len(pages') <= MaxPages /\ 0 .. Len(pages) \subseteq 0 .. Len(pages')
  BY <1>1, AppAssumption
<1>4. PagesType'
  BY <1>1, <1>3 DEF PagesType
<1>5. \A n \in 1 .. Len(pages') : PageOK(pages'[n])
  BY <1>1, <1>2, FreshPage DEF PagesInv
<1>6. \A k \in 1 .. Len(lessonOutbox) : VoteOK(lessonOutbox[k])'
  <2> TAKE k \in 1 .. Len(lessonOutbox)
  <2>1. VoteOK(lessonOutbox[k])
    BY DEF PagesInv
  <2> QED BY <1>1, <2>1 DEF VoteOK
<1>7. lessonAlert # 0 => pages'[lessonAlert].enabled
  <2> HAVE lessonAlert # 0
  <2>1. lessonAlert \in 1 .. Len(pages) /\ pages[lessonAlert].enabled
    BY DEF PagesType, PagesInv
  <2> QED BY <1>1, <2>1
<1>8. PagesInv'
  BY <1>1, <1>5, <1>6, <1>7 DEF PagesInv
<1> QED BY <1>4, <1>8

LEMMA KeptStep ==
  ASSUME PagesType, PagesInv, UNCHANGED pageVars
  PROVE  PagesType' /\ PagesInv'
BY DEF pageVars, PagesType, PagesInv, VoteOK

\* The page on the screen.
LEMMA TopPage ==
  ASSUME PagesType, stack # <<>>
  PROVE  Last(stack) \in 1 .. Len(pages) /\ Last(stack) = stack[Len(stack)]
         /\ Len(stack) \in Nat \ {0}
<1>1. stack \in Seq(1 .. Len(pages)) /\ Len(stack) \in Nat \ {0}
  BY DEF PagesType
<1>2. stack[Len(stack)] \in 1 .. Len(pages)
  BY <1>1
<1> QED BY <1>1, <1>2 DEF Last

LEMMA PagesInit == Init => PagesType /\ PagesInv
<1> SUFFICES ASSUME Init PROVE PagesType /\ PagesInv
  OBVIOUS
<1>1. pages = <<>> /\ stack = <<>> /\ lessonAlert = 0 /\ lessonOutbox = <<>> /\ pushed = 0
  BY DEF Init, C!Init
<1>2. PagesType
  BY <1>1, AppAssumption DEF PagesType
<1>3. PagesInv
  BY <1>1 DEF PagesInv
<1> QED BY <1>2, <1>3

LEMMA LoadPageStep ==
  ASSUME PagesType, PagesInv, GlobalsOK, viewDidLoad
  PROVE  PagesType' /\ PagesInv'
<1>1. PICK p \in 1 .. Len(pages) : p = Last(stack)
  BY TopPage DEF viewDidLoad
<1>2. PICK c \in BOOLEAN : c = (queries = {} /\ outbox = <<>>)
  OBVIOUS
<1>3. /\ pages[p].title = NoRef /\ UNCHANGED <<stack, pushed, lessonAlert, lessonOutbox>>
      /\ pages' = [pages EXCEPT ![p] = WithTitle(pages[p], lessonRef, c)]
  BY <1>1, <1>2 DEF viewDidLoad, WithTitle
<1>4. pages[p] \in Fields /\ PageOK(pages[p])
  BY DEF PagesType, PagesInv
<1>5. lessonRef # NoRef
  BY AppAssumption DEF GlobalsOK, I!Refs, NoRef, I!ITSConstants
<1>6. PICK q \in Fields : /\ q = WithTitle(pages[p], lessonRef, c)
                          /\ q.title = lessonRef /\ q.enabled = pages[p].enabled
  BY <1>4, LoadedPage DEF GlobalsOK
<1>7. PageOK(q)
  BY <1>3, <1>4, <1>5, <1>6 DEF PageOK
<1> QED BY <1>3, <1>6, <1>7, OnePageStep

LEMMA GetVideosStep ==
  ASSUME PagesType, PagesInv, NEW p \in DOMAIN pages, GetVideosDone(p) \/ GetVideosFailed(p)
  PROVE  PagesType' /\ PagesInv'
<1>1. /\ p \in 1 .. Len(pages) /\ pages[p] \in Fields /\ PageOK(pages[p])
      /\ pages[p].fetching /\ UNCHANGED <<stack, pushed, lessonAlert, lessonOutbox>>
  BY DEF PagesType, PagesInv, GetVideosDone, GetVideosFailed
<1>2. pages[p].title # NoRef /\ ~pages[p].enabled
  BY <1>1 DEF PageOK
<1>3. CASE GetVideosDone(p)
  <2>1. PICK s \in {<<>>} \union I!VideoLists(pages[p].title) :
           pages' = [pages EXCEPT ![p] = getVideo(@, s)]
    BY <1>3 DEF GetVideosDone
  <2>2. s \in Seq(I!Videos)
    BY VideosOfAnswer
  <2>3. PICK q \in Fields : q = getVideo(pages[p], s) /\ PageOK(q)
    BY <1>1, <1>2, <2>2, ListedPage
  <2>4. pages' = [pages EXCEPT ![p] = q]
    BY <2>1, <2>3
  <2> QED BY <1>1, <2>3, <2>4, OnePageStep
<1>4. CASE GetVideosFailed(p)
  <2>1. PICK q \in Fields : /\ q = [pages[p] EXCEPT !.fetching = FALSE]
                            /\ q.title = pages[p].title /\ q.enabled = pages[p].enabled
    BY <1>1, FailedPage
  <2>2. pages' = [pages EXCEPT ![p] = q]
    BY <1>4, <2>1 DEF GetVideosFailed
  <2>3. PageOK(q)
    BY <1>2, <2>1 DEF PageOK
  <2> QED BY <1>1, <2>2, <2>3, OnePageStep
<1> QED BY <1>3, <1>4

LEMMA ButtonStep ==
  ASSUME PagesType, PagesInv, GlobalsOK, NEW p \in DOMAIN pages, NEW f \in I!Fields,
         OnButton(p, f)
  PROVE  PagesType' /\ PagesInv'
<1>1. /\ p \in 1 .. Len(pages) /\ pages[p].enabled /\ Vote(p, f) /\ lessonAlert' = 0
      /\ UNCHANGED <<stack, pushed>>
  BY DEF PagesType, OnButton, OnScreen
<1> QED BY <1>1, PageVotes

LEMMA AlertStep ==
  ASSUME PagesType, PagesInv, GlobalsOK,
         \/ \E p \in DOMAIN pages : onIrrelevanceButton(p)
         \/ AlertYes \/ AlertNo
  PROVE  PagesType' /\ PagesInv'
<1>1. ASSUME NEW p \in DOMAIN pages, onIrrelevanceButton(p) PROVE PagesType' /\ PagesInv'
  <2>1. /\ p \in 1 .. Len(pages) /\ pages[p].enabled /\ lessonAlert' = p /\ Len(pages) \in Nat
        /\ UNCHANGED <<pages, stack, pushed, lessonOutbox>>
    BY <1>1 DEF PagesType, onIrrelevanceButton
  <2>2. lessonAlert' \in 0 .. Len(pages)
    BY <2>1
  <2> QED BY <2>1, <2>2 DEF PagesType, PagesInv, VoteOK
<1>2. CASE AlertNo
  <2>1. lessonAlert' = 0 /\ UNCHANGED <<pages, stack, pushed, lessonOutbox>> /\ Len(pages) \in Nat
    BY <1>2 DEF AlertNo, PagesType
  <2>2. lessonAlert' \in 0 .. Len(pages)
    BY <2>1
  <2> QED BY <2>1, <2>2 DEF PagesType, PagesInv, VoteOK
<1>3. CASE AlertYes
  <2>1. PICK p \in 1 .. Len(pages) : p = lessonAlert
    BY <1>3 DEF AlertYes, PagesType
  <2>2. pages[p].enabled /\ Vote(p, "Irrelevance") /\ lessonAlert' = 0
        /\ UNCHANGED <<stack, pushed>> /\ "Irrelevance" \in I!Fields
    BY <1>3, <2>1 DEF AlertYes, PagesInv, I!Fields
  <2> QED BY <2>2, PageVotes
<1> QED BY <1>1, <1>2, <1>3

LEMMA PagesStep ==
  ASSUME PagesType, PagesInv, GlobalsOK, [Next]_vars
  PROVE  PagesType' /\ PagesInv'
<1>1. CASE UNCHANGED pageVars
  BY <1>1, KeptStep
<1>2. CASE LoadITSMenu \/ ITSVotes
  BY <1>2, DisturbedStep DEF LoadITSMenu, ITSVotes
<1>3. CASE ITSMoves \/ ITSAnswered
  BY <1>1, <1>3 DEF ITSMoves, ITSAnswered
<1>4. CASE LoadCatalog \/ CatalogTapped \/ CatalogFailed
  BY <1>1, <1>4 DEF LoadCatalog, CatalogTapped, CatalogFailed, C!viewDidLoad, C!didSelectRow,
                    C!onBackButton, C!QueryFailed, pageVars
<1>5. CASE CatalogAnswered
  <2>1. pushed \in Nat /\ UNCHANGED <<lessonAlert, lessonOutbox>>
    BY <1>5 DEF PagesType, CatalogAnswered
  <2>2. pushed' = pushed \/ pushed' = pushed + 1
    BY <1>5 DEF CatalogAnswered, C!QueryAnswered, C!OpenLesson
  <2>3. \/ /\ pushed' = pushed + 1 /\ Len(pages) < MaxPages
           /\ pages' = Append(pages, Fresh) /\ stack' = Append(stack, Len(pages) + 1)
        \/ UNCHANGED <<pages, stack, pushed>>
    BY <1>5, <2>1, <2>2 DEF CatalogAnswered
  <2> QED BY <1>1, <2>1, <2>3, PushStep DEF pageVars
<1>6. ASSUME NEW n \in 0 .. 3, SelectKept(n) PROVE PagesType' /\ PagesInv'
  BY <1>1, <1>6 DEF SelectKept
<1>7. CASE viewDidLoad
  BY <1>7, LoadPageStep
<1>8. ASSUME NEW p \in DOMAIN pages, GetVideosDone(p) \/ GetVideosFailed(p)
      PROVE  PagesType' /\ PagesInv'
  BY <1>8, GetVideosStep
<1>9. ASSUME NEW p \in DOMAIN pages, NEW f \in I!Fields, OnButton(p, f)
      PROVE  PagesType' /\ PagesInv'
  BY <1>9, ButtonStep
<1>10. CASE (\E p \in DOMAIN pages : onIrrelevanceButton(p)) \/ AlertYes \/ AlertNo
  BY <1>10, AlertStep
<1>11. ASSUME NEW p \in DOMAIN pages, GoBack(p) PROVE PagesType' /\ PagesInv'
  <2>1. stack # <<>> /\ Pop /\ UNCHANGED <<pages, lessonAlert, lessonOutbox>>
    BY <1>11 DEF GoBack, OnScreen
  <2>2. stack' \in Seq(1 .. Len(pages)) /\ pushed' = Len(stack')
    BY <2>1, PopTypes
  <2> QED BY <2>1, <2>2 DEF PagesType, PagesInv, VoteOK
<1>12. CASE WriteDone
  BY <1>12, WriteDoneStep
<1>13. CASE WriteFailed
  BY <1>13, VoteGone DEF WriteFailed, PagesType
<1>14. CASE UNCHANGED vars
  BY <1>1, <1>14 DEF vars
<1> QED BY <1>2, <1>3, <1>4, <1>5, <1>6, <1>7, <1>8, <1>9, <1>10, <1>11, <1>12, <1>13, <1>14 DEF Next

-----------------------------------------------------------------------------
\* The part of the invariant that is about types.
TypeInv == MenuInv /\ PathInv /\ GlobalsOK /\ FlagsOK /\ PagesType /\ PagesInv

LEMMA TypesAlways == Spec => [](TypeInv /\ P!IInv)
<1>1. P!IInv => P!TypeOK
  BY DEF P!IInv, P!Inv
<1>2. Init => TypeInv
  BY MenuInit, PathInit, GlobalsInit, FlagsInit, PagesInit DEF TypeInv
<1>3. TypeInv /\ P!TypeOK' /\ [Next]_vars => TypeInv'
  BY MenuStep, PathStep, GlobalsStep, FlagsStep, PagesStep DEF TypeInv
<1> QED BY <1>1, <1>2, <1>3, InvOfITS, PTL DEF Spec

LEMMA CatalogTyped ==
  ASSUME TypeInv
  PROVE  C!TypeOK
<1> USE DEF TypeInv
<1>1. pushed \in Nat /\ requests \in Nat
  BY DEF PagesType, PathInv
<1>2. categoryRef \in C!Paths /\ lessonRef \in C!Paths
  BY RefsArePaths DEF GlobalsOK
<1> QED BY <1>1, <1>2 DEF C!TypeOK, PathInv, FlagsOK

\* Type correctness of the app: every global, every field of a page and every
\* vote stays in its set, and the catalog's count of lessons is the depth of
\* the navigation stack.
THEOREM AppTypes == Spec => []TypeOK
<1>1. TypeInv /\ P!IInv => TypeOK
  <2> SUFFICES ASSUME TypeInv, P!IInv PROVE TypeOK
    OBVIOUS
  <2> USE DEF TypeInv
  <2>1. I!TypeOK
    BY TypesOfITS DEF P!IInv, P!Inv
  <2>2. C!TypeOK
    BY CatalogTyped
  <2> QED BY <2>1, <2>2 DEF TypeOK, MenuInv, PagesType, FlagsOK
<1> QED BY <1>1, TypesAlways, PTL

-----------------------------------------------------------------------------
(* The navigation stack of the catalog.                                    *)

\* The positions of the stack whose page waits for the answer to a vote.
Waiting == {j \in 1 .. Len(stack) :
              \E k \in 1 .. Len(lessonOutbox) : lessonOutbox[k].page = stack[j]}

\* Nothing is pushed before the first query.  While an alert is shown the stack
\* cannot become empty: only answers pop, and fewer than there are pages.
StackInv ==
  /\ requests = 0 => stack = <<>> /\ queries = {}
  /\ lessonAlert # 0 => Cardinality(Waiting) < Len(stack)

LEMMA SomeWaiting ==
  ASSUME PagesType, NEW S, S \subseteq Waiting
  PROVE  /\ IsFiniteSet(S) /\ Cardinality(S) \in Nat /\ Cardinality(Waiting) \in Nat
         /\ IsFiniteSet(Waiting) /\ Cardinality(S) <= Cardinality(Waiting)
         /\ Len(stack) \in Nat
<1>1. Len(stack) \in Nat
  BY DEF PagesType
<1>2. IsFiniteSet(1 .. Len(stack))
  BY <1>1, FS_Interval
<1>3. Waiting \subseteq 1 .. Len(stack)
  BY DEF Waiting
<1>4. IsFiniteSet(Waiting)
  BY <1>2, <1>3, FS_Subset
<1> QED BY <1>1, <1>4, FS_Subset, FS_CardinalityType

LEMMA StackInit == Init => StackInv
BY DEF Init, C!Init, StackInv

\* Pages are only pushed and votes only answered.
LEMMA AlertKept ==
  ASSUME PagesType, PagesType', StackInv, lessonAlert # 0, Len(stack') >= Len(stack),
         Waiting' \subseteq Waiting
  PROVE  Cardinality(Waiting') < Len(stack')
<1>1. /\ Cardinality(Waiting') \in Nat /\ Cardinality(Waiting) \in Nat
      /\ Cardinality(Waiting') <= Cardinality(Waiting)
  BY SomeWaiting
<1>2. Cardinality(Waiting) < Len(stack)
  BY DEF StackInv
<1>3. Len(stack) \in Nat /\ Len(stack') \in Nat
  BY DEF PagesType
<1> QED BY <1>1, <1>2, <1>3

LEMMA AlertOpened ==
  ASSUME PagesType, PagesInv, NEW p \in DOMAIN pages, onIrrelevanceButton(p)
  PROVE  Cardinality(Waiting') < Len(stack')
<1>1. /\ stack # <<>> /\ p = Last(stack) /\ pages[p].enabled
      /\ UNCHANGED <<stack, lessonOutbox>>
  BY DEF onIrrelevanceButton, OnScreen
<1>2. p = stack[Len(stack)] /\ Len(stack) \in Nat \ {0}
  BY <1>1, TopPage
<1>3. Waiting' = Waiting
  BY <1>1 DEF Waiting
<1>4. Len(stack) \notin Waiting
  BY <1>1, <1>2 DEF Waiting, PagesInv, VoteOK
<1>5. Waiting \subseteq 1 .. Len(stack) - 1
  <2> SUFFICES ASSUME NEW j \in Waiting PROVE j \in 1 .. Len(stack) - 1
    OBVIOUS
  <2>1. j \in 1 .. Len(stack)
    BY DEF Waiting
  <2>2. j # Len(stack)
    BY <1>4
  <2> QED BY <1>2, <2>1, <2>2
<1>6. IsFiniteSet(1 .. Len(stack) - 1) /\ Cardinality(1 .. Len(stack) - 1) = Len(stack) - 1
  <2>1. PICK n \in Nat : n = Len(stack) - 1
    BY <1>2
  <2>2. IsFiniteSet(1 .. n) /\ Cardinality(1 .. n) = IF 1 > n THEN 0 ELSE n - 1 + 1
    BY FS_Interval
  <2>3. (IF 1 > n THEN 0 ELSE n - 1 + 1) = n
    OBVIOUS
  <2> QED BY <2>1, <2>2, <2>3
<1>7. Cardinality(Waiting) <= Len(stack) - 1
  BY <1>5, <1>6, FS_Subset
<1>8. Cardinality(Waiting) \in Nat
  BY SomeWaiting
<1>9. Cardinality(Waiting) < Len(stack)
  BY <1>2, <1>7, <1>8
<1> QED BY <1>1, <1>3, <1>9

\* The answer to a vote removes one page, and the vote was one of a page that
\* is on the stack.
LEMMA AlertSurvivesPop ==
  ASSUME PagesType, PagesInv, StackInv, lessonAlert # 0, lessonOutbox # <<>>,
         lessonOutbox' = Tail(lessonOutbox), lessonOutbox[1].page \in Range(stack), Pop
  PROVE  Cardinality(Waiting') < Len(stack')
<1>1. PICK i \in 1 .. Len(stack) : stack[i] = lessonOutbox[1].page
  BY DEF Range, PagesType
<1>2. stack # <<>>
  BY <1>1
<1>3. /\ Len(stack') = Len(stack) - 1 /\ Len(stack) \in Nat
      /\ \A k \in 1 .. Len(stack') : stack'[k] = stack[k]
  BY <1>2, PopTypes DEF PagesType
<1>4. i \in Waiting
  BY <1>1, TailOfVotes DEF Waiting
<1>5. Waiting' \subseteq Waiting \ {i}
  <2> SUFFICES ASSUME NEW j \in Waiting' PROVE j \in Waiting /\ j # i
    OBVIOUS
  <2>1. /\ j \in 1 .. Len(stack')
        /\ \E k \in 1 .. Len(lessonOutbox') : lessonOutbox'[k].page = stack'[j]
    BY DEF Waiting
  <2>2. PICK k \in 1 .. Len(lessonOutbox') : lessonOutbox'[k].page = stack'[j]
    BY <2>1
  <2>3. j \in 1 .. Len(stack) /\ stack'[j] = stack[j]
    BY <1>3, <2>1
  <2>4. /\ k + 1 \in 1 .. Len(lessonOutbox) /\ lessonOutbox'[k] = lessonOutbox[k + 1]
        /\ lessonOutbox'[k].page # lessonOutbox[1].page
    BY TailOfVotes
  <2> QED BY <1>1, <2>2, <2>3, <2>4 DEF Waiting
<1>6. IsFiniteSet(Waiting) /\ Cardinality(Waiting) \in Nat /\ Cardinality(Waiting) < Len(stack)
  BY SomeWaiting DEF StackInv
<1>7. Cardinality(Waiting \ {i}) = Cardinality(Waiting) - 1 /\ IsFiniteSet(Waiting \ {i})
  BY <1>4, <1>6, FS_RemoveElement
<1>8. Cardinality(Waiting') <= Cardinality(Waiting \ {i}) /\ Cardinality(Waiting') \in Nat
  BY <1>5, <1>7, FS_Subset, FS_CardinalityType
<1> QED BY <1>3, <1>6, <1>7, <1>8

LEMMA AlertStays ==
  ASSUME PagesType, PagesType', PagesInv, StackInv, lessonAlert # 0, WriteDone \/ WriteFailed
  PROVE  Cardinality(Waiting') < Len(stack')
<1>1. lessonOutbox # <<>> /\ lessonOutbox' = Tail(lessonOutbox)
  BY DEF WriteDone, WriteFailed
<1>2. Head(lessonOutbox) = lessonOutbox[1]
  BY <1>1, TailOfVotes
<1>3. CASE lessonOutbox[1].page \in Range(stack) /\ Pop
  BY <1>1, <1>3, AlertSurvivesPop
<1>4. CASE UNCHANGED stack
  <2>1. Waiting' \subseteq Waiting
    <3> SUFFICES ASSUME NEW j \in Waiting' PROVE j \in Waiting
      OBVIOUS
    <3>1. /\ j \in 1 .. Len(stack)
          /\ \E k \in 1 .. Len(lessonOutbox') : lessonOutbox'[k].page = stack[j]
      BY <1>4 DEF Waiting
    <3>2. PICK k \in 1 .. Len(lessonOutbox') : lessonOutbox'[k].page = stack[j]
      BY <3>1
    <3>3. k + 1 \in 1 .. Len(lessonOutbox) /\ lessonOutbox'[k] = lessonOutbox[k + 1]
      BY <1>1, TailOfVotes
    <3> QED BY <3>1, <3>2, <3>3 DEF Waiting
  <2>2. Len(stack') >= Len(stack)
    BY <1>4 DEF PagesType
  <2> QED BY <2>1, <2>2, AlertKept
<1> QED BY <1>2, <1>3, <1>4 DEF WriteDone, WriteFailed

LEMMA AlertSurvivesPush ==
  ASSUME PagesType, PagesType', PagesInv, StackInv, lessonAlert # 0, UNCHANGED lessonOutbox,
         pages' = Append(pages, Fresh), stack' = Append(stack, Len(pages) + 1),
         pushed' = pushed + 1
  PROVE  Cardinality(Waiting') < Len(stack')
<1>1. /\ Len(stack') = Len(stack) + 1 /\ Len(stack) \in Nat /\ Len(pages) \in Nat
      /\ \A k \in 1 .. Len(stack) : stack'[k] = stack[k]
      /\ stack'[Len(stack) + 1] = Len(pages) + 1
  BY PushedPage
<1>2. Waiting' \subseteq Waiting
  <2> SUFFICES ASSUME NEW j \in Waiting' PROVE j \in Waiting
    OBVIOUS
  <2>1. /\ j \in 1 .. Len(stack')
        /\ \E k \in 1 .. Len(lessonOutbox) : lessonOutbox[k].page = stack'[j]
    BY DEF Waiting
  <2>2. PICK k \in 1 .. Len(lessonOutbox) : lessonOutbox[k].page = stack'[j]
    BY <2>1
  <2>3. lessonOutbox[k].page # Len(pages) + 1
    BY <1>1 DEF PagesInv, VoteOK
  <2>4. j \in 1 .. Len(stack)
    BY <1>1, <2>1, <2>2, <2>3
  <2> QED BY <1>1, <2>2, <2>4 DEF Waiting
<1>3. Len(stack') >= Len(stack)
  BY <1>1
<1> QED BY <1>2, <1>3, AlertKept

\* A step that neither pushes nor pops nor shows an alert.
LEMMA StackKept ==
  ASSUME StackInv, UNCHANGED <<stack, lessonOutbox>>, lessonAlert' \in {lessonAlert, 0},
         requests' = 0 => requests = 0 /\ queries' = queries
  PROVE  StackInv'
BY DEF StackInv, Waiting

LEMMA CatalogAnsweredStack ==
  ASSUME PathInv, PagesType, PagesType', PagesInv, StackInv, CatalogAnswered
  PROVE  StackInv'
<1>1. /\ UNCHANGED <<lessonAlert, lessonOutbox, requests>> /\ queries # {} /\ pushed \in Nat
  BY DEF CatalogAnswered, C!QueryAnswered, PagesType
<1>2. pushed' = pushed \/ pushed' = pushed + 1
  BY DEF CatalogAnswered, C!QueryAnswered, C!OpenLesson
<1>3. \/ /\ pushed' = pushed + 1
         /\ pages' = Append(pages, Fresh) /\ stack' = Append(stack, Len(pages) + 1)
      \/ UNCHANGED stack
  BY <1>1, <1>2 DEF CatalogAnswered
<1>4. requests' # 0
  BY <1>1 DEF StackInv
<1>5. CASE UNCHANGED stack
  BY <1>1, <1>4, <1>5, StackKept
<1>6. CASE /\ pushed' = pushed + 1
           /\ pages' = Append(pages, Fresh) /\ stack' = Append(stack, Len(pages) + 1)
  BY <1>1, <1>4, <1>6, AlertSurvivesPush DEF StackInv
<1> QED BY <1>3, <1>5, <1>6

LEMMA StackStep ==
  ASSUME PathInv, PagesType, PagesType', PagesInv, StackInv, [Next]_vars
  PROVE  StackInv'
<1>0. requests \in Nat
  BY DEF PathInv
<1>1. CASE UNCHANGED <<stack, lessonOutbox, lessonAlert, requests, queries>>
  BY <1>1, StackKept
<1>2. CASE LoadITSMenu \/ ITSVotes \/ ITSMoves \/ ITSAnswered
  BY <1>1, <1>2 DEF LoadITSMenu, ITSVotes, ITSMoves, ITSAnswered, pageVars, catalogVars
<1>3. CASE LoadCatalog \/ CatalogTapped
  <2>1. requests' = requests + 1 /\ UNCHANGED <<stack, lessonOutbox, lessonAlert>>
    BY <1>3 DEF LoadCatalog, CatalogTapped, C!viewDidLoad, C!didSelectRow, C!onBackButton,
                C!getCatalogItems
  <2>2. requests' # 0
    BY <1>0, <2>1
  <2> QED BY <2>1, <2>2, StackKept
<1>4. CASE CatalogFailed
  <2>1. UNCHANGED <<stack, lessonOutbox, lessonAlert, requests>> /\ queries # {}
    BY <1>4 DEF CatalogFailed, C!QueryFailed
  <2>2. requests' # 0
    BY <2>1 DEF StackInv
  <2> QED BY <2>1, <2>2, StackKept
<1>5. CASE CatalogAnswered
  BY <1>5, CatalogAnsweredStack
<1>6. ASSUME NEW n \in 0 .. 3, SelectKept(n) PROVE StackInv'
  BY <1>1, <1>6 DEF SelectKept, pageVars, catalogVars
<1>7. CASE viewDidLoad
  BY <1>1, <1>7 DEF viewDidLoad, others, catalogVars
<1>8. ASSUME NEW p \in DOMAIN pages, GetVideosDone(p) \/ GetVideosFailed(p) PROVE StackInv'
  BY <1>1, <1>8 DEF GetVideosDone, GetVideosFailed, others, catalogVars
<1>9. ASSUME NEW p \in DOMAIN pages, NEW f \in I!Fields, OnButton(p, f) PROVE StackInv'
  BY <1>9 DEF OnButton, OnScreen, others, catalogVars, StackInv
<1>10. CASE AlertYes \/ AlertNo
  BY <1>10 DEF AlertYes, AlertNo, others, catalogVars, StackInv
<1>11. ASSUME NEW p \in DOMAIN pages, onIrrelevanceButton(p) PROVE StackInv'
  BY <1>11, AlertOpened DEF onIrrelevanceButton, others, catalogVars, StackInv
<1>12. ASSUME NEW p \in DOMAIN pages, GoBack(p) PROVE StackInv'
  <2>1. stack # <<>> /\ lessonAlert' = 0 /\ UNCHANGED <<requests, queries>>
    BY <1>12 DEF GoBack, OnScreen, others, catalogVars
  <2> QED BY <2>1 DEF StackInv
<1>13. CASE WriteDone \/ WriteFailed
  <2>1. UNCHANGED <<requests, queries, lessonAlert>>
    BY <1>13 DEF WriteDone, WriteFailed, others, catalogVars
  <2>2. stack = <<>> => stack' = <<>>
    <3> HAVE stack = <<>>
    <3>1. Range(stack) = {}
      BY DEF Range
    <3> QED BY <1>13, <3>1 DEF WriteDone, WriteFailed
  <2> QED BY <1>13, <2>1, <2>2, AlertStays DEF StackInv
<1>14. CASE UNCHANGED vars
  BY <1>1, <1>14 DEF vars, pageVars, catalogVars
<1> QED BY <1>2, <1>3, <1>4, <1>5, <1>6, <1>7, <1>8, <1>9, <1>10, <1>11, <1>12, <1>13, <1>14 DEF Next

-----------------------------------------------------------------------------
(* The lesson a page votes in.                                             *)

\* The page can be voted on, now or once it is on the top.
Shown(p) == lessonAlert = p \/ \E k \in 1 .. Len(stack) : stack[k] = p

\* Nothing that could change lessonRef is under way as long as a calm page is
\* on the stack or behind its alert.
CalmInv ==
  \A p \in 1 .. Len(pages) : pages[p].calm =>
    /\ outbox = <<>>
    /\ Shown(p) => queries = {} /\ lessonRef = pages[p].title

OwnVotes ==
  \A k \in 1 .. Len(lessonOutbox) :
    LET p == pages[lessonOutbox[k].page] IN p.calm => lessonOutbox[k].ref = p.title

\* A step that makes no page calm and shows none.
LEMMA CalmKept ==
  ASSUME CalmInv,
         \A n \in 1 .. Len(pages') : pages'[n].calm =>
           /\ n \in 1 .. Len(pages) /\ pages[n].calm /\ pages'[n].title = pages[n].title
           /\ outbox' = outbox
           /\ Shown(n)' => Shown(n) /\ queries' = queries /\ lessonRef' = lessonRef
  PROVE  CalmInv'
<1> SUFFICES ASSUME NEW n \in 1 .. Len(pages'), pages'[n].calm
             PROVE  /\ outbox' = <<>>
                    /\ Shown(n)' => queries' = {} /\ lessonRef' = pages'[n].title
  BY DEF CalmInv
<1>1. /\ n \in 1 .. Len(pages) /\ pages[n].calm /\ pages'[n].title = pages[n].title
      /\ outbox' = outbox
      /\ Shown(n)' => Shown(n) /\ queries' = queries /\ lessonRef' = lessonRef
  OBVIOUS
<1>2. outbox = <<>> /\ (Shown(n) => queries = {} /\ lessonRef = pages[n].title)
  BY <1>1 DEF CalmInv
<1> QED BY <1>1, <1>2

LEMMA OwnKept ==
  ASSUME PagesInv, OwnVotes,
         \A n \in 1 .. Len(pages) : pages'[n].calm /\ pages[n].title # NoRef =>
           pages[n].calm /\ pages'[n].title = pages[n].title,
         \A k \in 1 .. Len(lessonOutbox') :
           \E j \in 1 .. Len(lessonOutbox) : lessonOutbox'[k] = lessonOutbox[j]
  PROVE  OwnVotes'
<1> SUFFICES ASSUME NEW k \in 1 .. Len(lessonOutbox'), pages'[lessonOutbox'[k].page].calm
             PROVE  lessonOutbox'[k].ref = pages'[lessonOutbox'[k].page].title
  BY DEF OwnVotes
<1>1. PICK j \in 1 .. Len(lessonOutbox) : lessonOutbox'[k] = lessonOutbox[j]
  OBVIOUS
<1>2. PICK n \in 1 .. Len(pages) : n = lessonOutbox[j].page /\ pages[n].title # NoRef
  BY DEF PagesInv, VoteOK
<1>3. pages[n].calm /\ pages'[n].title = pages[n].title
  BY <1>1, <1>2
<1>4. pages[n].calm => lessonOutbox[j].ref = pages[n].title
  BY <1>2 DEF OwnVotes
<1> QED BY <1>1, <1>2, <1>3, <1>4

\* The pages of the ITS' votes: none is calm any more.
LEMMA NoneCalm ==
  ASSUME PagesInv, OwnVotes, UNCHANGED lessonOutbox, Len(pages') = Len(pages),
         \A n \in 1 .. Len(pages) : ~pages'[n].calm
  PROVE  CalmInv' /\ OwnVotes'
<1>1. CalmInv'
  BY DEF CalmInv
<1>2. OwnVotes'
  BY OwnKept
<1> QED BY <1>1, <1>2

LEMMA SamePages ==
  ASSUME PagesInv, CalmInv, OwnVotes, UNCHANGED <<pages, lessonOutbox, outbox>>,
         \A n \in 1 .. Len(pages) : pages[n].calm /\ Shown(n)' =>
           Shown(n) /\ queries' = queries /\ lessonRef' = lessonRef
  PROVE  CalmInv' /\ OwnVotes'
<1>1. CalmInv'
  BY CalmKept
<1>2. OwnVotes'
  BY OwnKept
<1> QED BY <1>1, <1>2

\* The student asks the catalog for something: no lesson is on the stack.
LEMMA CalmAsks ==
  ASSUME PagesType, PagesInv, StackInv, CalmInv, OwnVotes, stack = <<>>,
         UNCHANGED <<pages, stack, lessonAlert, lessonOutbox, outbox>>
  PROVE  CalmInv' /\ OwnVotes'
<1>1. lessonAlert = 0
  <2> SUFFICES ASSUME lessonAlert # 0 PROVE FALSE
    OBVIOUS
  <2>1. Cardinality(Waiting) < Len(stack) /\ Len(stack) = 0
    BY DEF StackInv
  <2>2. Cardinality(Waiting) \in Nat
    BY SomeWaiting
  <2> QED BY <2>1, <2>2
<1>2. \A n \in 1 .. Len(pages) : ~Shown(n)'
  <2> TAKE n \in 1 .. Len(pages)
  <2>1. n # 0 /\ Len(stack) = 0
    BY DEF PagesType
  <2> QED BY <1>1, <2>1 DEF Shown
<1> QED BY <1>2, SamePages

\* The catalog is answered: it was waiting, so no calm page is shown.
LEMMA CalmAnswered ==
  ASSUME PagesType, PagesInv, CalmInv, OwnVotes, queries # {},
         UNCHANGED <<lessonAlert, lessonOutbox, outbox>>,
         \/ UNCHANGED <<pages, stack>>
         \/ /\ pages' = Append(pages, Fresh) /\ stack' = Append(stack, Len(pages) + 1)
            /\ pushed' = pushed + 1
  PROVE  CalmInv' /\ OwnVotes'
<1>1. \A n \in 1 .. Len(pages) : pages[n].calm => ~Shown(n)
  BY DEF CalmInv
<1>2. CASE UNCHANGED <<pages, stack>>
  BY <1>1, <1>2, SamePages DEF Shown
<1>3. CASE /\ pages' = Append(pages, Fresh) /\ stack' = Append(stack, Len(pages) + 1)
           /\ pushed' = pushed + 1
  <2>1. /\ Len(pages') = Len(pages) + 1 /\ Len(pages) \in Nat
        /\ \A n \in 1 .. Len(pages) : pages'[n] = pages[n]
        /\ pages'[Len(pages) + 1] = Fresh
        /\ Len(stack') = Len(stack) + 1 /\ Len(stack) \in Nat
        /\ \A k \in 1 .. Len(stack) : stack'[k] = stack[k]
        /\ stack'[Len(stack) + 1] = Len(pages) + 1
    BY <1>3, PushedPage
  <2>2. ASSUME NEW n \in 1 .. Len(pages'), pages'[n].calm
        PROVE  n \in 1 .. Len(pages) /\ pages[n].calm /\ pages'[n] = pages[n]
    <3>1. n # Len(pages) + 1
      BY <2>1, <2>2, FreshPage
    <3>2. n \in 1 .. Len(pages)
      BY <2>1, <3>1
    <3> QED BY <2>1, <2>2, <3>2
  <2>3. ASSUME NEW n \in 1 .. Len(pages), Shown(n)' PROVE Shown(n)
    <3>1. CASE lessonAlert' = n
      BY <3>1 DEF Shown
    <3>2. CASE \E k \in 1 .. Len(stack') : stack'[k] = n
      <4>1. PICK k \in 1 .. Len(stack') : stack'[k] = n
        BY <3>2
      <4>2. k # Len(stack) + 1
        BY <2>1, <4>1
      <4>3. k \in 1 .. Len(stack)
        BY <2>1, <4>2
      <4> QED BY <2>1, <4>1, <4>3 DEF Shown
    <3> QED BY <2>3, <3>1, <3>2 DEF Shown
  <2>4. CalmInv'
    BY <1>1, <2>2, <2>3, CalmKept
  <2>5. OwnVotes'
    BY <2>1, OwnKept
  <2> QED BY <2>4, <2>5
<1> QED BY <1>2, <1>3

\* The view of the page on the top is loaded.
LEMMA CalmLoads ==
  ASSUME PagesType, PagesInv, GlobalsOK, CalmInv, OwnVotes, viewDidLoad
  PROVE  CalmInv' /\ OwnVotes'
<1>1. PICK p \in 1 .. Len(pages) : p = Last(stack)
  BY TopPage DEF viewDidLoad
<1>2. PICK c \in BOOLEAN : c = (queries = {} /\ outbox = <<>>)
  OBVIOUS
<1>3. /\ pages[p].title = NoRef
      /\ UNCHANGED <<stack, lessonAlert, lessonOutbox, queries, outbox, lessonRef>>
      /\ pages' = [pages EXCEPT ![p] = WithTitle(pages[p], lessonRef, c)]
  BY <1>1, <1>2 DEF viewDidLoad, WithTitle, others, globals, itsVars, catalogVars
<1>4. pages[p] \in Fields
  BY DEF PagesType
<1>5. PICK q \in Fields : /\ q = WithTitle(pages[p], lessonRef, c)
                          /\ q.title = lessonRef /\ q.calm = c
  BY <1>4, LoadedPage DEF GlobalsOK
<1>6. /\ Len(pages') = Len(pages) /\ pages'[p] = q
      /\ \A n \in 1 .. Len(pages) : n # p => pages'[n] = pages[n]
  <2>1. pages' = [pages EXCEPT ![p] = q]
    BY <1>3, <1>5
  <2> QED BY <2>1 DEF PagesType
<1>7. CalmInv'
  <2> SUFFICES ASSUME NEW n \in 1 .. Len(pages), pages'[n].calm
               PROVE  /\ outbox = <<>>
                      /\ Shown(n) => queries = {} /\ lessonRef = pages'[n].title
    BY <1>3, <1>6 DEF CalmInv, Shown
  <2>1. CASE n = p
    BY <1>2, <1>5, <1>6, <2>1
  <2>2. CASE n # p
    BY <1>6, <2>2 DEF CalmInv
  <2> QED BY <2>1, <2>2
<1>8. OwnVotes'
  <2>1. \A n \in 1 .. Len(pages) : pages'[n].calm /\ pages[n].title # NoRef =>
           pages[n].calm /\ pages'[n].title = pages[n].title
    BY <1>3, <1>6
  <2> QED BY <1>3, <2>1, OwnKept
<1> QED BY <1>7, <1>8

\* One page gets other fields, and is as calm as before.
LEMMA CalmPage ==
  ASSUME PagesType, PagesInv, CalmInv, NEW p \in 1 .. Len(pages), NEW q \in Fields,
         pages' = [pages EXCEPT ![p] = q], q.calm = pages[p].calm, q.title = pages[p].title,
         UNCHANGED <<queries, outbox, lessonRef, stack>>, lessonAlert' \in {lessonAlert, 0}
  PROVE  /\ CalmInv' /\ Len(pages') = Len(pages)
         /\ \A n \in 1 .. Len(pages) : /\ pages'[n].calm = pages[n].calm
                                       /\ pages'[n].title = pages[n].title
<1>1. /\ Len(pages') = Len(pages) /\ pages'[p] = q
      /\ \A n \in 1 .. Len(pages) : n # p => pages'[n] = pages[n]
  BY DEF PagesType
<1>2. \A n \in 1 .. Len(pages) : pages'[n].calm = pages[n].calm /\ pages'[n].title = pages[n].title
  BY <1>1
<1>3. \A n \in 1 .. Len(pages) : Shown(n)' => Shown(n)
  <2> TAKE n \in 1 .. Len(pages)
  <2>1. n # 0
    BY DEF PagesType
  <2> QED BY <2>1 DEF Shown
<1>4. CalmInv'
  BY <1>1, <1>2, <1>3, CalmKept
<1> QED BY <1>1, <1>2, <1>4

\* The page votes: if it is calm, lessonRef is still its title.
LEMMA CalmVotes ==
  ASSUME PagesType, PagesInv, CalmInv, OwnVotes, NEW p \in 1 .. Len(pages), Shown(p),
         NEW f, Vote(p, f), lessonAlert' = 0, UNCHANGED <<queries, outbox, lessonRef, stack>>
  PROVE  CalmInv' /\ OwnVotes'
<1> DEFINE w == [page |-> p, ref |-> lessonRef, id |-> Head(pages[p].videos), field |-> f]
<1>1. pages' = [pages EXCEPT ![p].enabled = FALSE] /\ lessonOutbox' = Append(lessonOutbox, w)
  BY DEF Vote
<1>2. w.page = p /\ w.ref = lessonRef
  OBVIOUS
<1> HIDE DEF w
<1>3. PICK q \in Fields : /\ q = [pages[p] EXCEPT !.enabled = FALSE]
                          /\ q.calm = pages[p].calm /\ q.title = pages[p].title
  <2>1. pages[p] \in Fields
    BY DEF PagesType
  <2> QED BY <2>1, VotedPage
<1>4. pages' = [pages EXCEPT ![p] = q]
  BY <1>1, <1>3
<1>5. /\ CalmInv' /\ Len(pages') = Len(pages)
      /\ \A n \in 1 .. Len(pages) : /\ pages'[n].calm = pages[n].calm
                                    /\ pages'[n].title = pages[n].title
  BY <1>3, <1>4, CalmPage
<1>6. lessonOutbox \in Seq(Votes) /\ Len(lessonOutbox) \in Nat
  BY DEF PagesType
<1>7. /\ Len(lessonOutbox') = Len(lessonOutbox) + 1
      /\ \A k \in 1 .. Len(lessonOutbox) : lessonOutbox'[k] = lessonOutbox[k]
      /\ lessonOutbox'[Len(lessonOutbox) + 1] = w
  BY <1>1, <1>6
<1>8. \A k \in 1 .. Len(lessonOutbox') : k \in 1 .. Len(lessonOutbox) \/ k = Len(lessonOutbox) + 1
  BY <1>6, <1>7
<1>9. pages[p].calm => lessonRef = pages[p].title
  BY DEF CalmInv
<1>10. OwnVotes'
  <2> SUFFICES ASSUME NEW k \in 1 .. Len(lessonOutbox'), pages'[lessonOutbox'[k].page].calm
               PROVE  lessonOutbox'[k].ref = pages'[lessonOutbox'[k].page].title
    BY DEF OwnVotes
  <2>1. CASE k = Len(lessonOutbox) + 1
    <3>1. lessonOutbox'[k] = w
      BY <1>7, <2>1
    <3> QED BY <1>2, <1>5, <1>9, <3>1
  <2>2. CASE k \in 1 .. Len(lessonOutbox)
    <3>1. lessonOutbox'[k] = lessonOutbox[k]
      BY <1>7, <2>2
    <3>2. PICK n \in 1 .. Len(pages) : n = lessonOutbox[k].page
      BY <2>2 DEF PagesInv, VoteOK
    <3>3. pages[n].calm => lessonOutbox[k].ref = pages[n].title
      BY <2>2, <3>2 DEF OwnVotes
    <3> QED BY <1>5, <3>1, <3>2, <3>3
  <2> QED BY <1>8, <2>1, <2>2
<1> QED BY <1>5, <1>10

LEMMA CalmFetched ==
  ASSUME PagesType, PagesInv, CalmInv, OwnVotes, NEW p \in DOMAIN pages,
         GetVideosDone(p) \/ GetVideosFailed(p)
  PROVE  CalmInv' /\ OwnVotes'
<1>1. /\ p \in 1 .. Len(pages) /\ pages[p] \in Fields /\ PageOK(pages[p]) /\ pages[p].fetching
      /\ UNCHANGED <<queries, outbox, lessonRef, stack, lessonAlert, lessonOutbox>>
  BY DEF PagesType, PagesInv, GetVideosDone, GetVideosFailed, others, globals, itsVars,
         catalogVars
<1>2. pages[p].title # NoRef /\ ~pages[p].enabled
  BY <1>1 DEF PageOK
<1>3. PICK q \in Fields : /\ q.calm = pages[p].calm /\ q.title = pages[p].title
                          /\ pages' = [pages EXCEPT ![p] = q]
  <2>1. CASE GetVideosDone(p)
    <3>1. PICK s \in {<<>>} \union I!VideoLists(pages[p].title) :
             pages' = [pages EXCEPT ![p] = getVideo(@, s)]
      BY <2>1 DEF GetVideosDone
    <3>2. s \in Seq(I!Videos)
      BY VideosOfAnswer
    <3> QED BY <1>1, <1>2, <3>1, <3>2, ListedPage
  <2>2. CASE GetVideosFailed(p)
    <3>1. pages' = [pages EXCEPT ![p] = [pages[p] EXCEPT !.fetching = FALSE]]
      BY <2>2 DEF GetVideosFailed
    <3> QED BY <1>1, <3>1, FailedPage
  <2> QED BY <2>1, <2>2
<1>4. /\ CalmInv'
      /\ \A n \in 1 .. Len(pages) : /\ pages'[n].calm = pages[n].calm
                                    /\ pages'[n].title = pages[n].title
  BY <1>1, <1>3, CalmPage
<1>5. OwnVotes'
  BY <1>1, <1>4, OwnKept
<1> QED BY <1>4, <1>5

\* The answer to a vote.
LEMMA CalmWritten ==
  ASSUME PagesType, PagesInv, CalmInv, OwnVotes, WriteDone \/ WriteFailed
  PROVE  CalmInv' /\ OwnVotes'
<1>1. /\ lessonOutbox # <<>> /\ lessonOutbox' = Tail(lessonOutbox)
      /\ UNCHANGED <<queries, outbox, lessonRef, lessonAlert>>
  BY DEF WriteDone, WriteFailed, others, globals, itsVars, catalogVars
<1>2. Head(lessonOutbox) = lessonOutbox[1] /\ VoteOK(lessonOutbox[1])
  BY <1>1, TailOfVotes
<1>3. PICK p \in 1 .. Len(pages) : p = lessonOutbox[1].page
  BY <1>2 DEF VoteOK
<1>4. \A k \in 1 .. Len(lessonOutbox') :
        \E j \in 1 .. Len(lessonOutbox) : lessonOutbox'[k] = lessonOutbox[j]
  BY <1>1, TailOfVotes
<1>5. \/ p \in Range(stack) /\ Pop /\ UNCHANGED pages
      \/ UNCHANGED <<pages, stack>>
      \/ /\ pages' = [pages EXCEPT ![p] = getVideo(@, Tail(@.videos))]
         /\ UNCHANGED stack
  BY <1>2, <1>3 DEF WriteDone, WriteFailed
<1>6. CASE UNCHANGED pages /\ ((p \in Range(stack) /\ Pop) \/ UNCHANGED stack)
  <2>1. \A n \in 1 .. Len(pages) : Shown(n)' => Shown(n)
    <3>1. CASE UNCHANGED stack
      BY <1>1, <3>1 DEF Shown
    <3>2. CASE p \in Range(stack) /\ Pop
      <4>1. stack # <<>>
        BY <3>2 DEF Range
      <4>2. /\ Len(stack') = Len(stack) - 1 /\ Len(stack) \in Nat
            /\ \A k \in 1 .. Len(stack') : stack'[k] = stack[k]
        BY <3>2, <4>1, PopTypes DEF PagesType
      <4>3. 1 .. Len(stack') \subseteq 1 .. Len(stack)
        BY <4>2
      <4> QED BY <1>1, <4>2, <4>3 DEF Shown
    <3> QED BY <1>6, <3>1, <3>2
  <2>2. CalmInv'
    BY <1>1, <1>6, <2>1, CalmKept
  <2>3. OwnVotes'
    BY <1>4, <1>6, OwnKept
  <2> QED BY <2>2, <2>3
<1>7. CASE /\ pages' = [pages EXCEPT ![p] = getVideo(@, Tail(@.videos))]
           /\ UNCHANGED stack
  <2>1. /\ pages[p] \in Fields /\ ~pages[p].enabled /\ pages[p].title # NoRef
        /\ pages[p].videos # <<>>
    BY <1>2, <1>3 DEF VoteOK, PagesType
  <2>2. pages[p].videos \in Seq(I!Videos)
    BY <2>1 DEF Fields
  <2>3. Tail(pages[p].videos) \in Seq(I!Videos)
    BY <2>1, <2>2
  <2>4. PICK q \in Fields : /\ q = getVideo(pages[p], Tail(pages[p].videos))
                            /\ q.calm = pages[p].calm /\ q.title = pages[p].title
    BY <2>1, <2>3, ListedPage
  <2>5. pages' = [pages EXCEPT ![p] = q]
    BY <1>7, <2>4
  <2>6. /\ CalmInv'
        /\ \A n \in 1 .. Len(pages) : /\ pages'[n].calm = pages[n].calm
                                      /\ pages'[n].title = pages[n].title
    BY <1>1, <1>7, <2>4, <2>5, CalmPage
  <2>7. OwnVotes'
    BY <1>4, <2>6, OwnKept
  <2> QED BY <2>6, <2>7
<1> QED BY <1>5, <1>6, <1>7

\* The ITS on its own screens and in its completions: a vote of it is answered
\* only if there is one, and then no page is calm.
LEMMA CalmITS ==
  ASSUME PagesInv, CalmInv, OwnVotes, ITSMoves \/ ITSAnswered
  PROVE  CalmInv' /\ OwnVotes'
<1>1. /\ UNCHANGED <<pages, stack, lessonAlert, lessonOutbox, queries>>
      /\ \A n : Shown(n)' = Shown(n)
  BY DEF ITSMoves, ITSAnswered, pageVars, catalogVars, Shown
<1>2. UNCHANGED <<outbox, lessonRef>> \/ outbox # <<>>
  BY DEF ITSMoves, ITSAnswered, I!viewDidLoad, I!GoBack, I!onIrrelevanceButton, I!AlertNo,
         I!GetLessonsDone, I!GetVideosDone, I!GetFailed, I!WriteDone, I!WriteFailed, I!globals
<1>3. CASE UNCHANGED <<outbox, lessonRef>>
  BY <1>1, <1>3, SamePages
<1>4. CASE outbox # <<>>
  <2>1. \A n \in 1 .. Len(pages) : ~pages[n].calm
    BY <1>4 DEF CalmInv
  <2> QED BY <1>1, <2>1, NoneCalm
<1> QED BY <1>2, <1>3, <1>4

LEMMA CalmStep ==
  ASSUME TypeInv, StackInv, CalmInv, OwnVotes, [Next]_vars
  PROVE  CalmInv' /\ OwnVotes'
<1> USE DEF TypeInv
<1>1. CASE UNCHANGED <<pages, stack, lessonAlert, lessonOutbox, outbox, queries, lessonRef>>
  BY <1>1, SamePages DEF Shown
<1>2. CASE LoadITSMenu \/ ITSVotes
  BY <1>2, DisturbedPages, NoneCalm DEF LoadITSMenu, ITSVotes
<1>3. CASE ITSMoves \/ ITSAnswered
  BY <1>3, CalmITS
<1>4. CASE LoadCatalog \/ CatalogTapped
  <2>1. UNCHANGED <<pages, stack, lessonAlert, lessonOutbox, outbox>>
    BY <1>4 DEF LoadCatalog, CatalogTapped, itsVars
  <2>2. requests = 0 \/ pushed = 0
    BY <1>4 DEF LoadCatalog, CatalogTapped, C!viewDidLoad, C!didSelectRow, C!onBackButton,
                C!Usable
  <2>3. stack = <<>>
    BY <2>2 DEF StackInv, PagesType
  <2> QED BY <2>1, <2>3, CalmAsks
<1>5. CASE CatalogAnswered \/ CatalogFailed
  <2>1. UNCHANGED <<lessonAlert, lessonOutbox, outbox>> /\ queries # {} /\ pushed \in Nat
    BY <1>5 DEF CatalogAnswered, CatalogFailed, itsVars, PagesType
  <2>2. CatalogAnswered => pushed' = pushed \/ pushed' = pushed + 1
    BY DEF CatalogAnswered, C!QueryAnswered, C!OpenLesson
  <2>3. \/ UNCHANGED <<pages, stack>>
        \/ /\ pages' = Append(pages, Fresh) /\ stack' = Append(stack, Len(pages) + 1)
           /\ pushed' = pushed + 1
    BY <1>5, <2>1, <2>2 DEF CatalogAnswered, CatalogFailed
  <2> QED BY <2>1, <2>3, CalmAnswered
<1>6. ASSUME NEW n \in 0 .. 3, SelectKept(n) PROVE CalmInv' /\ OwnVotes'
  BY <1>1, <1>6 DEF SelectKept, pageVars, itsVars, catalogVars, globals
<1>7. CASE viewDidLoad
  BY <1>7, CalmLoads
<1>8. ASSUME NEW p \in DOMAIN pages, GetVideosDone(p) \/ GetVideosFailed(p)
      PROVE  CalmInv' /\ OwnVotes'
  BY <1>8, CalmFetched
<1>9. ASSUME NEW p \in DOMAIN pages, NEW f \in I!Fields, OnButton(p, f)
      PROVE  CalmInv' /\ OwnVotes'
  <2>1. /\ Vote(p, f) /\ lessonAlert' = 0 /\ UNCHANGED <<queries, outbox, lessonRef, stack>>
        /\ stack # <<>> /\ p = Last(stack)
    BY <1>9 DEF OnButton, OnScreen, others, globals, itsVars, catalogVars
  <2>2. p \in 1 .. Len(pages) /\ Shown(p)
    BY <2>1, TopPage DEF Shown
  <2> QED BY <2>1, <2>2, CalmVotes
<1>10. ASSUME NEW p \in DOMAIN pages, onIrrelevanceButton(p) PROVE CalmInv' /\ OwnVotes'
  <2>1. /\ lessonAlert' = p /\ stack # <<>> /\ p = Last(stack)
        /\ UNCHANGED <<pages, stack, lessonOutbox, outbox, queries, lessonRef>>
    BY <1>10 DEF onIrrelevanceButton, OnScreen, others, globals, itsVars, catalogVars
  <2>2. Shown(p)
    BY <2>1, TopPage DEF Shown
  <2>3. \A n \in 1 .. Len(pages) : Shown(n)' => Shown(n)
    BY <2>1, <2>2 DEF Shown
  <2> QED BY <2>1, <2>3, SamePages
<1>11. CASE AlertYes
  <2>1. /\ Vote(lessonAlert, "Irrelevance") /\ lessonAlert' = 0
        /\ UNCHANGED <<queries, outbox, lessonRef, stack>>
    BY <1>11 DEF AlertYes, others, globals, itsVars, catalogVars
  <2>2. lessonAlert \in 1 .. Len(pages) /\ Shown(lessonAlert)
    BY <1>11 DEF AlertYes, PagesType, Shown
  <2> QED BY <2>1, <2>2, CalmVotes
<1>12. CASE AlertNo
  <2>1. /\ lessonAlert' = 0
        /\ UNCHANGED <<pages, stack, lessonOutbox, outbox, queries, lessonRef>>
    BY <1>12 DEF AlertNo, others, globals, itsVars, catalogVars
  <2>2. \A n \in 1 .. Len(pages) : Shown(n)' => Shown(n)
    <3> TAKE n \in 1 .. Len(pages)
    <3>1. n # 0
      BY DEF PagesType
    <3> QED BY <2>1, <3>1 DEF Shown
  <2> QED BY <2>1, <2>2, SamePages
<1>13. ASSUME NEW p \in DOMAIN pages, GoBack(p) PROVE CalmInv' /\ OwnVotes'
  <2>1. /\ stack # <<>> /\ Pop
        /\ UNCHANGED <<pages, lessonAlert, lessonOutbox, outbox, queries, lessonRef>>
    BY <1>13 DEF GoBack, OnScreen, others, globals, itsVars, catalogVars
  <2>2. /\ Len(stack') = Len(stack) - 1 /\ Len(stack) \in Nat
        /\ \A k \in 1 .. Len(stack') : stack'[k] = stack[k]
    BY <2>1, PopTypes DEF PagesType
  <2>3. 1 .. Len(stack') \subseteq 1 .. Len(stack)
    BY <2>2
  <2>4. \A n \in 1 .. Len(pages) : Shown(n)' => Shown(n)
    BY <2>1, <2>2, <2>3 DEF Shown
  <2> QED BY <2>1, <2>4, SamePages
<1>14. CASE WriteDone \/ WriteFailed
  BY <1>14, CalmWritten
<1>15. CASE UNCHANGED vars
  BY <1>1, <1>15 DEF vars, pageVars, itsVars, catalogVars, globals
<1> QED BY <1>2, <1>3, <1>4, <1>5, <1>6, <1>7, <1>8, <1>9, <1>10, <1>11, <1>12, <1>13, <1>14, <1>15
        DEF Next

LEMMA CalmAlways == Spec => [](StackInv /\ CalmInv /\ OwnVotes)
<1>1. Init => StackInv /\ CalmInv /\ OwnVotes
  <2> SUFFICES ASSUME Init PROVE StackInv /\ CalmInv /\ OwnVotes
    OBVIOUS
  <2>1. pages = <<>> /\ lessonOutbox = <<>>
    BY DEF Init
  <2>2. CalmInv /\ OwnVotes
    BY <2>1 DEF CalmInv, OwnVotes
  <2> QED BY <2>2, StackInit
<1>2. TypeInv /\ TypeInv' /\ StackInv /\ CalmInv /\ OwnVotes /\ [Next]_vars
        => (StackInv /\ CalmInv /\ OwnVotes)'
  BY StackStep, CalmStep DEF TypeInv
<1> QED BY <1>1, <1>2, TypesAlways, PTL DEF Spec

\* A page opened from the catalog votes in the lesson of its title, whatever
\* screens the student has been on, unless the ITS menu was loaded or a vote of
\* the ITS or a tap of the catalog was under way: lessonRef, which
\* seeOtherVideo and onComprehensionButton read again, is still its own.
THEOREM LessonVotesCorrect == Spec => []LessonVotesOwn
<1>1. TypeInv /\ OwnVotes => LessonVotesOwn
  <2> SUFFICES ASSUME TypeInv, OwnVotes PROVE LessonVotesOwn
    OBVIOUS
  <2>1. DOMAIN lessonOutbox = 1 .. Len(lessonOutbox)
    BY DEF TypeInv, PagesType
  <2> QED BY <2>1 DEF LessonVotesOwn, OwnVotes
<1> QED BY <1>1, TypesAlways, CalmAlways, PTL

-----------------------------------------------------------------------------
(* The catalog in the app is the one the theorems are about.               *)

LEMMA SameCatalog ==
  /\ C!viewDidLoad => Q!viewDidLoad
  /\ \A n : C!didSelectRow(n) => Q!didSelectRow(n)
  /\ C!onBackButton => Q!onBackButton
  /\ \A q : C!QueryAnswered(q) => Q!QueryAnswered(q)
  /\ \A q : C!QueryFailed(q) => Q!QueryFailed(q)
  /\ C!Names = Q!Names
  /\ C!TypeOK => Q!TypeOK
<1>1. C!viewDidLoad => Q!viewDidLoad
  BY DEF C!viewDidLoad, Q!viewDidLoad, C!getCatalogItems, Q!getCatalogItems
<1>2. C!Usable => Q!Usable
  BY DEF C!Usable, Q!Usable, C!Cardinality, Q!Cardinality
<1>3. \A n : C!didSelectRow(n) => Q!didSelectRow(n)
  BY <1>2 DEF C!didSelectRow, Q!didSelectRow, C!getCatalogItems, Q!getCatalogItems
<1>4. C!onBackButton => Q!onBackButton
  BY <1>2, SameHelpers DEF C!onBackButton, Q!onBackButton, C!getCatalogItems, Q!getCatalogItems
<1>5. \A p : C!Content(p) = Q!Content(p)
  <2> TAKE p
  <2> QED BY SameHelpers DEF C!Content, Q!Content
<1>6. \A q : C!QueryAnswered(q) => Q!QueryAnswered(q)
  BY <1>5, SameHelpers DEF C!QueryAnswered, Q!QueryAnswered, C!HasVideos, Q!HasVideos,
                           C!OpenLesson, Q!OpenLesson
<1>7. \A q : C!QueryFailed(q) => Q!QueryFailed(q)
  BY DEF C!QueryFailed, Q!QueryFailed
<1>8. C!Names = Q!Names
  BY SameHelpers DEF C!Names, Q!Names
<1>9. C!Paths = Q!Paths
  BY <1>8 DEF C!Paths, Q!Paths
<1>10. C!Queries = Q!Queries
  BY <1>9 DEF C!Queries, Q!Queries
<1>11. C!TypeOK => Q!TypeOK
  BY <1>8, <1>9, <1>10 DEF C!TypeOK, Q!TypeOK
<1> QED BY <1>1, <1>3, <1>4, <1>6, <1>7, <1>8, <1>11

LEMMA PatientInit == Init => Q!PatientInv
<1> SUFFICES ASSUME Init PROVE Q!PatientInv
  OBVIOUS
<1>1. /\ ref = <<>> /\ catalogItems = {} /\ queries = {} /\ requests = 0 /\ pushed = 0
      /\ Len(ref) = 0 /\ LessonDepth \in Nat
  BY AppAssumption DEF Init, C!Init
<1>2. Q!PlaceInv /\ Q!RowsInv
  BY <1>1 DEF Q!PlaceInv, Q!RowsInv
<1> QED BY <1>2 DEF Q!PatientInv

LEMMA PatientStep ==
  ASSUME C!TypeOK, PagesType, Q!PatientInv, [Next]_vars
  PROVE  Q!PatientInv'
<1>1. ASSUME Q!Next PROVE Q!PatientInv'
  BY <1>1, SameCatalog, CatalogTheorems, Q!PatientStep
<1>2. CASE UNCHANGED <<catalogVars, pushed>>
  BY <1>2 DEF catalogVars, Q!PatientInv, Q!PlaceInv, Q!RowsInv, Q!Content
<1>3. CASE LoadCatalog \/ CatalogTapped
  BY <1>1, <1>3, SameCatalog DEF LoadCatalog, CatalogTapped, Q!Next
<1>4. CASE CatalogAnswered \/ CatalogFailed
  BY <1>1, <1>4, SameCatalog DEF CatalogAnswered, CatalogFailed, Q!Next
<1>5. ASSUME Pop, stack # <<>>, UNCHANGED others, UNCHANGED lessonErrors, ~trapped
      PROVE  Q!PatientInv'
  <2>1. pushed > 0 /\ pushed' = pushed - 1
    BY <1>5, PopTypes DEF Pop
  <2>2. Q!PopLesson
    BY <1>5, <2>1 DEF Q!PopLesson, others, catalogVars, globals
  <2> QED BY <1>1, <2>2 DEF Q!Next
<1>6. ASSUME NEW p \in DOMAIN pages, GoBack(p) PROVE Q!PatientInv'
  BY <1>5, <1>6 DEF GoBack, OnScreen, Alive
<1>7. CASE WriteDone
  <2>1. /\ UNCHANGED others /\ UNCHANGED lessonErrors /\ ~trapped
        /\ UNCHANGED pushed \/ (Pop /\ Range(stack) # {})
    BY <1>7 DEF WriteDone, Alive
  <2>2. Range(stack) # {} => stack # <<>>
    BY DEF Range
  <2> QED BY <1>2, <1>5, <2>1, <2>2 DEF others
<1>8. ASSUME NEW n \in 0 .. 3, SelectKept(n) PROVE Q!PatientInv'
  BY <1>2, <1>8 DEF SelectKept, pageVars
<1>9. CASE LoadITSMenu \/ ITSMoves \/ ITSVotes \/ ITSAnswered
  BY <1>2, <1>9 DEF LoadITSMenu, ITSMoves, ITSVotes, ITSAnswered, pageVars
<1>10. CASE viewDidLoad \/ AlertYes \/ AlertNo \/ WriteFailed
  BY <1>2, <1>10 DEF viewDidLoad, AlertYes, AlertNo, WriteFailed, others
<1>11. ASSUME NEW p \in DOMAIN pages,
              \/ GetVideosDone(p) \/ GetVideosFailed(p) \/ (\E f \in I!Fields : OnButton(p, f))
              \/ onIrrelevanceButton(p)
       PROVE  Q!PatientInv'
  BY <1>2, <1>11 DEF GetVideosDone, GetVideosFailed, OnButton, onIrrelevanceButton, others
<1>12. CASE UNCHANGED vars
  BY <1>2, <1>12 DEF vars, pageVars
<1> QED BY <1>3, <1>4, <1>6, <1>7, <1>8, <1>9, <1>10, <1>11, <1>12 DEF Next

-----------------------------------------------------------------------------
(* The lesson and the category in the globals.                             *)

OfCategory(i) ==
  \A k \in 1 .. Len(vc[i].lessons) : CategoryOf[vc[i].lessons[k]] = categoryRef

\* The globals are a lesson and its category, and the lessons of the
\* controllers that may go on to the next one are of this category.
Agreeing ==
  /\ \E l \in Lessons : lessonRef = I!RefOf(l) /\ categoryRef = CategoryOf[l]
  /\ top # 0 => lessonQuery[top] \subseteq {categoryRef} /\ OfCategory(top)
  /\ \A k \in 1 .. Len(outbox) : OfCategory(outbox[k].vc)

AgreeInv == patient /\ ~mixed => Agreeing

LEMMA AgreeInit == Init => AgreeInv
<1> SUFFICES ASSUME Init PROVE Agreeing
  BY DEF AgreeInv
<1>1. /\ ITSLessonRef \in Lessons /\ top = 0 /\ outbox = <<>>
      /\ lessonRef = I!RefOf(ITSLessonRef) /\ categoryRef = CategoryOf[ITSLessonRef]
  BY AppAssumption DEF Init, I!Init, I!ITSConstants
<1> QED BY <1>1 DEF Agreeing

\* No controller gets another list of lessons.
LEMMA AgreeKept ==
  ASSUME Agreeing, categoryRef' = categoryRef,
         \E l \in Lessons : lessonRef' = I!RefOf(l) /\ categoryRef' = CategoryOf[l],
         top' # 0 => top' = top /\ lessonQuery'[top] \subseteq lessonQuery[top]
                     /\ vc'[top].lessons = vc[top].lessons,
         \A k \in 1 .. Len(outbox') :
           /\ vc'[outbox'[k].vc].lessons = vc[outbox'[k].vc].lessons
           /\ \/ \E j \in 1 .. Len(outbox) : outbox'[k].vc = outbox[j].vc
              \/ top # 0 /\ outbox'[k].vc = top
  PROVE  Agreeing'
<1>1. \A i : vc'[i].lessons = vc[i].lessons /\ OfCategory(i) =>
               \A k \in 1 .. Len(vc'[i].lessons) : CategoryOf[vc'[i].lessons[k]] = categoryRef'
  BY DEF OfCategory
<1>2. top' # 0 => lessonQuery'[top'] \subseteq {categoryRef'} /\ OfCategory(top)'
  BY <1>1 DEF Agreeing, OfCategory
<1>3. \A k \in 1 .. Len(outbox') : OfCategory(outbox[k].vc)'
  <2> TAKE k \in 1 .. Len(outbox')
  <2>1. OfCategory(outbox'[k].vc)
    BY DEF Agreeing
  <2> QED BY <1>1, <2>1 DEF OfCategory
<1> QED BY <1>2, <1>3 DEF Agreeing

\* What the theorems about ITS say of its controllers.
LEMMA ControllerFacts ==
  ASSUME P!Inv
  PROVE  /\ vc \in [I!Controllers -> I!ITSFields] /\ outbox \in Seq(I!Votes)
         /\ lessonQuery \in [I!Controllers -> SUBSET I!Categories]
         /\ top \in 0 .. MaxOpens /\ opens \in 0 .. MaxOpens /\ MaxOpens \in Nat
         /\ screen \in {"its", "alert"} => top \in I!Controllers
         /\ \A k \in 1 .. Len(outbox) : outbox[k].vc \in I!Controllers
                                        /\ lessonQuery[outbox[k].vc] = {}
         /\ \A i \in I!Controllers : i > opens => vc[i] = I!Fresh
<1>1. /\ vc \in [I!Controllers -> I!ITSFields] /\ outbox \in Seq(I!Votes)
      /\ lessonQuery \in [I!Controllers -> SUBSET I!Categories]
      /\ top \in 0 .. MaxOpens /\ opens \in 0 .. MaxOpens
      /\ screen \in {"its", "alert"} => top \in I!Controllers
  BY SameSets DEF P!Inv, P!TypeOK
<1>2. \A k \in 1 .. Len(outbox) : lessonQuery[outbox[k].vc] = {}
  BY DEF P!Inv, P!OutboxInv, P!VoteOK
<1>3. \A k \in 1 .. Len(outbox) : outbox[k].vc \in I!Controllers
  <2> TAKE k \in 1 .. Len(outbox)
  <2>1. outbox[k] \in I!Votes
    BY <1>1
  <2> QED BY <2>1 DEF I!Votes
<1>4. \A i \in I!Controllers : i > opens => vc[i] = I!Fresh
  BY SameSets DEF P!Inv, P!ControllerInv, P!QueriesOK, P!Fresh, I!Fresh
<1>5. MaxOpens \in Nat
  BY AppAssumption DEF I!ITSConstants
<1> QED BY <1>1, <1>2, <1>3, <1>4, <1>5

\* Controller i gets other fields but not other lessons.
LEMMA SameLessons ==
  ASSUME P!Inv, NEW i \in I!Controllers, NEW q, q.lessons = vc[i].lessons,
         vc' = [vc EXCEPT ![i] = q]
  PROVE  \A j \in I!Controllers : vc'[j].lessons = vc[j].lessons
<1>1. vc \in [I!Controllers -> I!ITSFields]
  BY ControllerFacts
<1>2. \A j \in I!Controllers : vc'[j] = IF j = i THEN q ELSE vc[j]
  BY <1>1
<1> QED BY <1>2

LEMMA LessonsOfFields ==
  ASSUME NEW m \in I!ITSFields
  PROVE  /\ [m EXCEPT !.enabled = FALSE].lessons = m.lessons
         /\ \A list : I!getVideo(m, list).lessons = m.lessons
<1>1. [m EXCEPT !.enabled = FALSE].lessons = m.lessons
  BY DEF I!ITSFields
<1>2. ASSUME NEW list PROVE I!getVideo(m, list).lessons = m.lessons
  BY DEF I!ITSFields, I!getVideo
<1> QED BY <1>1, <1>2

\* The student on the screens of the ITS.
LEMMA AgreeMoves ==
  ASSUME P!Inv, Agreeing, ITSMoves
  PROVE  Agreeing'
<1>1. CASE I!viewDidLoad
  <2>1. /\ opens < MaxOpens /\ top' = opens + 1
        /\ lessonQuery' = [lessonQuery EXCEPT ![opens + 1] = {categoryRef}]
        /\ UNCHANGED <<vc, categoryRef, lessonRef, outbox>>
    BY <1>1 DEF I!viewDidLoad, I!globals
  <2>2. /\ opens + 1 \in I!Controllers /\ opens + 1 > opens
    BY <2>1, ControllerFacts DEF I!Controllers
  <2>3. vc[opens + 1] = I!Fresh /\ lessonQuery'[opens + 1] = {categoryRef}
    BY <2>1, <2>2, ControllerFacts
  <2>4. vc[opens + 1].lessons = <<>>
    BY <2>3 DEF I!Fresh
  <2> QED BY <2>1, <2>3, <2>4 DEF Agreeing, OfCategory
<1>2. CASE I!GoBack \/ I!onIrrelevanceButton \/ I!AlertNo
  <2>1. /\ top' \in {0, top} /\ UNCHANGED <<vc, categoryRef, lessonRef, lessonQuery, outbox>>
    BY <1>2 DEF I!GoBack, I!onIrrelevanceButton, I!AlertNo, I!globals, I!queries
  <2> QED BY <2>1, AgreeKept DEF Agreeing
<1> QED BY <1>1, <1>2 DEF ITSMoves

LEMMA AgreeVotes ==
  ASSUME P!Inv, Agreeing, ITSVotes
  PROVE  Agreeing'
<1>1. /\ screen \in {"its", "alert"}
      /\ UNCHANGED <<top, categoryRef, lessonRef, lessonQuery>>
      /\ \E f : I!Vote(f)
  BY DEF ITSVotes, I!OnButton, I!AlertYes, I!globals, I!queries
<1>2. PICK f : I!Vote(f)
  BY <1>1
<1>3. PICK i \in I!Controllers : i = top
  BY <1>1, ControllerFacts
<1> DEFINE w == [vc |-> i, ref |-> lessonRef, id |-> Head(vc[i].videos).id, field |-> f]
<1>4. vc' = [vc EXCEPT ![i] = [vc[i] EXCEPT !.enabled = FALSE]] /\ outbox' = Append(outbox, w)
  BY <1>2, <1>3 DEF I!Vote
<1>5. w.vc = i
  OBVIOUS
<1> HIDE DEF w
<1>6. \A j \in I!Controllers : vc'[j].lessons = vc[j].lessons
  <2>1. vc[i] \in I!ITSFields
    BY ControllerFacts
  <2> QED BY <1>4, <2>1, LessonsOfFields, SameLessons
<1>7. outbox \in Seq(I!Votes) /\ Len(outbox) \in Nat
  BY ControllerFacts
<1>8. /\ Len(outbox') = Len(outbox) + 1 /\ outbox'[Len(outbox) + 1] = w
      /\ \A k \in 1 .. Len(outbox) : outbox'[k] = outbox[k]
  <2>1. PICK s : s = outbox'
    OBVIOUS
  <2>2. s = Append(outbox, w)
    BY <1>4, <2>1
  <2> QED BY <1>7, <2>1, <2>2
<1>9. i # 0 /\ i \in Nat
  BY DEF I!Controllers
<1>10. ASSUME NEW k \in 1 .. Len(outbox')
       PROVE  /\ vc'[outbox'[k].vc].lessons = vc[outbox'[k].vc].lessons
              /\ \/ \E j \in 1 .. Len(outbox) : outbox'[k].vc = outbox[j].vc
                 \/ top # 0 /\ outbox'[k].vc = top
  <2>1. CASE k = Len(outbox) + 1
    BY <1>3, <1>5, <1>6, <1>8, <1>9, <2>1
  <2>2. CASE k \in 1 .. Len(outbox)
    BY <1>6, <1>8, <2>2, ControllerFacts
  <2>3. k = Len(outbox) + 1 \/ k \in 1 .. Len(outbox)
    BY <1>7, <1>8
  <2> QED BY <2>1, <2>2, <2>3
<1> QED BY <1>1, <1>3, <1>6, <1>10, AgreeKept DEF Agreeing

\* The oldest vote is answered.
LEMMA OtherVoters ==
  ASSUME P!Inv, outbox # <<>>, outbox' = Tail(outbox)
  PROVE  /\ Head(outbox) = outbox[1] /\ outbox[1].vc \in I!Controllers
         /\ 1 \in 1 .. Len(outbox)
         /\ \A k \in 1 .. Len(outbox') : /\ outbox'[k].vc \in I!Controllers
                                         /\ \E j \in 1 .. Len(outbox) : outbox'[k] = outbox[j]
<1>1. /\ Head(outbox) = outbox[1]
      /\ \A k \in 1 .. Len(outbox') : k + 1 \in 1 .. Len(outbox) /\ outbox'[k] = outbox[k + 1]
  BY ITSParameters, P!TailOfOutbox
<1>2. 1 \in 1 .. Len(outbox)
  BY ControllerFacts
<1> QED BY <1>1, <1>2, ControllerFacts

\* The lessons arrive: those of categoryRef, if the controller is in use.
LEMMA AgreeLessons ==
  ASSUME P!Inv, Agreeing, NEW i \in I!Controllers, I!GetLessonsDone(i)
  PROVE  Agreeing'
<1>0. PICK c \in lessonQuery[i] : \E list \in {<<>>} \union I!LessonLists(c) :
        \/ /\ list # <<>>
           /\ I!getVideos(i, [vc[i] EXCEPT !.lessons = list, !.title = list[1]], lessonRef)
        \/ list = <<>> /\ UNCHANGED vc
  BY DEF I!GetLessonsDone
<1>1. PICK list \in {<<>>} \union I!LessonLists(c) :
        \/ /\ list # <<>>
           /\ I!getVideos(i, [vc[i] EXCEPT !.lessons = list, !.title = list[1]], lessonRef)
        \/ list = <<>> /\ UNCHANGED vc
  BY <1>0
<1>2. /\ lessonQuery' = [lessonQuery EXCEPT ![i] = {}]
      /\ UNCHANGED <<top, categoryRef, lessonRef, outbox>>
  BY DEF I!GetLessonsDone, I!None, I!globals
<1>3. lessonQuery'[i] = {} /\ \A j \in I!Controllers : j # i => lessonQuery'[j] = lessonQuery[j]
  BY <1>2, ControllerFacts
<1>4. top # 0 => top \in I!Controllers
  BY ControllerFacts DEF I!Controllers
<1>5. top # 0 => lessonQuery'[top] \subseteq lessonQuery[top]
  BY <1>3, <1>4
<1>6. CASE list = <<>>
  BY <1>1, <1>2, <1>5, <1>6, AgreeKept DEF Agreeing
<1>7. CASE list # <<>>
  <2>1. list \in I!LessonLists(c)
    BY <1>7
  <2>2. I!LessonLists(c) = P!LessonLists(c)
    <3>1. \A S : I!Cardinality(S) = P!Cardinality(S)
      BY DEF I!Cardinality, P!Cardinality
    <3> QED BY <3>1 DEF I!LessonLists, P!LessonLists
  <2>3. list \in Seq(Lessons) /\ \A k \in 1 .. Len(list) : CategoryOf[list[k]] = c
    BY <2>1, <2>2, ITSParameters, P!LessonListIsASequence
  <2> DEFINE p == [vc[i] EXCEPT !.lessons = list, !.title = list[1]]
             q == [p EXCEPT !.videos = <<>>]
  <2>4. vc' = [vc EXCEPT ![i] = q]
    BY <1>1, <1>7 DEF I!getVideos
  <2>5. q.lessons = list
    <3>1. vc[i] \in I!ITSFields
      BY ControllerFacts
    <3>2. p.lessons = list /\ DOMAIN p = {"lessons", "lessonNumber", "title", "videos", "enabled"}
      BY <3>1 DEF I!ITSFields
    <3> HIDE DEF p
    <3> QED BY <3>2
  <2> HIDE DEF p, q
  <2>6. vc'[i].lessons = list /\ \A j \in I!Controllers : j # i => vc'[j] = vc[j]
    BY <2>4, <2>5, ControllerFacts
  <2>7. \A k \in 1 .. Len(outbox) : outbox[k].vc \in I!Controllers /\ outbox[k].vc # i
    BY <1>0, ControllerFacts
  <2>8. CASE top # i
    BY <1>2, <1>4, <1>5, <2>6, <2>7, <2>8, AgreeKept DEF Agreeing
  <2>9. CASE top = i
    <3>1. top # 0
      BY <2>9 DEF I!Controllers
    <3>2. c = categoryRef
      BY <1>0, <2>9, <3>1 DEF Agreeing
    <3>3. OfCategory(top)'
      BY <1>2, <2>3, <2>6, <2>9, <3>2 DEF OfCategory
    <3>4. \A k \in 1 .. Len(outbox) : OfCategory(outbox[k].vc)'
      BY <1>2, <2>6, <2>7 DEF Agreeing, OfCategory
    <3> QED BY <1>2, <1>3, <2>9, <3>3, <3>4 DEF Agreeing, OfCategory
  <2> QED BY <2>8, <2>9
<1> QED BY <1>6, <1>7

LEMMA AgreeVideos ==
  ASSUME P!Inv, Agreeing, NEW i \in I!Controllers, I!GetVideosDone(i)
  PROVE  Agreeing'
<1>1. PICK v : vc' = [vc EXCEPT ![i] = I!getVideo(vc[i], v)]
  BY DEF I!GetVideosDone
<1>2. UNCHANGED <<top, categoryRef, lessonRef, lessonQuery, outbox>>
  BY DEF I!GetVideosDone, I!globals
<1>3. \A j \in I!Controllers : vc'[j].lessons = vc[j].lessons
  <2>1. vc[i] \in I!ITSFields
    BY ControllerFacts
  <2> QED BY <1>1, <2>1, LessonsOfFields, SameLessons
<1>4. top # 0 => top \in I!Controllers
  BY ControllerFacts DEF I!Controllers
<1> QED BY <1>2, <1>3, <1>4, ControllerFacts, AgreeKept DEF Agreeing

LEMMA AgreeFailed ==
  ASSUME P!Inv, Agreeing, NEW i \in I!Controllers, I!GetFailed(i)
  PROVE  Agreeing'
<1>1. /\ UNCHANGED <<top, categoryRef, lessonRef, vc, outbox>>
      /\ lessonQuery' = [lessonQuery EXCEPT ![i] = {}]
  BY DEF I!GetFailed, I!globals, I!None
<1>2. \A j \in I!Controllers : lessonQuery'[j] \subseteq lessonQuery[j]
  BY <1>1, ControllerFacts
<1>3. top # 0 => top \in I!Controllers
  BY ControllerFacts DEF I!Controllers
<1> QED BY <1>1, <1>2, <1>3, AgreeKept DEF Agreeing

\* nextLesson takes the next lesson of the list, which is of categoryRef.
LEMMA AgreeWritten ==
  ASSUME P!Inv, Agreeing, I!WriteDone \/ I!WriteFailed
  PROVE  Agreeing'
<1>1. outbox # <<>> /\ outbox' = Tail(outbox) /\ UNCHANGED <<top, categoryRef, lessonQuery>>
  BY DEF I!WriteDone, I!WriteFailed, I!globals, I!queries
<1>2. PICK i \in I!Controllers : i = outbox[1].vc /\ OfCategory(i)
  BY <1>1, OtherVoters DEF Agreeing
<1>3. top # 0 => top \in I!Controllers
  BY ControllerFacts DEF I!Controllers
<1>4. ASSUME \A j \in I!Controllers : vc'[j].lessons = vc[j].lessons,
             \E l \in Lessons : lessonRef' = I!RefOf(l) /\ categoryRef = CategoryOf[l]
      PROVE  Agreeing'
  <2>1. \A k \in 1 .. Len(outbox') :
          /\ vc'[outbox'[k].vc].lessons = vc[outbox'[k].vc].lessons
          /\ \E j \in 1 .. Len(outbox) : outbox'[k].vc = outbox[j].vc
    BY <1>1, <1>4, OtherVoters
  <2> QED BY <1>1, <1>3, <1>4, <2>1, AgreeKept
<1>5. vc[i] \in I!ITSFields
  BY ControllerFacts
<1>6. CASE UNCHANGED <<vc, lessonRef>>
  BY <1>4, <1>6 DEF Agreeing
<1>7. CASE vc' = [vc EXCEPT ![i] = I!getVideo(@, Tail(@.videos))] /\ UNCHANGED lessonRef
  <2>1. \A j \in I!Controllers : vc'[j].lessons = vc[j].lessons
    BY <1>5, <1>7, LessonsOfFields, SameLessons
  <2> QED BY <1>4, <1>7, <2>1 DEF Agreeing
<1>8. PICK n \in Nat : n = vc[i].lessonNumber + 1
  BY <1>5 DEF I!ITSFields
<1>9. CASE I!nextLesson(i) /\ n < Len(vc[i].lessons)
  <2>1. vc[i].lessons \in Seq(Lessons)
    BY <1>5 DEF I!ITSFields
  <2>2. PICK l \in Lessons : l = vc[i].lessons[n + 1] /\ n + 1 \in 1 .. Len(vc[i].lessons)
    BY <1>9, <2>1
  <2> DEFINE q == P!WithLesson(vc[i], n)
  <2>3. lessonRef' = Append(categoryRef, l) /\ vc' = [vc EXCEPT ![i] = q]
    <3>1. Len(vc[i].lessons) \in Nat
      BY <2>1
    <3> QED BY <1>8, <1>9, <2>2, <3>1 DEF I!nextLesson, I!getVideos, P!WithLesson
  <2>4. q.lessons = vc[i].lessons
    <3>1. vc[i] \in P!ITSFields
      BY <1>5, SameSets
    <3> QED BY <1>9, <3>1, ITSParameters, P!NextLessonFields
  <2> HIDE DEF q
  <2>5. CategoryOf[l] = categoryRef
    BY <1>2, <2>2 DEF OfCategory
  <2>6. \A j \in I!Controllers : vc'[j].lessons = vc[j].lessons
    BY <2>3, <2>4, SameLessons
  <2> QED BY <1>4, <2>3, <2>5, <2>6 DEF I!RefOf
<1>10. CASE I!nextLesson(i) /\ ~(n < Len(vc[i].lessons))
  BY <1>6, <1>8, <1>10 DEF I!nextLesson
<1>11. CASE I!WriteFailed
  BY <1>6, <1>11 DEF I!WriteFailed, I!globals
<1>12. CASE I!WriteDone
  <2>1. Head(outbox).vc = i
    BY <1>1, <1>2, OtherVoters
  <2> QED BY <1>7, <1>9, <1>10, <1>12, <2>1 DEF I!WriteDone
<1> QED BY <1>11, <1>12

LEMMA AgreeAnswered ==
  ASSUME P!Inv, Agreeing, ITSAnswered
  PROVE  Agreeing'
BY AgreeLessons, AgreeVideos, AgreeFailed, AgreeWritten DEF ITSAnswered

\* The catalog of a patient student opens a lesson and its category.
LEMMA AgreeCatalog ==
  ASSUME P!Inv, C!TypeOK, Q!PatientInv, patient, Agreeing, CatalogAnswered, ~mixed'
  PROVE  Agreeing'
<1>1. UNCHANGED <<top, vc, lessonQuery, outbox>>
  BY DEF CatalogAnswered, itsVars
<1>2. PICK q \in queries : C!QueryAnswered(q)
  BY DEF CatalogAnswered
<1>3. Q!TypeOK /\ Q!QueryAnswered(q)
  BY <1>2, SameCatalog
<1>4. \/ UNCHANGED <<categoryRef, lessonRef>>
      \/ /\ ref \in CatalogDocuments /\ Len(ref) = LessonDepth
         /\ lessonRef' = ref /\ categoryRef' = Front(ref)
  <2>1. \/ UNCHANGED <<categoryRef, lessonRef>>
        \/ /\ ref \in CatalogDocuments /\ Len(ref) = LessonDepth
           /\ lessonRef' = ref /\ categoryRef' = Q!Front(ref)
    BY <1>3, CatalogTheorems, Q!PatientOpens
  <2> QED BY <2>1, SameHelpers
<1>5. \E l \in Lessons : lessonRef' = I!RefOf(l) /\ categoryRef' = CategoryOf[l]
  BY <1>4, LessonDocument DEF Agreeing
<1>6. categoryRef' = categoryRef \/ (top = 0 /\ outbox = <<>>)
  BY DEF CatalogAnswered
<1>7. CASE categoryRef' = categoryRef
  BY <1>1, <1>5, <1>7, AgreeKept
<1>8. CASE top = 0 /\ outbox = <<>>
  BY <1>1, <1>5, <1>8 DEF Agreeing
<1> QED BY <1>6, <1>7, <1>8

LEMMA AgreeStep ==
  ASSUME MenuInv, C!TypeOK, P!Inv, Q!PatientInv, AgreeInv, [Next]_vars
  PROVE  AgreeInv'
<1> SUFFICES ASSUME patient', ~mixed' PROVE Agreeing'
  BY DEF AgreeInv
<1>1. ASSUME UNCHANGED <<globals, itsVars>>, patient, ~mixed PROVE Agreeing'
  BY <1>1, AgreeKept DEF AgreeInv, globals, itsVars, Agreeing
<1>2. CASE UNCHANGED others
  BY <1>1, <1>2 DEF others, catalogVars
<1>3. ASSUME NEW n \in 0 .. 3, SelectKept(n) PROVE Agreeing'
  BY <1>1, <1>3 DEF SelectKept, catalogVars
<1>4. CASE LoadITSMenu
  <2>1. /\ ~itsLoaded /\ categoryRef' = CategoryOf[ITSLessonRef]
        /\ lessonRef' = I!RefOf(ITSLessonRef) /\ UNCHANGED <<top, outbox>>
    BY <1>4 DEF LoadITSMenu, itsVars
  <2>2. top = 0 /\ outbox = <<>>
    BY <2>1 DEF MenuInv
  <2>3. ITSLessonRef \in Lessons
    BY AppAssumption DEF I!ITSConstants
  <2> QED BY <2>1, <2>2, <2>3 DEF Agreeing
<1>5. CASE LoadCatalog
  BY <1>1, <1>5 DEF LoadCatalog, C!viewDidLoad, globals
<1>6. CASE CatalogTapped
  <2>1. patient /\ ~mixed /\ UNCHANGED <<globals, itsVars>>
    BY <1>6 DEF CatalogTapped, C!didSelectRow, C!onBackButton, globals
  <2> QED BY <1>1, <2>1
<1>7. CASE CatalogFailed
  BY <1>7 DEF CatalogFailed, C!QueryFailed
<1>8. CASE CatalogAnswered
  <2>1. patient /\ ~mixed
    BY <1>8 DEF CatalogAnswered, C!QueryAnswered
  <2> QED BY <1>8, <2>1, AgreeCatalog DEF AgreeInv
<1>9. CASE ITSMoves \/ ITSVotes \/ ITSAnswered
  <2>1. UNCHANGED <<catalogVars, mixed>>
    BY <1>9 DEF ITSMoves, ITSVotes, ITSAnswered
  <2>2. patient /\ ~mixed
    BY <2>1 DEF catalogVars
  <2> QED BY <1>9, <2>2, AgreeMoves, AgreeVotes, AgreeAnswered DEF AgreeInv
<1>10. CASE viewDidLoad \/ AlertYes \/ AlertNo \/ WriteDone \/ WriteFailed
  BY <1>2, <1>10 DEF viewDidLoad, AlertYes, AlertNo, WriteDone, WriteFailed
<1>11. ASSUME NEW p \in DOMAIN pages,
              \/ GetVideosDone(p) \/ GetVideosFailed(p) \/ (\E f \in I!Fields : OnButton(p, f))
              \/ onIrrelevanceButton(p) \/ GoBack(p)
       PROVE  Agreeing'
  BY <1>2, <1>11 DEF GetVideosDone, GetVideosFailed, OnButton, onIrrelevanceButton, GoBack
<1>12. CASE UNCHANGED vars
  BY <1>2, <1>12 DEF vars, others
<1> QED BY <1>3, <1>4, <1>5, <1>6, <1>7, <1>8, <1>9, <1>10, <1>11, <1>12 DEF Next

\* A patient student who keeps the categories of the catalog and of the ITS
\* apart has a lesson and its category in the globals, whatever the order in
\* which getCatalogItems, nextLesson and the ITS menu's viewDidLoad set them.
THEOREM GlobalsCorrect == Spec => []GlobalsAgree
<1>1. Init => Q!PatientInv /\ AgreeInv
  BY PatientInit, AgreeInit
<1>2. TypeInv /\ P!IInv /\ Q!PatientInv /\ AgreeInv /\ [Next]_vars => (Q!PatientInv /\ AgreeInv)'
  <2> SUFFICES ASSUME TypeInv, P!IInv, Q!PatientInv, AgreeInv, [Next]_vars
               PROVE  (Q!PatientInv /\ AgreeInv)'
    OBVIOUS
  <2>1. C!TypeOK /\ MenuInv /\ PagesType /\ P!Inv
    BY CatalogTyped DEF TypeInv, P!IInv
  <2> QED BY <2>1, PatientStep, AgreeStep
<1>3. AgreeInv => GlobalsAgree
  BY DEF AgreeInv, Agreeing, GlobalsAgree
<1> QED BY <1>1, <1>2, <1>3, TypesAlways, PTL DEF Spec
=============================================================================
