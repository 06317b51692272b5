----------------------------- MODULE ITSProofs ------------------------------
(***************************************************************************)
(* Proofs about ITS, for any lessons, videos, catalog and bounds.          *)
(***************************************************************************)
EXTENDS ITS, SequenceTheorems, FiniteSetTheorems, TLAPS

-----------------------------------------------------------------------------
(* The inductive invariant.                                                *)

\* A controller waits for its lessons, then for videos, and has its buttons
\* off as long.
QueriesOK(i) ==
  /\ lessonQuery[i] = {} \/ \E c \in Categories : lessonQuery[i] = {c}
  /\ videoQuery[i] = {} \/ \E r \in Refs : videoQuery[i] = {r}
  /\ lessonQuery[i] # {} => vc[i] = Fresh /\ videoQuery[i] = {}
  /\ videoQuery[i] # {} => ~vc[i].enabled /\ vc[i].videos = <<>>
  /\ i > opens => vc[i] = Fresh /\ lessonQuery[i] = {} /\ videoQuery[i] = {}

\* The title is the lesson of its number, and there are no videos before there
\* are lessons.
PlaceOK(i) ==
  /\ vc[i].enabled => vc[i].videos # <<>>
  /\ vc[i].title # 0 => vc[i].title = vc[i].lessons[vc[i].lessonNumber + 1]
  /\ vc[i].lessons # <<>> => vc[i].lessonNumber < Len(vc[i].lessons)
  /\ vc[i].lessons = <<>> => vc[i].videos = <<>> /\ videoQuery[i] = {}

ControllerInv(i) == QueriesOK(i) /\ PlaceOK(i)

\* A controller that waits for vote w waits for nothing else, and has the
\* video voted on first in its list.
VoteOK(w) ==
  /\ w.vc <= opens
  /\ lessonQuery[w.vc] = {} /\ videoQuery[w.vc] = {}
  /\ ~vc[w.vc].enabled /\ vc[w.vc].videos # <<>>
  /\ vc[w.vc].videos[1].id = w.id

OutboxInv ==
  /\ \A k \in 1 .. Len(outbox) : VoteOK(outbox[k])
  /\ \A j, k \in 1 .. Len(outbox) : j # k => outbox[j].vc # outbox[k].vc

NavigationInv ==
  /\ top <= opens
  /\ screen = "alert" => vc[top].enabled

EndInv ==
  ~Alive => \/ \E i \in Controllers :
                 /\ vc[i].lessons # <<>>
                 /\ vc[i].lessonNumber = Len(vc[i].lessons) - 1
            \/ \E i \in Controllers :
                 /\ opens >= i
                 /\ vc[i].lessons = <<>> /\ lessonQuery[i] = {}

\* Nobody else is under way, and the globals are the lesson and the category
\* of the controller on the stack.
AloneInv ==
  alone =>
    /\ top # 0 /\ ~browsing
    /\ \A i \in Controllers : i # top => lessonQuery[i] = {} /\ videoQuery[i] = {}
    /\ \A k \in 1 .. Len(outbox) : outbox[k].vc = top /\ outbox[k].ref = lessonRef
    /\ lessonQuery[top] \subseteq {categoryRef} /\ videoQuery[top] \subseteq {lessonRef}
    /\ \A k \in 1 .. Len(vc[top].videos) : vc[top].videos[k].from = lessonRef
    /\ \A k \in 1 .. Len(vc[top].lessons) : CategoryOf[vc[top].lessons[k]] = categoryRef
    /\ vc[top].lessonNumber > 0 => lessonRef = RefOf(vc[top].title)

Inv ==
  /\ TypeOK
  /\ \A i \in Controllers : ControllerInv(i)
  /\ OutboxInv
  /\ NavigationInv

IInv == Inv /\ EndInv /\ AloneInv

-----------------------------------------------------------------------------
(* The answers of the queries.                                             *)

LEMMA LessonListIsASequence ==
  ASSUME NEW c, NEW s \in LessonLists(c)
  PROVE  s \in Seq(Lessons) /\ \A k \in 1 .. Len(s) : CategoryOf[s[k]] = c
<1> DEFINE S == {l \in Lessons : CategoryOf[l] = c}
<1>1. IsFiniteSet(S)
  BY ITSAssumption, FS_Subset DEF ITSConstants
<1>2. Cardinality(S) \in Nat
  BY <1>1, FS_CardinalityType
<1>3. s \in [1 .. Cardinality(S) -> S]
  BY DEF LessonLists
<1>4. s \in Seq(S)
  <2> DEFINE n == Cardinality(S)
  <2> HIDE DEF S, n
  <2> QED BY <1>2, <1>3 DEF n
<1>5. Len(s) \in Nat /\ \A k \in 1 .. Len(s) : s[k] \in S
  BY <1>4
<1>6. s \in Seq(Lessons)
  BY <1>4, SeqMonotonic
<1> QED BY <1>5, <1>6

LEMMA VideoListIsASequence ==
  ASSUME NEW ref, NEW s \in {<<>>} \union VideoLists(ref)
  PROVE  s \in Seq(Videos)
<1>1. CASE s = <<>>
  BY <1>1
<1>2. CASE s \in VideoLists(ref)
  <2>1. \A k, l \in Lessons : RefOf(k) = RefOf(l) => k = l
    <3> TAKE k, l \in Lessons
    <3>1. CategoryOf[k] \in Seq(Nat) /\ CategoryOf[l] \in Seq(Nat) /\ k \in Nat /\ l \in Nat
      BY ITSAssumption DEF ITSConstants
    <3> QED BY <3>1, AppendInjective DEF RefOf
  <2>2. ASSUME \A k \in Lessons : RefOf(k) # ref PROVE IsFiniteSet(Content(ref))
    <3>1. Content(ref) = {}
      BY <2>2 DEF Content
    <3>2. IsFiniteSet(Content(ref))
      BY <3>1, FS_EmptySet
    <3> QED BY <3>2
  <2>3. ASSUME NEW k \in Lessons, RefOf(k) = ref PROVE IsFiniteSet(Content(ref))
    <3>1. {l \in Lessons : RefOf(l) = ref} = {k}
      BY <2>1, <2>3
    <3>2. Content(ref) = Listed[k]
      BY <3>1 DEF Content
    <3> QED BY <3>2, ITSAssumption DEF ITSConstants
  <2>4. IsFiniteSet(Content(ref))
    BY <2>2, <2>3
  <2>5. Cardinality(Content(ref)) \in Nat
    BY <2>4, FS_CardinalityType
  <2>6. s \in [1 .. Cardinality(Content(ref)) -> Content(ref)]
    BY <1>2 DEF VideoLists
  <2>7. Content(ref) \subseteq Videos
    BY DEF Content, Videos
  <2>8. s \in Seq(Content(ref))
    BY <2>5, <2>6
  <2> QED BY <2>7, <2>8, SeqMonotonic
<1> QED BY <1>1, <1>2

\* The snapshots of an answer.
LEMMA SnapshotsOfAnswer ==
  ASSUME NEW ref \in Refs, NEW s \in {<<>>} \union VideoLists(ref), NEW list,
         list = [k \in DOMAIN s |-> [id |-> s[k], from |-> ref]]
  PROVE  list \in Seq(Snapshots) /\ \A k \in 1 .. Len(list) : list[k].from = ref
<1>1. s \in Seq(Videos) /\ Len(s) \in Nat /\ DOMAIN s = 1 .. Len(s)
  BY VideoListIsASequence
<1>2. \A k \in 1 .. Len(s) : list[k] = [id |-> s[k], from |-> ref] /\ s[k] \in Videos
  BY <1>1
<1>3. \A k \in 1 .. Len(s) : list[k] \in Snapshots /\ list[k].from = ref
  <2> TAKE k \in 1 .. Len(s)
  <2>1. list[k] = [id |-> s[k], from |-> ref] /\ s[k] \in Videos
    BY <1>2
  <2> QED BY <2>1 DEF Snapshots
<1>4. list \in [1 .. Len(s) -> Snapshots]
  BY <1>1, <1>3
<1>5. list \in Seq(Snapshots) /\ Len(list) = Len(s)
  BY <1>1, <1>4
<1> QED BY <1>3, <1>5

LEMMA FrontAndLast ==
  ASSUME NEW S, NEW c \in Seq(S), NEW l \in S
  PROVE  /\ Append(c, l) \in Seq(S) /\ Append(c, l) # <<>>
         /\ Front(Append(c, l)) = c /\ Last(Append(c, l)) = l
<1>1. /\ Append(c, l) \in Seq(S) /\ Len(Append(c, l)) = Len(c) + 1 /\ Len(c) \in Nat
      /\ \A i \in 1 .. Len(c) : Append(c, l)[i] = c[i]
      /\ Append(c, l)[Len(c) + 1] = l
  OBVIOUS
<1>2. Append(c, l) # <<>> /\ Last(Append(c, l)) = l
  BY <1>1 DEF Last
<1>3. /\ Front(Append(c, l)) \in Seq(S) /\ Len(Front(Append(c, l))) = Len(c)
      /\ \A i \in 1 .. Len(c) : Front(Append(c, l))[i] = c[i]
  BY <1>1 DEF Front
<1>4. Front(Append(c, l)) = c
  BY <1>3, SeqEqual
<1> QED BY <1>1, <1>2, <1>4

\* The globals stay within Categories and Refs.
LEMMA RefsOfCategories ==
  /\ \A c \in Categories, l \in Lessons : Append(c, l) \in Refs
  /\ \A r \in CatalogRefs : Front(r) \in Categories /\ r \in Refs
  /\ \A l \in Lessons : CategoryOf[l] \in Categories /\ RefOf(l) \in Refs
<1>1. /\ \A r \in CatalogRefs : r \in Seq(Nat) /\ r # <<>>
      /\ \A l \in Lessons : l \in Nat /\ CategoryOf[l] \in Seq(Nat)
  BY ITSAssumption DEF ITSConstants
<1>2. \A r \in CatalogRefs : Front(r) \in Seq(Nat)
  <2> SUFFICES ASSUME NEW r \in CatalogRefs PROVE Front(r) \in Seq(Nat)
    OBVIOUS
  <2>1. r \in Seq(Nat) /\ Len(r) \in Nat \ {0}
    BY <1>1
  <2> QED BY <2>1 DEF Front
<1>3. \A c \in Categories : c \in Seq(Nat)
  BY <1>1, <1>2 DEF Categories
<1>4. \A c \in Categories, l \in Lessons : Append(c, l) \in Refs
  BY <1>1, <1>3, FrontAndLast DEF Refs
<1>5. \A r \in CatalogRefs : Front(r) \in Categories /\ r \in Refs
  BY <1>1 DEF Categories, Refs
<1>6. \A l \in Lessons : CategoryOf[l] \in Categories
  BY DEF Categories
<1> QED BY <1>4, <1>5, <1>6 DEF RefOf

LEMMA FreshIsTyped == Fresh \in ITSFields /\ ~Fresh.enabled /\ Fresh.videos = <<>>
                      /\ Fresh.lessons = <<>> /\ Fresh.lessonNumber = 0 /\ Fresh.title = 0
BY DEF Fresh, ITSFields

-----------------------------------------------------------------------------
(* What a step leaves alone.                                               *)

LEMMA OtherController ==
  ASSUME NEW i \in Controllers, ControllerInv(i), vc'[i] = vc[i],
         lessonQuery'[i] = lessonQuery[i], videoQuery'[i] = videoQuery[i],
         i > opens' => i > opens
  PROVE  ControllerInv(i)'
<1>1. QueriesOK(i)'
  BY DEF ControllerInv, QueriesOK
<1>2. PlaceOK(i)'
  BY DEF ControllerInv, PlaceOK
<1> QED BY <1>1, <1>2 DEF ControllerInv

LEMMA SameOutbox ==
  ASSUME Inv, outbox' = outbox, opens' \in Nat, opens' >= opens,
         \A k \in 1 .. Len(outbox) :
           /\ vc'[outbox[k].vc] = vc[outbox[k].vc]
           /\ lessonQuery'[outbox[k].vc] = lessonQuery[outbox[k].vc]
           /\ videoQuery'[outbox[k].vc] = videoQuery[outbox[k].vc]
  PROVE  OutboxInv'
<1>1. ASSUME NEW k \in 1 .. Len(outbox) PROVE VoteOK(outbox[k])'
  <2>1. VoteOK(outbox[k]) /\ outbox[k] \in Votes
    BY DEF Inv, TypeOK, OutboxInv
  <2>2. outbox[k].vc \in Nat /\ opens \in Nat
    BY <2>1 DEF Votes, Controllers, Inv, TypeOK
  <2> QED BY <2>1, <2>2 DEF VoteOK
<1>2. \A j, k \in 1 .. Len(outbox) : j # k => outbox[j].vc # outbox[k].vc
  BY DEF Inv, OutboxInv
<1> QED BY <1>1, <1>2 DEF OutboxInv

-----------------------------------------------------------------------------
(* Every step keeps the types, the queries and the votes.                  *)

LEMMA InvInit == Init => Inv
<1> SUFFICES ASSUME Init PROVE Inv
  OBVIOUS
<1> USE DEF Init
<1>1. TypeOK
  <2>1. vc \in [Controllers -> ITSFields]
    BY FreshIsTyped
  <2>2. categoryRef \in Categories /\ lessonRef \in Refs
    BY RefsOfCategories, ITSAssumption DEF ITSConstants
  <2>3. outbox \in Seq(Votes)
    OBVIOUS
  <2>4. top \in 0 .. MaxOpens /\ opens \in 0 .. MaxOpens /\ errors \in Nat
    BY ITSAssumption DEF ITSConstants
  <2> QED BY <2>1, <2>2, <2>3, <2>4 DEF TypeOK, None
<1>2. ASSUME NEW i \in Controllers PROVE ControllerInv(i)
  BY FreshIsTyped DEF ControllerInv, QueriesOK, PlaceOK, None
<1>3. OutboxInv
  BY DEF OutboxInv
<1>4. NavigationInv
  BY DEF NavigationInv
<1> QED BY <1>1, <1>2, <1>3, <1>4 DEF Inv

\* The steps that change neither controllers nor votes.
LEMMA KeptStep ==
  ASSUME Inv, UNCHANGED <<vc, lessonQuery, videoQuery, outbox, opens>>, TypeOK',
         top' = top \/ top' = 0, screen' = "alert" => vc[top].enabled /\ top' = top
  PROVE  Inv'
<1>1. ASSUME NEW i \in Controllers PROVE ControllerInv(i)'
  BY OtherController DEF Inv
<1>2. OutboxInv'
  <2>1. opens \in Nat /\ opens >= opens
    BY DEF Inv, TypeOK
  <2> QED BY <2>1, SameOutbox
<1>3. NavigationInv'
  <2>1. 0 <= opens
    BY DEF Inv, TypeOK
  <2> QED BY <2>1 DEF Inv, NavigationInv
<1> QED BY <1>1, <1>2, <1>3 DEF Inv

LEMMA ViewDidLoadStep == Inv /\ viewDidLoad => Inv'
<1> SUFFICES ASSUME Inv, viewDidLoad PROVE Inv'
  OBVIOUS
<1> USE DEF Inv
<1>1. /\ screen = "menu" /\ opens < MaxOpens /\ opens' = opens + 1
      /\ top' = opens + 1 /\ screen' = "its"
      /\ lessonQuery' = [lessonQuery EXCEPT ![opens + 1] = {categoryRef}]
      /\ alone' \in BOOLEAN
      /\ UNCHANGED <<vc, categoryRef, lessonRef, browsing, videoQuery, outbox, errors>>
  BY DEF viewDidLoad, globals
<1>0. opens \in Nat /\ opens + 1 \in Controllers /\ MaxOpens \in Nat
  BY <1>1, ITSAssumption DEF TypeOK, Controllers, ITSConstants
<1>11. PICK n \in Controllers : n = opens + 1
  BY <1>0
<1>2. opens \in Nat /\ n \in Nat /\ n = opens + 1 /\ n > opens /\ MaxOpens \in Nat
  BY <1>0, <1>11
<1>3. vc[n] = Fresh /\ videoQuery[n] = {} /\ lessonQuery'[n] = {categoryRef}
      /\ categoryRef \in Categories
  BY <1>1, <1>2 DEF ControllerInv, QueriesOK, TypeOK
<1>4. TypeOK'
  <2>1. lessonQuery' \in [Controllers -> SUBSET Categories]
    BY <1>1, <1>2 DEF TypeOK
  <2>2. top' \in 0 .. MaxOpens /\ opens' \in 0 .. MaxOpens /\ top' \in Controllers
    BY <1>1, <1>2
  <2> QED BY <1>1, <2>1, <2>2 DEF TypeOK
<1>5. ControllerInv(n)'
  <2>1. QueriesOK(n)'
    BY <1>1, <1>2, <1>3 DEF QueriesOK
  <2>2. PlaceOK(n)'
    BY <1>1, <1>3, FreshIsTyped DEF PlaceOK
  <2> QED BY <2>1, <2>2 DEF ControllerInv
<1>6. ASSUME NEW i \in Controllers, i # n PROVE ControllerInv(i)'
  <2>1. lessonQuery'[i] = lessonQuery[i]
    BY <1>1, <1>2, <1>6 DEF TypeOK
  <2>2. i > opens' => i > opens
    BY <1>1, <1>2 DEF Controllers
  <2> QED BY <1>1, <2>1, <2>2, OtherController
<1>7. OutboxInv'
  <2>1. ASSUME NEW k \in 1 .. Len(outbox)
        PROVE  lessonQuery'[outbox[k].vc] = lessonQuery[outbox[k].vc]
    <3>1. outbox[k] \in Votes /\ VoteOK(outbox[k])
      BY DEF TypeOK, OutboxInv
    <3>2. outbox[k].vc \in Controllers /\ outbox[k].vc <= opens
      BY <3>1 DEF Votes, VoteOK
    <3>3. outbox[k].vc # n
      BY <1>2, <3>2 DEF Controllers
    <3> QED BY <1>1, <3>2, <3>3 DEF TypeOK
  <2>2. opens' \in Nat /\ opens' >= opens
    BY <1>1, <1>2
  <2> QED BY <1>1, <2>1, <2>2, SameOutbox
<1>8. NavigationInv'
  BY <1>1, <1>2 DEF NavigationInv
<1> QED BY <1>4, <1>5, <1>6, <1>7, <1>8

\* A controller with a query under way is not the one of a vote.
LEMMA AskingIsNotVoting ==
  ASSUME Inv, NEW i \in Controllers, lessonQuery[i] \union videoQuery[i] # {},
         NEW k \in 1 .. Len(outbox)
  PROVE  outbox[k].vc # i /\ outbox[k].vc \in Controllers
<1>1. outbox[k] \in Votes /\ VoteOK(outbox[k])
  BY DEF Inv, TypeOK, OutboxInv
<1> QED BY <1>1 DEF VoteOK, Votes

\* Controller i gets an answer: it has new fields and its queries are over,
\* but for one of videos.
LEMMA AnsweredStep ==
  ASSUME Inv, NEW i \in Controllers, lessonQuery[i] \union videoQuery[i] # {},
         NEW q \in ITSFields, vc' = [vc EXCEPT ![i] = q],
         lessonQuery' = [lessonQuery EXCEPT ![i] = {}],
         NEW R \in SUBSET Refs, videoQuery' = [videoQuery EXCEPT ![i] = R],
         R = {} \/ \E r \in Refs : R = {r},
         R # {} => ~q.enabled /\ q.videos = <<>>,
         q.enabled => q.videos # <<>>,
         q.title # 0 => q.title = q.lessons[q.lessonNumber + 1],
         q.lessons # <<>> => q.lessonNumber < Len(q.lessons),
         q.lessons = <<>> => q.videos = <<>> /\ R = {},
         screen' = screen \/ screen' = "badLessonIndex",
         UNCHANGED <<top, categoryRef, lessonRef, browsing, outbox, opens, alone>>,
         errors' \in Nat
  PROVE  Inv'
<1> USE DEF Inv
<1>1. /\ vc'[i] = q /\ lessonQuery'[i] = {} /\ videoQuery'[i] = R
      /\ vc' \in [Controllers -> ITSFields]
      /\ lessonQuery' \in [Controllers -> SUBSET Categories]
      /\ videoQuery' \in [Controllers -> SUBSET Refs]
  BY DEF TypeOK
<1>2. i <= opens /\ i \in Nat /\ opens \in Nat
  BY DEF ControllerInv, QueriesOK, TypeOK, Controllers
<1>3. ControllerInv(i)'
  <2>1. QueriesOK(i)'
    BY <1>1, <1>2 DEF QueriesOK
  <2>2. PlaceOK(i)'
    BY <1>1 DEF PlaceOK
  <2> QED BY <2>1, <2>2 DEF ControllerInv
<1>4. ASSUME NEW j \in Controllers, j # i
      PROVE  vc'[j] = vc[j] /\ lessonQuery'[j] = lessonQuery[j]
             /\ videoQuery'[j] = videoQuery[j]
  BY <1>4 DEF TypeOK
<1>5. ASSUME NEW j \in Controllers, j # i PROVE ControllerInv(j)'
  BY <1>4, <1>5, OtherController
<1>6. OutboxInv'
  <2>1. opens' \in Nat /\ opens' >= opens
    BY <1>2
  <2>2. ASSUME NEW k \in 1 .. Len(outbox)
        PROVE  /\ vc'[outbox[k].vc] = vc[outbox[k].vc]
               /\ lessonQuery'[outbox[k].vc] = lessonQuery[outbox[k].vc]
               /\ videoQuery'[outbox[k].vc] = videoQuery[outbox[k].vc]
    BY <1>4, AskingIsNotVoting
  <2> QED BY <2>1, <2>2, SameOutbox
<1>7. NavigationInv'
  <2>1. screen = "alert" => top # i
    BY DEF NavigationInv, ControllerInv, QueriesOK, Fresh
  <2>2. screen' = "alert" => vc'[top] = vc[top]
    BY <1>4, <2>1 DEF TypeOK
  <2> QED BY <2>2 DEF NavigationInv
<1>8. TypeOK'
  BY <1>1 DEF TypeOK
<1> QED BY <1>3, <1>5, <1>6, <1>7, <1>8

LEMMA GetLessonsStep ==
  ASSUME Inv, NEW i \in Controllers, GetLessonsDone(i)
  PROVE  Inv'
<1> USE DEF Inv
<1>0. PICK c \in lessonQuery[i] : \E list \in {<<>>} \union LessonLists(c) :
        \/ /\ list # <<>>
           /\ getVideos(i, [vc[i] EXCEPT !.lessons = list, !.title = list[1]],
                        lessonRef)
           /\ UNCHANGED screen
        \/ /\ list = <<>>
           /\ screen' = "badLessonIndex"
           /\ UNCHANGED <<vc, videoQuery>>
  BY DEF GetLessonsDone
<1>1. PICK list \in {<<>>} \union LessonLists(c) :
        \/ /\ list # <<>>
           /\ getVideos(i, [vc[i] EXCEPT !.lessons = list, !.title = list[1]],
                        lessonRef)
           /\ UNCHANGED screen
        \/ /\ list = <<>>
           /\ screen' = "badLessonIndex"
           /\ UNCHANGED <<vc, videoQuery>>
  BY <1>0
<1>2. /\ lessonQuery' = [lessonQuery EXCEPT ![i] = {}]
      /\ UNCHANGED <<top, categoryRef, lessonRef, browsing, outbox, opens, errors, alone>>
  BY DEF GetLessonsDone, None, globals
<1>3. lessonQuery[i] \union videoQuery[i] # {} /\ vc[i] = Fresh /\ videoQuery[i] = {}
  BY <1>0 DEF ControllerInv, QueriesOK
<1>4. CASE list # <<>>
  <2> DEFINE q == [[vc[i] EXCEPT !.lessons = list, !.title = list[1]]
                     EXCEPT !.videos = <<>>]
  <2>1. list \in Seq(Lessons) /\ Len(list) \in Nat /\ Len(list) > 0 /\ list[1] \in Lessons
    BY <1>1, <1>4, LessonListIsASequence
  <2>2. /\ q \in ITSFields /\ ~q.enabled /\ q.videos = <<>> /\ q.lessons = list
        /\ q.lessonNumber = 0 /\ q.title = list[1]
    <3> DEFINE p == [vc[i] EXCEPT !.lessons = list, !.title = list[1]]
    <3>1. vc[i] \in ITSFields /\ ~vc[i].enabled /\ vc[i].lessonNumber = 0
      BY <1>3, FreshIsTyped
    <3>2. /\ p \in ITSFields /\ p.lessons = list /\ p.title = list[1] /\ ~p.enabled
          /\ p.lessonNumber = 0
      BY <2>1, <3>1 DEF ITSFields
    <3>3. q = [p EXCEPT !.videos = <<>>]
      OBVIOUS
    <3> HIDE DEF p, q
    <3>4. <<>> \in Seq(Snapshots)
      OBVIOUS
    <3>5. /\ q.videos = <<>> /\ q.lessons = p.lessons /\ q.title = p.title
          /\ q.lessonNumber = p.lessonNumber /\ q.enabled = p.enabled
      BY <3>2, <3>3 DEF ITSFields
    <3>6. q \in ITSFields
      BY <3>2, <3>3, <3>4 DEF ITSFields
    <3> QED BY <3>2, <3>5, <3>6
  <2>3. vc' = [vc EXCEPT ![i] = q] /\ videoQuery' = [videoQuery EXCEPT ![i] = {lessonRef}]
        /\ screen' = screen
    BY <1>1, <1>4 DEF getVideos
  <2> HIDE DEF q
  <2>4. lessonRef \in Refs /\ {lessonRef} \in SUBSET Refs /\ errors' \in Nat
    BY <1>2 DEF TypeOK
  <2>5. q.title = q.lessons[q.lessonNumber + 1] /\ q.lessonNumber < Len(q.lessons)
    BY <2>1, <2>2
  <2> QED BY <1>2, <1>3, <1>4, <2>2, <2>3, <2>4, <2>5, AnsweredStep
<1>5. CASE list = <<>>
  <2>1. vc' = [vc EXCEPT ![i] = Fresh] /\ videoQuery' = [videoQuery EXCEPT ![i] = {}]
        /\ screen' = "badLessonIndex" /\ errors' \in Nat
    BY <1>1, <1>2, <1>3, <1>5 DEF TypeOK
  <2> QED BY <1>2, <1>3, <2>1, FreshIsTyped, AnsweredStep
<1> QED BY <1>4, <1>5

LEMMA GetVideosStep ==
  ASSUME Inv, NEW i \in Controllers, GetVideosDone(i)
  PROVE  Inv'
<1> USE DEF Inv
<1>0. PICK ref \in videoQuery[i] : \E s \in {<<>>} \union VideoLists(ref) :
        vc' = [vc EXCEPT ![i] = getVideo(@, @.videos \o
                 [k \in DOMAIN s |-> [id |-> s[k], from |-> ref]])]
  BY DEF GetVideosDone
<1>1. PICK s \in {<<>>} \union VideoLists(ref) :
        vc' = [vc EXCEPT ![i] = getVideo(@, @.videos \o
                 [k \in DOMAIN s |-> [id |-> s[k], from |-> ref]])]
  BY <1>0
<1>2. /\ videoQuery' = [videoQuery EXCEPT ![i] = {}]
      /\ UNCHANGED <<screen, top, categoryRef, lessonRef, browsing, lessonQuery, outbox,
                     opens, errors, alone>>
  BY DEF GetVideosDone, None, globals
<1>3. /\ ref \in Refs /\ lessonQuery[i] \union videoQuery[i] # {} /\ ~vc[i].enabled
      /\ vc[i].videos = <<>> /\ lessonQuery[i] = {} /\ vc[i].lessons # <<>>
      /\ vc[i] \in ITSFields
  BY <1>0 DEF ControllerInv, QueriesOK, PlaceOK, TypeOK
<1> DEFINE list == [k \in DOMAIN s |-> [id |-> s[k], from |-> ref]]
           q == [vc[i] EXCEPT !.videos = list, !.enabled = list # <<>>]
<1>4. list \in Seq(Snapshots)
  <2>1. list = [k \in DOMAIN s |-> [id |-> s[k], from |-> ref]]
    OBVIOUS
  <2> HIDE DEF list
  <2> QED BY <1>3, <2>1, SnapshotsOfAnswer
<1>5. vc' = [vc EXCEPT ![i] = q]
  <2>1. vc[i].videos \o list = list
    BY <1>3, <1>4
  <2>2. getVideo(vc[i], vc[i].videos \o list) = q
    <3> HIDE DEF list
    <3> QED BY <1>3, <2>1 DEF getVideo, ITSFields
  <2> QED BY <1>1, <2>2 DEF TypeOK
<1> HIDE DEF list
<1>6. /\ q \in ITSFields /\ (q.enabled => q.videos # <<>>) /\ q.title = vc[i].title
      /\ q.lessons = vc[i].lessons /\ q.lessonNumber = vc[i].lessonNumber
  BY <1>3, <1>4 DEF ITSFields
<1> HIDE DEF q
<1>7. /\ q.title # 0 => q.title = q.lessons[q.lessonNumber + 1]
      /\ q.lessons # <<>> /\ q.lessonNumber < Len(q.lessons)
  BY <1>3, <1>6 DEF ControllerInv, PlaceOK
<1>8. lessonQuery' = [lessonQuery EXCEPT ![i] = {}] /\ errors' \in Nat
  BY <1>2, <1>3 DEF TypeOK
<1> QED BY <1>2, <1>3, <1>5, <1>6, <1>7, <1>8, AnsweredStep

LEMMA GetFailedStep ==
  ASSUME Inv, NEW i \in Controllers, GetFailed(i)
  PROVE  Inv'
<1> USE DEF Inv
<1>1. /\ lessonQuery[i] \union videoQuery[i] # {} /\ errors' = errors + 1
      /\ lessonQuery' = [lessonQuery EXCEPT ![i] = {}]
      /\ videoQuery' = [videoQuery EXCEPT ![i] = {}]
      /\ UNCHANGED <<screen, top, vc, categoryRef, lessonRef, browsing, outbox, opens, alone>>
  BY DEF GetFailed, None, globals
<1>2. vc' = [vc EXCEPT ![i] = vc[i]] /\ vc[i] \in ITSFields /\ errors' \in Nat
  BY <1>1 DEF TypeOK
<1>3. /\ vc[i].enabled => vc[i].videos # <<>>
      /\ vc[i].title # 0 => vc[i].title = vc[i].lessons[vc[i].lessonNumber + 1]
      /\ vc[i].lessons # <<>> => vc[i].lessonNumber < Len(vc[i].lessons)
      /\ vc[i].lessons = <<>> => vc[i].videos = <<>>
  BY DEF ControllerInv, PlaceOK
<1>4. {} \in SUBSET Refs
  OBVIOUS
<1> HIDE DEF Inv
<1> QED BY <1>1, <1>2, <1>3, <1>4, AnsweredStep

\* The student votes: the buttons go off and the vote is the last one.
LEMMA VoteStep ==
  ASSUME Inv, screen \in {"its", "alert"}, vc[top].enabled,
         NEW f \in Fields, Vote(f), screen' = "its",
         UNCHANGED <<top, categoryRef, lessonRef, browsing, lessonQuery, videoQuery, opens,
                     errors, alone>>
  PROVE  Inv'
<1> USE DEF Inv
<1>1. top \in Controllers /\ top' = top /\ vc[top] \in ITSFields
  BY DEF TypeOK
<1>2. PICK i \in Controllers : i = top
  BY <1>1
<1> DEFINE w == [vc |-> i, ref |-> lessonRef, id |-> Head(vc[i].videos).id, field |-> f]
<1>3. /\ vc' = [vc EXCEPT ![i].enabled = FALSE]
      /\ outbox' = Append(outbox, w)
  BY <1>2 DEF Vote
<1>4. /\ vc[i] \in ITSFields /\ vc[i].enabled /\ vc[i].videos # <<>>
      /\ lessonQuery[i] = {} /\ videoQuery[i] = {}
  BY <1>1, <1>2, FreshIsTyped DEF ControllerInv, QueriesOK, PlaceOK
<1>5. vc[i].videos \in Seq(Snapshots)
  BY <1>4 DEF ITSFields
<1>6. vc[i].videos[1] \in Snapshots /\ Head(vc[i].videos) = vc[i].videos[1]
  BY <1>4, <1>5
<1>7. w \in Votes /\ w.vc = i /\ w.id = vc[i].videos[1].id
  BY <1>6 DEF Votes, Snapshots, TypeOK
<1> HIDE DEF w
<1>8. /\ vc' \in [Controllers -> ITSFields]
      /\ vc'[i] = [vc[i] EXCEPT !.enabled = FALSE]
      /\ \A j \in Controllers : j # i => vc'[j] = vc[j]
  BY <1>3, <1>4 DEF TypeOK, ITSFields
<1>9. /\ ~vc'[i].enabled /\ vc'[i].videos = vc[i].videos /\ vc'[i].lessons = vc[i].lessons
      /\ vc'[i].lessonNumber = vc[i].lessonNumber /\ vc'[i].title = vc[i].title
  BY <1>4, <1>8 DEF ITSFields
<1>10. i <= opens /\ i \in Nat /\ opens \in Nat
  BY <1>2 DEF NavigationInv, TypeOK, Controllers
<1>11. outbox \in Seq(Votes) /\ Len(outbox) \in Nat
  BY DEF TypeOK
<1>12. /\ outbox' \in Seq(Votes) /\ Len(outbox') = Len(outbox) + 1
       /\ \A k \in 1 .. Len(outbox) : outbox'[k] = outbox[k]
       /\ outbox'[Len(outbox) + 1] = w
  BY <1>3, <1>7, <1>11
<1>13. TypeOK'
  BY <1>1, <1>8, <1>12 DEF TypeOK
<1>14. ControllerInv(i)'
  <2>1. ControllerInv(i)
    OBVIOUS
  <2>2. QueriesOK(i)'
    BY <1>4, <1>9, <1>10 DEF QueriesOK
  <2>3. PlaceOK(i)'
    BY <1>4, <1>9, <2>1 DEF ControllerInv, PlaceOK
  <2> QED BY <2>2, <2>3 DEF ControllerInv
<1>15. ASSUME NEW j \in Controllers, j # i PROVE ControllerInv(j)'
  BY <1>8, <1>15, OtherController
<1>16. \A k \in 1 .. Len(outbox) : /\ VoteOK(outbox[k]) /\ outbox[k].vc # i
                                   /\ outbox[k].vc \in Controllers
  <2> TAKE k \in 1 .. Len(outbox)
  <2>1. outbox[k] \in Votes /\ VoteOK(outbox[k])
    BY <1>11 DEF OutboxInv
  <2> QED BY <1>4, <2>1 DEF VoteOK, Votes
<1>17. OutboxInv'
  <2>1. ASSUME NEW k \in 1 .. Len(outbox') PROVE VoteOK(outbox[k])'
    <3>1. CASE k = Len(outbox) + 1
      <4>1. outbox'[k] = w
        BY <1>12, <3>1
      <4> QED BY <1>4, <1>7, <1>9, <1>10, <4>1 DEF VoteOK
    <3>2. CASE k \in 1 .. Len(outbox)
      <4>1. outbox'[k] = outbox[k] /\ vc'[outbox[k].vc] = vc[outbox[k].vc]
        BY <1>8, <1>12, <1>16, <3>2
      <4> QED BY <1>16, <3>2, <4>1 DEF VoteOK
    <3>3. k = Len(outbox) + 1 \/ k \in 1 .. Len(outbox)
      BY <1>11, <1>12
    <3> QED BY <3>1, <3>2, <3>3
  <2>2. ASSUME NEW j \in 1 .. Len(outbox'), NEW k \in 1 .. Len(outbox'), j # k
        PROVE  outbox'[j].vc # outbox'[k].vc
    <3>1. \A n \in 1 .. Len(outbox') : n = Len(outbox) + 1 \/ n \in 1 .. Len(outbox)
      BY <1>11, <1>12
    <3>2. \A m, n \in 1 .. Len(outbox) : m # n => outbox[m].vc # outbox[n].vc
      BY DEF OutboxInv
    <3> QED BY <1>7, <1>12, <1>16, <2>2, <3>1, <3>2
  <2> QED BY <2>1, <2>2 DEF OutboxInv
<1>18. NavigationInv'
  BY <1>1 DEF NavigationInv
<1> QED BY <1>13, <1>14, <1>15, <1>17, <1>18

\* The oldest vote is answered; what is left of the others.
LEMMA TailOfOutbox ==
  ASSUME Inv, outbox # <<>>, outbox' = Tail(outbox)
  PROVE  /\ outbox' \in Seq(Votes) /\ Head(outbox) = outbox[1] /\ outbox[1] \in Votes
         /\ VoteOK(outbox[1]) /\ Len(outbox') \in Nat
         /\ \A k \in 1 .. Len(outbox') : /\ k + 1 \in 1 .. Len(outbox)
                                         /\ outbox'[k] = outbox[k + 1]
                                         /\ outbox'[k] \in Votes /\ VoteOK(outbox[k + 1])
                                         /\ outbox'[k].vc # outbox[1].vc
         /\ \A j, k \in 1 .. Len(outbox') : j # k => outbox'[j].vc # outbox'[k].vc
<1>1. outbox \in Seq(Votes) /\ Len(outbox) \in Nat /\ Len(outbox) > 0
  BY DEF Inv, TypeOK
<1>2. /\ outbox' \in Seq(Votes) /\ Len(outbox') = Len(outbox) - 1
      /\ \A k \in 1 .. Len(outbox') : outbox'[k] = outbox[k + 1]
  BY <1>1
<1>3. \A k \in 1 .. Len(outbox') : k + 1 \in 1 .. Len(outbox) /\ k + 1 # 1 /\ 1 \in 1 .. Len(outbox)
  BY <1>1, <1>2
<1>4. /\ \A k \in 1 .. Len(outbox) : VoteOK(outbox[k])
      /\ \A j, k \in 1 .. Len(outbox) : j # k => outbox[j].vc # outbox[k].vc
  BY DEF Inv, OutboxInv
<1>5. Head(outbox) = outbox[1] /\ outbox[1] \in Votes /\ 1 \in 1 .. Len(outbox)
  BY <1>1
<1>6. \A j, k \in 1 .. Len(outbox') : j # k => j + 1 # k + 1
  BY <1>1, <1>2
<1>7. \A k \in 1 .. Len(outbox) : outbox[k] \in Votes
  BY <1>1
<1> QED BY <1>1, <1>2, <1>3, <1>4, <1>5, <1>6, <1>7

\* Controller i, whose vote was the oldest, has new fields.
LEMMA VotedStep ==
  ASSUME Inv, outbox # <<>>, outbox' = Tail(outbox), NEW i \in Controllers,
         i = outbox[1].vc, NEW q \in ITSFields, vc' = [vc EXCEPT ![i] = q],
         NEW R \in SUBSET Refs, videoQuery' = [videoQuery EXCEPT ![i] = R],
         R = {} \/ \E r \in Refs : R = {r},
         R # {} => ~q.enabled /\ q.videos = <<>>,
         q.enabled => q.videos # <<>>,
         q.title # 0 => q.title = q.lessons[q.lessonNumber + 1],
         q.lessons # <<>> /\ q.lessonNumber < Len(q.lessons),
         screen' = screen \/ screen' = "badLessonIndex",
         UNCHANGED <<top, categoryRef, browsing, lessonQuery, opens, alone>>,
         lessonRef' \in Refs, errors' \in Nat
  PROVE  Inv'
<1> USE DEF Inv
<1>1. /\ vc'[i] = q /\ videoQuery'[i] = R
      /\ vc' \in [Controllers -> ITSFields]
      /\ videoQuery' \in [Controllers -> SUBSET Refs]
      /\ \A j \in Controllers : j # i => vc'[j] = vc[j] /\ videoQuery'[j] = videoQuery[j]
  BY DEF TypeOK
<1>2. VoteOK(outbox[1]) /\ outbox' \in Seq(Votes)
  BY TailOfOutbox
<1>3. i <= opens /\ lessonQuery[i] = {} /\ ~vc[i].enabled /\ i \in Nat /\ opens \in Nat
  BY <1>2 DEF VoteOK, TypeOK, Controllers
<1>4. ControllerInv(i)'
  <2>1. QueriesOK(i)'
    BY <1>1, <1>3 DEF QueriesOK
  <2>2. PlaceOK(i)'
    BY <1>1 DEF PlaceOK
  <2> QED BY <2>1, <2>2 DEF ControllerInv
<1>5. ASSUME NEW j \in Controllers, j # i PROVE ControllerInv(j)'
  BY <1>1, <1>5, OtherController
<1>6. OutboxInv'
  <2>1. ASSUME NEW k \in 1 .. Len(outbox') PROVE VoteOK(outbox[k])'
    <3>1. /\ outbox'[k] = outbox[k + 1] /\ outbox'[k] \in Votes /\ VoteOK(outbox[k + 1])
          /\ outbox'[k].vc # i
      BY TailOfOutbox
    <3>2. outbox'[k].vc \in Controllers
      BY <3>1 DEF Votes
    <3>3. vc'[outbox'[k].vc] = vc[outbox'[k].vc]
          /\ videoQuery'[outbox'[k].vc] = videoQuery[outbox'[k].vc]
      BY <1>1, <3>1, <3>2
    <3> QED BY <3>1, <3>3 DEF VoteOK
  <2>2. \A j, k \in 1 .. Len(outbox') : j # k => outbox'[j].vc # outbox'[k].vc
    BY TailOfOutbox
  <2> QED BY <2>1, <2>2 DEF OutboxInv
<1>7. NavigationInv'
  <2>1. screen = "alert" => top # i
    BY <1>3 DEF NavigationInv
  <2>2. screen' = "alert" => vc'[top] = vc[top]
    BY <1>1, <2>1 DEF TypeOK
  <2> QED BY <2>2 DEF NavigationInv
<1>8. TypeOK'
  BY <1>1, <1>2 DEF TypeOK
<1> QED BY <1>4, <1>5, <1>6, <1>7, <1>8

\* The controller of the oldest vote.
LEMMA VoterFields ==
  ASSUME Inv, outbox # <<>>
  PROVE  /\ outbox[1].vc \in Controllers /\ Head(outbox) = outbox[1]
         /\ vc[outbox[1].vc] \in ITSFields /\ vc[outbox[1].vc].videos # <<>>
         /\ ~vc[outbox[1].vc].enabled /\ PlaceOK(outbox[1].vc)
         /\ vc[outbox[1].vc].lessons # <<>>
<1>1. outbox \in Seq(Votes) /\ Len(outbox) \in Nat /\ Len(outbox) > 0
  BY DEF Inv, TypeOK
<1>2. Head(outbox) = outbox[1] /\ outbox[1] \in Votes /\ VoteOK(outbox[1])
  BY <1>1 DEF Inv, OutboxInv
<1>3. outbox[1].vc \in Controllers
  BY <1>2 DEF Votes
<1>4. PlaceOK(outbox[1].vc) /\ vc[outbox[1].vc] \in ITSFields
  BY <1>3 DEF Inv, ControllerInv, TypeOK
<1> QED BY <1>2, <1>3, <1>4 DEF VoteOK, PlaceOK

\* The fields of a controller that goes on to its lesson number n.
WithLesson(p, n) ==
  [[p EXCEPT !.lessonNumber = n, !.title = p.lessons[n + 1]] EXCEPT !.videos = <<>>]

LEMMA NextLessonFields ==
  ASSUME NEW p \in ITSFields, NEW n \in Nat, n < Len(p.lessons), NEW q,
         q = WithLesson(p, n)
  PROVE  /\ q \in ITSFields /\ q.lessonNumber = n /\ q.title = p.lessons[n + 1]
         /\ q.lessons = p.lessons /\ q.videos = <<>> /\ q.enabled = p.enabled
<1> DEFINE r == [p EXCEPT !.lessonNumber = n, !.title = p.lessons[n + 1]]
<1>1. p.lessons \in Seq(Lessons)
  BY DEF ITSFields
<1>2. p.lessons[n + 1] \in Lessons
  BY <1>1
<1>3. /\ r \in ITSFields /\ r.lessonNumber = n /\ r.title = p.lessons[n + 1]
      /\ r.lessons = p.lessons /\ r.enabled = p.enabled
  BY <1>2 DEF ITSFields
<1>4. q = [r EXCEPT !.videos = <<>>] /\ <<>> \in Seq(Snapshots)
  BY DEF WithLesson
<1> HIDE DEF r
<1>5. /\ q.videos = <<>> /\ q.lessons = r.lessons /\ q.title = r.title
      /\ q.lessonNumber = r.lessonNumber /\ q.enabled = r.enabled
  BY <1>3, <1>4 DEF ITSFields
<1>6. q \in ITSFields
  BY <1>3, <1>4 DEF ITSFields
<1> QED BY <1>3, <1>5, <1>6

\* The fields of a controller that goes on to its next video.
LEMMA NextVideoFields ==
  ASSUME NEW p \in ITSFields, p.videos # <<>>, ~p.enabled
  PROVE  LET q == getVideo(p, Tail(p.videos))
         IN /\ q \in ITSFields /\ q.videos = Tail(p.videos) /\ q.lessons = p.lessons
            /\ q.title = p.title /\ q.lessonNumber = p.lessonNumber
            /\ q.enabled => q.videos # <<>>
<1>1. p.videos \in Seq(Snapshots)
  BY DEF ITSFields
<1>2. Tail(p.videos) \in Seq(Snapshots)
  BY <1>1
<1> QED BY <1>2 DEF ITSFields, getVideo

LEMMA WriteDoneStep == Inv /\ WriteDone => Inv'
<1> SUFFICES ASSUME Inv, WriteDone PROVE Inv'
  OBVIOUS
<1>1. outbox # <<>> /\ outbox' = Tail(outbox)
      /\ UNCHANGED <<top, categoryRef, browsing, lessonQuery, opens, errors, alone>>
  BY DEF WriteDone
<1>2. PICK i \in Controllers : i = outbox[1].vc
  BY <1>1, VoterFields
<1>3. /\ Head(outbox) = outbox[1] /\ vc[i] \in ITSFields /\ vc[i].videos # <<>>
      /\ ~vc[i].enabled /\ PlaceOK(i) /\ vc[i].lessons # <<>>
  BY <1>1, <1>2, VoterFields
<1>4. /\ lessonRef \in Refs /\ errors' \in Nat /\ categoryRef \in Categories
      /\ vc = [vc EXCEPT ![i] = vc[i]] /\ videoQuery[i] = {}
      /\ videoQuery = [videoQuery EXCEPT ![i] = {}]
  <2>1. VoteOK(outbox[1])
    BY <1>1, TailOfOutbox
  <2> QED BY <1>1, <1>2, <2>1 DEF Inv, TypeOK, VoteOK
<1>5. vc[i].lessonNumber \in Nat /\ vc[i].lessons \in Seq(Lessons)
  BY <1>3 DEF ITSFields
<1>6. PICK n \in Nat : n = vc[i].lessonNumber + 1
  BY <1>5
<1>7. \/ nextLesson(i)
      \/ /\ vc' = [vc EXCEPT ![i] = getVideo(@, Tail(@.videos))]
         /\ UNCHANGED <<screen, lessonRef, videoQuery>>
  BY <1>2, <1>3 DEF WriteDone
<1>8. CASE nextLesson(i) /\ n < Len(vc[i].lessons)
  <2> DEFINE q == WithLesson(vc[i], n)
  <2>1. /\ lessonRef' = Append(categoryRef, vc[i].lessons[n + 1])
        /\ vc' = [vc EXCEPT ![i] = q]
        /\ videoQuery' = [videoQuery EXCEPT ![i] = {lessonRef'}] /\ screen' = screen
    BY <1>5, <1>6, <1>8 DEF nextLesson, getVideos, WithLesson
  <2>2. /\ q \in ITSFields /\ q.lessonNumber = n /\ q.title = vc[i].lessons[n + 1]
        /\ q.lessons = vc[i].lessons /\ q.videos = <<>> /\ ~q.enabled
    <3>1. n < Len(vc[i].lessons)
      BY <1>8
    <3>2. /\ q \in ITSFields /\ q.lessonNumber = n /\ q.title = vc[i].lessons[n + 1]
          /\ q.lessons = vc[i].lessons /\ q.videos = <<>> /\ q.enabled = vc[i].enabled
      BY <1>3, <3>1, NextLessonFields
    <3> QED BY <1>3, <3>2
  <2> HIDE DEF q
  <2>3. vc[i].lessons[n + 1] \in Lessons
    BY <1>5, <1>8
  <2>4. lessonRef' \in Refs
    BY <1>4, <2>1, <2>3, RefsOfCategories
  <2>5. PICK R \in SUBSET Refs : R = {lessonRef'}
    BY <2>4
  <2>6. videoQuery' = [videoQuery EXCEPT ![i] = R] /\ (\E r \in Refs : R = {r})
    BY <2>1, <2>4, <2>5
  <2>7. q.title = q.lessons[q.lessonNumber + 1] /\ q.lessons # <<>>
        /\ q.lessonNumber < Len(q.lessons)
    BY <1>3, <1>8, <2>2
  <2> QED BY <1>1, <1>2, <1>4, <2>1, <2>2, <2>4, <2>6, <2>7, VotedStep
<1>9. CASE nextLesson(i) /\ ~(n < Len(vc[i].lessons))
  <2>1. /\ vc' = [vc EXCEPT ![i] = vc[i]] /\ videoQuery' = [videoQuery EXCEPT ![i] = {}]
        /\ lessonRef' \in Refs /\ screen' = "badLessonIndex"
    BY <1>4, <1>5, <1>6, <1>9 DEF nextLesson
  <2>2. {} \in SUBSET Refs
    OBVIOUS
  <2> QED BY <1>1, <1>2, <1>3, <1>4, <2>1, <2>2, VotedStep DEF PlaceOK
<1>10. CASE /\ vc' = [vc EXCEPT ![i] = getVideo(@, Tail(@.videos))]
            /\ UNCHANGED <<screen, lessonRef, videoQuery>>
  <2> DEFINE q == getVideo(vc[i], Tail(vc[i].videos))
  <2>1. /\ q \in ITSFields /\ q.videos = Tail(vc[i].videos) /\ q.lessons = vc[i].lessons
        /\ q.title = vc[i].title /\ q.lessonNumber = vc[i].lessonNumber
        /\ q.enabled => q.videos # <<>>
    BY <1>3, NextVideoFields
  <2>2. vc' = [vc EXCEPT ![i] = q] /\ videoQuery' = [videoQuery EXCEPT ![i] = {}]
        /\ lessonRef' \in Refs /\ screen' = screen
    BY <1>4, <1>10
  <2> HIDE DEF q
  <2>3. {} \in SUBSET Refs
    OBVIOUS
  <2>4. /\ q.title # 0 => q.title = q.lessons[q.lessonNumber + 1]
        /\ q.lessons # <<>> /\ q.lessonNumber < Len(q.lessons)
    BY <1>3, <2>1 DEF PlaceOK
  <2> QED BY <1>1, <1>2, <1>4, <2>1, <2>2, <2>3, <2>4, VotedStep
<1> QED BY <1>7, <1>8, <1>9, <1>10

LEMMA WriteFailedStep == Inv /\ WriteFailed => Inv'
<1> SUFFICES ASSUME Inv, WriteFailed PROVE Inv'
  OBVIOUS
<1>1. /\ outbox # <<>> /\ outbox' = Tail(outbox)
      /\ UNCHANGED <<screen, top, vc, categoryRef, lessonRef, browsing, lessonQuery,
                     videoQuery, opens, alone>>
  BY DEF WriteFailed, globals, queries
<1>2. PICK i \in Controllers : i = outbox[1].vc
  BY <1>1, VoterFields
<1>3. /\ vc[i] \in ITSFields /\ vc[i].videos # <<>> /\ ~vc[i].enabled /\ PlaceOK(i)
      /\ vc[i].lessons # <<>>
  BY <1>1, <1>2, VoterFields
<1>4. /\ lessonRef' \in Refs /\ errors' \in Nat
      /\ vc' = [vc EXCEPT ![i] = vc[i]] /\ videoQuery' = [videoQuery EXCEPT ![i] = {}]
  <2>1. VoteOK(outbox[1])
    BY <1>1, TailOfOutbox
  <2> QED BY <1>1, <1>2, <2>1 DEF Inv, TypeOK, VoteOK, WriteFailed
<1>5. {} \in SUBSET Refs
  OBVIOUS
<1> QED BY <1>1, <1>2, <1>3, <1>4, <1>5, VotedStep DEF PlaceOK

LEMMA InvNext == Inv /\ [Next]_vars => Inv'
<1> SUFFICES ASSUME Inv, [Next]_vars PROVE Inv'
  OBVIOUS
<1> USE DEF globals, queries
<1>0. /\ TypeOK /\ 0 \in 0 .. MaxOpens
  BY ITSAssumption DEF Inv, ITSConstants
<1>1. CASE viewDidLoad
  BY <1>1, ViewDidLoadStep
<1>2. CASE GoBack
  <2>1. TypeOK'
    BY <1>0, <1>2 DEF GoBack, TypeOK
  <2> QED BY <1>2, <2>1, KeptStep DEF GoBack
<1>3. CASE BrowseCatalog
  <2>1. TypeOK'
    BY <1>0, <1>3 DEF BrowseCatalog, TypeOK
  <2> QED BY <1>3, <2>1, KeptStep DEF BrowseCatalog, Inv, NavigationInv
<1>4. CASE CatalogAnswers
  <2>1. categoryRef' \in Categories /\ lessonRef' \in Refs
    BY <1>0, <1>4, RefsOfCategories DEF CatalogAnswers, TypeOK
  <2>2. TypeOK'
    BY <1>0, <1>4, <2>1 DEF CatalogAnswers, TypeOK
  <2> QED BY <1>4, <2>2, KeptStep DEF CatalogAnswers, Inv, NavigationInv
<1>5. ASSUME NEW i \in Controllers, GetLessonsDone(i) PROVE Inv'
  BY <1>5, GetLessonsStep
<1>6. ASSUME NEW i \in Controllers, GetVideosDone(i) PROVE Inv'
  BY <1>6, GetVideosStep
<1>7. ASSUME NEW i \in Controllers, GetFailed(i) PROVE Inv'
  BY <1>7, GetFailedStep
<1>8. ASSUME NEW f \in Fields, OnButton(f) PROVE Inv'
  <2>1. /\ screen = "its" /\ vc[top].enabled /\ Vote(f) /\ screen' = "its"
        /\ UNCHANGED <<top, categoryRef, lessonRef, browsing, lessonQuery, videoQuery, opens,
                       errors, alone>>
    BY <1>8 DEF OnButton
  <2> QED BY <2>1, VoteStep
<1>9. CASE onIrrelevanceButton
  <2>1. TypeOK'
    BY <1>0, <1>9 DEF onIrrelevanceButton, TypeOK
  <2> QED BY <1>9, <2>1, KeptStep DEF onIrrelevanceButton
<1>10. CASE AlertYes
  <2>1. /\ screen = "alert" /\ vc[top].enabled /\ Vote("Irrelevance") /\ screen' = "its"
        /\ UNCHANGED <<top, categoryRef, lessonRef, browsing, lessonQuery, videoQuery, opens,
                       errors, alone>>
    BY <1>10 DEF AlertYes, Inv, NavigationInv
  <2> QED BY <2>1, VoteStep DEF Fields
<1>11. CASE AlertNo
  <2>1. TypeOK'
    BY <1>0, <1>11 DEF AlertNo, TypeOK
  <2> QED BY <1>11, <2>1, KeptStep DEF AlertNo
<1>12. CASE WriteDone
  BY <1>12, WriteDoneStep
<1>13. CASE WriteFailed
  BY <1>13, WriteFailedStep
<1>14. CASE UNCHANGED vars
  <2>1. TypeOK'
    BY <1>0, <1>14 DEF vars, TypeOK
  <2> QED BY <1>14, <2>1, KeptStep DEF vars, Inv, NavigationInv
<1> QED BY <1>1, <1>2, <1>3, <1>4, <1>5, <1>6, <1>7, <1>8, <1>9, <1>10, <1>11, <1>12,
           <1>13, <1>14 DEF Next

-----------------------------------------------------------------------------
(* The end of the app, and the controller that is alone.                   *)

\* Only an answer without lessons, or a vote on the last lesson, ends the app.
LEMMA EndStep == Inv /\ EndInv /\ [Next]_vars => EndInv'
<1> SUFFICES ASSUME Inv, EndInv, [Next]_vars, ~Alive'
             PROVE  \/ \E i \in Controllers : /\ vc'[i].lessons # <<>>
                                              /\ vc'[i].lessonNumber = Len(vc'[i].lessons) - 1
                    \/ \E i \in Controllers :
                         /\ opens' >= i
                         /\ vc'[i].lessons = <<>> /\ lessonQuery'[i] = {}
  BY DEF EndInv
<1> USE DEF globals, queries
<1>1. CASE UNCHANGED vars
  BY <1>1 DEF vars, EndInv, Alive
<1>2. ASSUME NEW i \in Controllers, GetLessonsDone(i)
      PROVE  opens' >= i /\ vc'[i].lessons = <<>> /\ lessonQuery'[i] = {}
  <2>1. PICK c \in lessonQuery[i] : \E list \in {<<>>} \union LessonLists(c) :
          \/ UNCHANGED screen
          \/ UNCHANGED vc
    BY <1>2 DEF GetLessonsDone
  <2>2. UNCHANGED vc /\ UNCHANGED opens /\ Alive
    BY <1>2 DEF GetLessonsDone, Alive
  <2>3. vc[i] = Fresh /\ ~(i > opens) /\ i \in Nat /\ opens \in Nat
    BY <2>1 DEF Inv, ControllerInv, QueriesOK, TypeOK, Controllers
  <2>4. lessonQuery'[i] = {}
    BY <1>2 DEF GetLessonsDone, Inv, TypeOK, None
  <2> QED BY <2>2, <2>3, <2>4, FreshIsTyped
<1>3. ASSUME WriteDone
      PROVE  \E i \in Controllers : /\ vc'[i].lessons # <<>>
                                    /\ vc'[i].lessonNumber = Len(vc'[i].lessons) - 1
  <2>1. outbox # <<>> /\ Alive
    BY <1>3 DEF WriteDone
  <2>2. PICK i \in Controllers : i = outbox[1].vc
    BY <2>1, VoterFields
  <2>3. /\ Head(outbox) = outbox[1] /\ vc[i] \in ITSFields
        /\ PlaceOK(i) /\ vc[i].lessons # <<>>
    BY <2>1, <2>2, VoterFields
  <2>4. vc' = vc /\ vc[i].lessonNumber + 1 >= Len(vc[i].lessons)
    BY <1>3, <2>1, <2>2, <2>3 DEF WriteDone, nextLesson, Alive
  <2>5. vc[i].lessonNumber \in Nat /\ vc[i].lessons \in Seq(Lessons)
    BY <2>3 DEF ITSFields
  <2>6. Len(vc[i].lessons) \in Nat /\ vc[i].lessonNumber < Len(vc[i].lessons)
    BY <2>3, <2>5 DEF PlaceOK
  <2>7. vc[i].lessonNumber = Len(vc[i].lessons) - 1
    BY <2>4, <2>5, <2>6
  <2> QED BY <2>2, <2>3, <2>4, <2>7
<1>4. \/ UNCHANGED vars
      \/ \E i \in Controllers : GetLessonsDone(i)
      \/ WriteDone
  <2>1. ASSUME NEW i \in Controllers, GetVideosDone(i) \/ GetFailed(i) PROVE FALSE
    BY <2>1 DEF GetVideosDone, GetFailed, Alive
  <2>2. ASSUME NEW f \in Fields, OnButton(f) PROVE FALSE
    BY <2>2 DEF OnButton, Alive
  <2>3. ~(viewDidLoad \/ GoBack \/ BrowseCatalog \/ CatalogAnswers)
    BY DEF viewDidLoad, GoBack, BrowseCatalog, CatalogAnswers, Alive
  <2>4. ~(onIrrelevanceButton \/ AlertYes \/ AlertNo \/ WriteFailed)
    BY DEF onIrrelevanceButton, AlertYes, AlertNo, WriteFailed, Alive
  <2> QED BY <2>1, <2>2, <2>3, <2>4 DEF Next
<1> QED BY <1>1, <1>2, <1>3, <1>4

\* Alone, the controller that an answer is for is the one on the stack.
LEMMA AloneAnswer ==
  ASSUME Inv, AloneInv, alone, NEW i \in Controllers, lessonQuery[i] \union videoQuery[i] # {}
  PROVE  i = top
BY DEF AloneInv

LEMMA AloneLessons ==
  ASSUME Inv, AloneInv, NEW i \in Controllers, GetLessonsDone(i), Inv'
  PROVE  AloneInv'
<1> USE DEF Inv
<1> SUFFICES ASSUME alone PROVE AloneInv'
  BY DEF AloneInv, GetLessonsDone
<1>0. PICK c \in lessonQuery[i] : \E list \in {<<>>} \union LessonLists(c) :
        \/ /\ list # <<>>
           /\ getVideos(i, [vc[i] EXCEPT !.lessons = list, !.title = list[1]],
                        lessonRef)
           /\ UNCHANGED screen
        \/ /\ list = <<>>
           /\ screen' = "badLessonIndex"
           /\ UNCHANGED <<vc, videoQuery>>
  BY DEF GetLessonsDone
<1>1. PICK list \in {<<>>} \union LessonLists(c) :
        \/ /\ list # <<>>
           /\ getVideos(i, [vc[i] EXCEPT !.lessons = list, !.title = list[1]],
                        lessonRef)
           /\ UNCHANGED screen
        \/ /\ list = <<>>
           /\ screen' = "badLessonIndex"
           /\ UNCHANGED <<vc, videoQuery>>
  BY <1>0
<1>2. /\ lessonQuery' = [lessonQuery EXCEPT ![i] = {}]
      /\ UNCHANGED <<top, categoryRef, lessonRef, browsing, outbox, opens, alone>>
  BY DEF GetLessonsDone, None, globals
<1>3. i = top /\ c = categoryRef /\ vc[i] = Fresh /\ videoQuery[i] = {}
  BY <1>0, AloneAnswer DEF AloneInv, ControllerInv, QueriesOK
<1>4. ASSUME NEW j \in Controllers, j # top
      PROVE  lessonQuery'[j] = {} /\ videoQuery'[j] = {}
  <2>1. lessonQuery[j] = {} /\ videoQuery[j] = {}
    BY <1>4 DEF AloneInv
  <2> QED BY <1>1, <1>2, <1>3, <1>4, <2>1 DEF TypeOK, getVideos
<1>5. lessonQuery'[i] = {} /\ videoQuery'[i] \subseteq {lessonRef}
  BY <1>1, <1>2, <1>3 DEF TypeOK, getVideos
<1>6. /\ vc'[i].videos = <<>> /\ vc'[i].lessonNumber = 0
      /\ vc'[i].lessons = <<>> \/ vc'[i].lessons = list
  <2>1. CASE list = <<>>
    BY <1>1, <1>3, <2>1, FreshIsTyped
  <2>2. CASE list # <<>>
    <3> DEFINE p == [vc[i] EXCEPT !.lessons = list, !.title = list[1]]
    <3>1. list \in Seq(Lessons) /\ Len(list) \in Nat /\ Len(list) > 0 /\ list[1] \in Lessons
      BY <1>1, <2>2, LessonListIsASequence
    <3>2. p \in ITSFields /\ p.lessons = list /\ p.lessonNumber = 0
      BY <1>3, <3>1, FreshIsTyped DEF ITSFields
    <3>3. vc'[i] = [p EXCEPT !.videos = <<>>]
      BY <1>1, <2>2 DEF getVideos, TypeOK
    <3> HIDE DEF p
    <3> QED BY <3>2, <3>3 DEF ITSFields
  <2> QED BY <2>1, <2>2
<1>7. \A k \in 1 .. Len(vc'[i].lessons) : CategoryOf[vc'[i].lessons[k]] = categoryRef
  <2>1. CASE list = <<>> \/ vc'[i].lessons = <<>>
    BY <1>6, <2>1
  <2>2. CASE list \in LessonLists(c) /\ vc'[i].lessons = list
    BY <1>3, <2>2, LessonListIsASequence
  <2> QED BY <1>6, <2>1, <2>2
<1>8. \A k \in 1 .. Len(vc'[i].videos) : vc'[i].videos[k].from = lessonRef
  BY <1>6
<1> QED BY <1>2, <1>3, <1>4, <1>5, <1>6, <1>7, <1>8 DEF AloneInv

LEMMA AloneVideos ==
  ASSUME Inv, AloneInv, NEW i \in Controllers, GetVideosDone(i), Inv'
  PROVE  AloneInv'
<1> USE DEF Inv
<1> SUFFICES ASSUME alone PROVE AloneInv'
  BY DEF AloneInv, GetVideosDone
<1>0. PICK ref \in videoQuery[i] : \E s \in {<<>>} \union VideoLists(ref) :
        vc' = [vc EXCEPT ![i] = getVideo(@, @.videos \o
                 [k \in DOMAIN s |-> [id |-> s[k], from |-> ref]])]
  BY DEF GetVideosDone
<1>1. PICK s \in {<<>>} \union VideoLists(ref) :
        vc' = [vc EXCEPT ![i] = getVideo(@, @.videos \o
                 [k \in DOMAIN s |-> [id |-> s[k], from |-> ref]])]
  BY <1>0
<1>2. /\ videoQuery' = [videoQuery EXCEPT ![i] = {}]
      /\ UNCHANGED <<top, categoryRef, lessonRef, browsing, lessonQuery, outbox, opens, alone>>
  BY DEF GetVideosDone, None, globals
<1>3. /\ ref \in Refs /\ vc[i].videos = <<>> /\ vc[i] \in ITSFields
      /\ i = top /\ ref = lessonRef
  BY <1>0, AloneAnswer DEF ControllerInv, QueriesOK, TypeOK, AloneInv
<1> DEFINE list == [k \in DOMAIN s |-> [id |-> s[k], from |-> ref]]
<1>4. list \in Seq(Snapshots) /\ \A k \in 1 .. Len(list) : list[k].from = ref
  <2>1. list = [k \in DOMAIN s |-> [id |-> s[k], from |-> ref]]
    OBVIOUS
  <2> HIDE DEF list
  <2> QED BY <1>3, <2>1, SnapshotsOfAnswer
<1>5. vc'[i] = getVideo(vc[i], list)
  <2>1. vc[i].videos \o list = list
    BY <1>3, <1>4
  <2> QED BY <1>1, <2>1 DEF TypeOK
<1> HIDE DEF list
<1>6. /\ vc'[i].videos = list /\ vc'[i].lessons = vc[i].lessons /\ vc'[i].title = vc[i].title
      /\ vc'[i].lessonNumber = vc[i].lessonNumber
  BY <1>3, <1>4, <1>5 DEF getVideo, ITSFields
<1>7. ASSUME NEW j \in Controllers, j # top
      PROVE  lessonQuery'[j] = {} /\ videoQuery'[j] = {}
  BY <1>2, <1>3, <1>7 DEF TypeOK, AloneInv
<1>8. videoQuery'[i] = {}
  BY <1>2 DEF TypeOK
<1> QED BY <1>2, <1>3, <1>4, <1>6, <1>7, <1>8 DEF AloneInv

\* The student votes in the lesson that lessonRef is.
LEMMA AloneVote ==
  ASSUME Inv, AloneInv, screen \in {"its", "alert"}, NEW f \in Fields, Vote(f),
         UNCHANGED <<top, categoryRef, lessonRef, browsing, lessonQuery, videoQuery, opens,
                     alone>>
  PROVE  AloneInv'
<1> USE DEF Inv
<1>1. top \in Controllers /\ vc[top] \in ITSFields /\ outbox \in Seq(Votes)
  BY DEF TypeOK
<1>2. /\ vc'[top].videos = vc[top].videos /\ vc'[top].lessons = vc[top].lessons
      /\ vc'[top].lessonNumber = vc[top].lessonNumber /\ vc'[top].title = vc[top].title
  BY <1>1 DEF Vote, TypeOK, ITSFields
<1>3. PICK w : w.vc = top /\ w.ref = lessonRef /\ outbox' = Append(outbox, w)
  BY DEF Vote
<1>4. ASSUME alone
      PROVE  \A k \in 1 .. Len(outbox') : outbox'[k].vc = top /\ outbox'[k].ref = lessonRef
  <2>1. Len(outbox') = Len(outbox) + 1 /\ Len(outbox) \in Nat
        /\ outbox'[Len(outbox) + 1] = w
        /\ \A k \in 1 .. Len(outbox) : outbox'[k] = outbox[k]
    BY <1>1, <1>3
  <2>2. \A k \in 1 .. Len(outbox) : outbox[k].vc = top /\ outbox[k].ref = lessonRef
    BY <1>4 DEF AloneInv
  <2>3. \A k \in 1 .. Len(outbox') : k = Len(outbox) + 1 \/ k \in 1 .. Len(outbox)
    BY <2>1
  <2> QED BY <1>3, <2>1, <2>2, <2>3
<1> QED BY <1>2, <1>4 DEF AloneInv

\* The answer to a vote of the controller that is alone: lessonRef is the next
\* lesson with no vote under way, or stays.
LEMMA AloneWrite ==
  ASSUME Inv, AloneInv, WriteDone, Inv'
  PROVE  AloneInv'
<1> USE DEF Inv
<1>1. /\ outbox # <<>> /\ outbox' = Tail(outbox)
      /\ UNCHANGED <<top, categoryRef, browsing, lessonQuery, opens, alone>>
  BY DEF WriteDone
<1> SUFFICES ASSUME alone PROVE AloneInv'
  BY <1>1 DEF AloneInv
<1>2. PICK i \in Controllers : i = outbox[1].vc
  BY <1>1, VoterFields
<1>3. /\ Head(outbox) = outbox[1] /\ vc[i] \in ITSFields /\ vc[i].videos # <<>>
      /\ ~vc[i].enabled /\ PlaceOK(i) /\ vc[i].lessons # <<>>
  BY <1>1, <1>2, VoterFields
<1>4. 1 \in 1 .. Len(outbox) /\ outbox \in Seq(Votes)
  BY <1>1 DEF TypeOK
<1>5. i = top /\ Len(outbox') \in Nat /\ \A k \in 1 .. Len(outbox') : FALSE
  <2>1. i = top
    BY <1>2, <1>4 DEF AloneInv
  <2>2. \A k \in 1 .. Len(outbox') : outbox'[k] = outbox[k + 1] /\ outbox'[k].vc # i
                                     /\ k + 1 \in 1 .. Len(outbox)
    BY <1>1, <1>2, TailOfOutbox
  <2>3. \A k \in 1 .. Len(outbox) : outbox[k].vc = top
    BY DEF AloneInv
  <2> QED BY <1>1, <2>1, <2>2, <2>3, TailOfOutbox
<1>6. vc[i].lessonNumber \in Nat /\ vc[i].lessons \in Seq(Lessons)
      /\ vc[i].videos \in Seq(Snapshots)
  BY <1>3 DEF ITSFields
<1>7. PICK n \in Nat : n = vc[i].lessonNumber + 1
  BY <1>6
<1>8. \/ nextLesson(i)
      \/ /\ vc' = [vc EXCEPT ![i] = getVideo(@, Tail(@.videos))]
         /\ UNCHANGED <<screen, lessonRef, videoQuery>>
  BY <1>2, <1>3 DEF WriteDone
<1>9. CASE nextLesson(i) /\ n < Len(vc[i].lessons)
  <2>1. /\ lessonRef' = Append(categoryRef, vc[i].lessons[n + 1])
        /\ vc'[i] = WithLesson(vc[i], n)
        /\ videoQuery' = [videoQuery EXCEPT ![i] = {lessonRef'}]
    BY <1>6, <1>7, <1>9 DEF nextLesson, getVideos, WithLesson, TypeOK
  <2>2. n < Len(vc[i].lessons)
    BY <1>9
  <2>3. /\ vc'[i].title = vc[i].lessons[n + 1] /\ vc'[i].lessons = vc[i].lessons
        /\ vc'[i].videos = <<>>
    BY <1>3, <2>1, <2>2, NextLessonFields
  <2>4. n + 1 \in 1 .. Len(vc[i].lessons)
    BY <1>6, <2>2
  <2>5. lessonRef' = RefOf(vc'[i].title)
    BY <1>5, <2>1, <2>3, <2>4 DEF AloneInv, RefOf
  <2>6. ASSUME NEW j \in Controllers, j # top
        PROVE  lessonQuery'[j] = {} /\ videoQuery'[j] = {}
    BY <1>1, <1>5, <2>1, <2>6 DEF TypeOK, AloneInv
  <2>7. videoQuery'[i] = {lessonRef'}
    BY <2>1 DEF TypeOK
  <2>8. \A k \in 1 .. Len(vc'[i].videos) : vc'[i].videos[k].from = lessonRef'
    BY <2>3
  <2> QED BY <1>1, <1>5, <2>3, <2>5, <2>6, <2>7, <2>8 DEF AloneInv
<1>10. CASE nextLesson(i) /\ ~(n < Len(vc[i].lessons))
  <2>1. UNCHANGED <<vc, lessonRef, videoQuery>>
    BY <1>6, <1>7, <1>10 DEF nextLesson
  <2> QED BY <1>1, <1>5, <2>1 DEF AloneInv
<1>11. CASE /\ vc' = [vc EXCEPT ![i] = getVideo(@, Tail(@.videos))]
            /\ UNCHANGED <<screen, lessonRef, videoQuery>>
  <2>1. vc'[i] = getVideo(vc[i], Tail(vc[i].videos))
    BY <1>11 DEF TypeOK
  <2>2. /\ vc'[i].videos = Tail(vc[i].videos) /\ vc'[i].lessons = vc[i].lessons
        /\ vc'[i].title = vc[i].title /\ vc'[i].lessonNumber = vc[i].lessonNumber
    BY <1>3, <2>1, NextVideoFields
  <2>3. \A k \in 1 .. Len(vc'[i].videos) :
          k + 1 \in 1 .. Len(vc[i].videos) /\ vc'[i].videos[k] = vc[i].videos[k + 1]
    BY <1>3, <1>6, <2>2
  <2>4. \A k \in 1 .. Len(vc'[i].videos) : vc'[i].videos[k].from = lessonRef
    <3>1. \A k \in 1 .. Len(vc[i].videos) : vc[i].videos[k].from = lessonRef
      BY <1>5 DEF AloneInv
    <3> QED BY <2>3, <3>1
  <2> QED BY <1>1, <1>5, <1>11, <2>2, <2>4 DEF AloneInv
<1> QED BY <1>8, <1>9, <1>10, <1>11

LEMMA AloneLoad ==
  ASSUME Inv, viewDidLoad
  PROVE  AloneInv'
<1> USE DEF Inv
<1>1. /\ opens < MaxOpens /\ top' = opens + 1
      /\ lessonQuery' = [lessonQuery EXCEPT ![opens + 1] = {categoryRef}]
      /\ UNCHANGED <<vc, categoryRef, lessonRef, browsing, videoQuery, outbox>>
  BY DEF viewDidLoad, globals
<1>2. opens \in Nat /\ opens + 1 \in Controllers
  BY <1>1, ITSAssumption DEF TypeOK, Controllers, ITSConstants
<1>3. PICK n \in Controllers : n = opens + 1
  BY <1>2
<1>4. n > opens /\ n # 0 /\ top' = n
  BY <1>1, <1>2, <1>3
<1>5. vc[n] = Fresh /\ videoQuery[n] = {} /\ lessonQuery'[n] = {categoryRef}
  BY <1>1, <1>3, <1>4 DEF ControllerInv, QueriesOK, TypeOK
<1> SUFFICES ASSUME alone' PROVE AloneInv'
  BY DEF AloneInv
<1>6. /\ ~browsing /\ outbox = <<>>
      /\ \A i \in Controllers : lessonQuery[i] = {} /\ videoQuery[i] = {}
  BY DEF viewDidLoad
<1>7. ASSUME NEW j \in Controllers, j # n
      PROVE  lessonQuery'[j] = {} /\ videoQuery'[j] = {}
  BY <1>1, <1>3, <1>6, <1>7 DEF TypeOK
<1>8. /\ vc'[n].videos = <<>> /\ vc'[n].lessons = <<>> /\ vc'[n].lessonNumber = 0
      /\ \A k \in 1 .. Len(outbox') : FALSE
  BY <1>1, <1>5, <1>6, FreshIsTyped
<1> QED BY <1>1, <1>4, <1>5, <1>6, <1>7, <1>8 DEF AloneInv

LEMMA AloneStep == Inv /\ AloneInv /\ [Next]_vars /\ Inv' => AloneInv'
<1> SUFFICES ASSUME Inv, AloneInv, [Next]_vars, Inv' PROVE AloneInv'
  OBVIOUS
<1> USE DEF globals, queries
<1>1. CASE viewDidLoad
  BY <1>1, AloneLoad
<1>2. CASE GoBack \/ BrowseCatalog
  BY <1>2 DEF GoBack, BrowseCatalog, AloneInv
<1>3. CASE CatalogAnswers
  BY <1>3 DEF CatalogAnswers, AloneInv
<1>4. ASSUME NEW i \in Controllers, GetLessonsDone(i) PROVE AloneInv'
  BY <1>4, AloneLessons
<1>5. ASSUME NEW i \in Controllers, GetVideosDone(i) PROVE AloneInv'
  BY <1>5, AloneVideos
<1>6. ASSUME NEW i \in Controllers, GetFailed(i) PROVE AloneInv'
  <2>1. \A j \in Controllers : /\ lessonQuery'[j] = lessonQuery[j] \/ lessonQuery'[j] = {}
                               /\ videoQuery'[j] = videoQuery[j] \/ videoQuery'[j] = {}
    BY <1>6 DEF GetFailed, None, Inv, TypeOK
  <2>2. alone => top \in Controllers
    BY DEF AloneInv, Inv, TypeOK, Controllers
  <2>3. UNCHANGED <<top, vc, categoryRef, lessonRef, browsing, outbox, alone>>
    BY <1>6 DEF GetFailed
  <2> QED BY <2>1, <2>2, <2>3 DEF AloneInv
<1>7. ASSUME NEW f \in Fields, OnButton(f) PROVE AloneInv'
  <2>1. /\ screen \in {"its", "alert"} /\ Vote(f)
        /\ UNCHANGED <<top, categoryRef, lessonRef, browsing, lessonQuery, videoQuery, opens,
                       alone>>
    BY <1>7 DEF OnButton
  <2> QED BY <2>1, AloneVote
<1>8. CASE AlertYes
  <2>1. /\ screen \in {"its", "alert"} /\ Vote("Irrelevance") /\ "Irrelevance" \in Fields
        /\ UNCHANGED <<top, categoryRef, lessonRef, browsing, lessonQuery, videoQuery, opens,
                       alone>>
    BY <1>8 DEF AlertYes, Fields
  <2> QED BY <2>1, AloneVote
<1>9. CASE WriteDone
  BY <1>9, AloneWrite
<1>10. CASE WriteFailed
  <2>1. UNCHANGED <<top, vc, categoryRef, lessonRef, browsing, lessonQuery, videoQuery, alone>>
    BY <1>10 DEF WriteFailed
  <2>2. \A k \in 1 .. Len(outbox') : k + 1 \in 1 .. Len(outbox) /\ outbox'[k] = outbox[k + 1]
    BY <1>10, TailOfOutbox DEF WriteFailed
  <2>3. alone => \A k \in 1 .. Len(outbox') :
                   outbox'[k].vc = top /\ outbox'[k].ref = lessonRef
    BY <2>2 DEF AloneInv
  <2> QED BY <2>1, <2>3 DEF AloneInv
<1>11. CASE onIrrelevanceButton \/ AlertNo \/ UNCHANGED vars
  BY <1>11 DEF onIrrelevanceButton, AlertNo, vars, AloneInv
<1> QED BY <1>1, <1>2, <1>3, <1>4, <1>5, <1>6, <1>7, <1>8, <1>9, <1>10, <1>11 DEF Next

-----------------------------------------------------------------------------
(* The theorems.                                                           *)

LEMMA IInvAlways == Spec => []IInv
<1>1. Init => IInv
  <2>1. Init => EndInv /\ AloneInv
    BY DEF Init, EndInv, AloneInv, Alive
  <2> QED BY <2>1, InvInit DEF IInv
<1>2. IInv /\ [Next]_vars => IInv'
  BY InvNext, EndStep, AloneStep DEF IInv
<1> QED BY <1>1, <1>2, PTL DEF Spec

\* Every field, global, query and vote keeps its type whatever the order of the
\* answers (ITSViewController's callbacks and the globals they assign).
THEOREM ITSTypes == Spec => []TypeOK
<1>1. IInv => TypeOK
  BY DEF IInv, Inv
<1> QED BY <1>1, IInvAlways, PTL

\* A controller waits for its lessons, for its videos or for one vote, never
\* for two of them, and the vote is on the first video of its list
\* (buttonsAreEnabled, getVideos, seeOtherVideo).
THEOREM OneAnswerCorrect == Spec => []OneAnswerAtATime
<1>1. IInv => OneAnswerAtATime
  <2> SUFFICES ASSUME Inv, NEW i \in Controllers
               PROVE  LET waiting == {k \in DOMAIN outbox : outbox[k].vc = i} IN
                      /\ Cardinality(lessonQuery[i]) + Cardinality(videoQuery[i])
                           + Cardinality(waiting) <= 1
                      /\ lessonQuery[i] \union videoQuery[i] # {} => ~vc[i].enabled
                      /\ \A k \in waiting : /\ ~vc[i].enabled /\ vc[i].videos # <<>>
                                            /\ Head(vc[i].videos).id = outbox[k].id
                      /\ vc[i].enabled => vc[i].videos # <<>>
    BY DEF OneAnswerAtATime, IInv
  <2> DEFINE waiting == {k \in DOMAIN outbox : outbox[k].vc = i}
  <2>1. outbox \in Seq(Votes) /\ DOMAIN outbox = 1 .. Len(outbox)
    BY DEF Inv, TypeOK
  <2>2. QueriesOK(i) /\ PlaceOK(i) /\ vc[i] \in ITSFields
    BY DEF Inv, ControllerInv, TypeOK
  <2>3. vc[i].videos \in Seq(Snapshots)
    BY <2>2 DEF ITSFields
  <2>4. \A k \in waiting : VoteOK(outbox[k]) /\ outbox[k].vc = i
    BY <2>1 DEF Inv, OutboxInv
  <2>5. \A j, k \in waiting : j = k
    BY <2>1 DEF Inv, OutboxInv
  <2>6. Cardinality({}) = 0 /\ \A x : Cardinality({x}) = 1
    BY FS_EmptySet, FS_Singleton
  <2>7. waiting = {} \/ \E k : waiting = {k}
    BY <2>5
  <2>8. waiting # {} => lessonQuery[i] = {} /\ videoQuery[i] = {}
    BY <2>4 DEF VoteOK
  <2>9. \A k \in waiting : /\ ~vc[i].enabled /\ vc[i].videos # <<>>
                           /\ vc[i].videos[1].id = outbox[k].id
    BY <2>4 DEF VoteOK
  <2> HIDE DEF waiting
  <2>10. Cardinality(waiting) \in {0, 1} /\ (waiting = {} => Cardinality(waiting) = 0)
    BY <2>6, <2>7
  <2>11. /\ Cardinality(lessonQuery[i]) \in {0, 1} /\ Cardinality(videoQuery[i]) \in {0, 1}
         /\ lessonQuery[i] = {} => Cardinality(lessonQuery[i]) = 0
         /\ videoQuery[i] = {} => Cardinality(videoQuery[i]) = 0
         /\ lessonQuery[i] = {} \/ videoQuery[i] = {}
    BY <2>2, <2>6 DEF QueriesOK
  <2>12. Cardinality(lessonQuery[i]) + Cardinality(videoQuery[i]) + Cardinality(waiting) <= 1
    BY <2>8, <2>10, <2>11
  <2>13. lessonQuery[i] \union videoQuery[i] # {} => ~vc[i].enabled
    BY <2>2, FreshIsTyped DEF QueriesOK
  <2>14. vc[i].enabled => vc[i].videos # <<>>
    BY <2>2 DEF PlaceOK
  <2>15. vc[i].videos # <<>> => Head(vc[i].videos) = vc[i].videos[1]
    BY <2>3
  <2> QED BY <2>9, <2>12, <2>13, <2>14, <2>15 DEF waiting
<1> QED BY <1>1, IInvAlways, PTL

\* A student who leaves the catalog alone votes in the lesson the video was
\* listed in, though lessonRef is read again when the vote is written
\* (onComprehensionButton, onIncomprehensionButton, getVideos, nextLesson).
THEOREM VoteCorrect == Spec => []VoteIsInItsLesson
<1>1. IInv => VoteIsInItsLesson
  <2> SUFFICES ASSUME IInv, alone, NEW k \in DOMAIN outbox
               PROVE  outbox[k].ref = Head(vc[outbox[k].vc].videos).from
    BY DEF VoteIsInItsLesson
  <2>1. outbox \in Seq(Votes) /\ k \in 1 .. Len(outbox)
    BY DEF IInv, Inv, TypeOK
  <2>2. VoteOK(outbox[k]) /\ outbox[k].vc = top /\ outbox[k].ref = lessonRef
    BY <2>1 DEF IInv, Inv, OutboxInv, AloneInv
  <2>3. outbox[k] \in Votes
    BY <2>1
  <2>4. top \in Controllers
    BY <2>2, <2>3 DEF Votes
  <2>5. vc[top].videos \in Seq(Snapshots) /\ vc[top].videos # <<>>
    BY <2>2, <2>4 DEF IInv, Inv, TypeOK, ITSFields, VoteOK
  <2>6. Head(vc[top].videos) = vc[top].videos[1] /\ 1 \in 1 .. Len(vc[top].videos)
    BY <2>5
  <2>7. vc[top].videos[1].from = lessonRef
    BY <2>6 DEF IInv, AloneInv
  <2> QED BY <2>2, <2>6, <2>7
<1> QED BY <1>1, IInvAlways, PTL

\* From the second lesson on, the videos such a student sees are those of the
\* lesson in the title: nextLesson sets both before it asks for the videos
\* (nextLesson, getVideos).
THEOREM TitleCorrect == Spec => []TitleMatchesAfterNext
<1>1. IInv => TitleMatchesAfterNext
  <2> SUFFICES ASSUME IInv, alone, top # 0, vc[top].lessonNumber > 0,
                      NEW k \in DOMAIN vc[top].videos
               PROVE  vc[top].videos[k].from = RefOf(vc[top].title)
    BY DEF TitleMatchesAfterNext
  <2>1. top \in Controllers
    BY DEF IInv, Inv, TypeOK, Controllers
  <2>2. vc[top].videos \in Seq(Snapshots)
    BY <2>1 DEF IInv, Inv, TypeOK, ITSFields
  <2>3. k \in 1 .. Len(vc[top].videos)
    BY <2>2
  <2> QED BY <2>3 DEF IInv, AloneInv
<1> QED BY <1>1, IInvAlways, PTL

\* A controller takes the lessons of its category in order and leaves none out:
\* an index is out of range only in a category without lessons or after the
\* last lesson was understood (viewDidLoad, nextLesson).
THEOREM LessonsReached == Spec => []EveryLessonIsReached
<1>1. IInv => EveryLessonIsReached
  BY DEF IInv, Inv, EndInv, ControllerInv, PlaceOK, EveryLessonIsReached
<1> QED BY <1>1, IInvAlways, PTL
=============================================================================
