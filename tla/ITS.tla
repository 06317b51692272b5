-------------------------------- MODULE ITS ---------------------------------
(***************************************************************************)
(* The lessons of a category, one after the other: ITSViewController on    *)
(* one device.  The lesson whose videos are fetched and voted on is the    *)
(* global lessonRef, which the catalog and the completions of controllers  *)
(* that have left the screen change as well; the title and the position    *)
(* are fields of the controller.                                           *)
(***************************************************************************)
EXTENDS Integers, Sequences, FiniteSets, SequencesExt

CONSTANTS
  Lessons,      \* lessons, numbered by "Id"
  CategoryOf,   \* the category each lesson is in: the path of its document
  Listed,       \* the videos of each lesson, numbered in the order of their ids
  Score,        \* the score of each video in each lesson
  ITSLessonRef, \* the lesson the app starts with
  CatalogRefs,  \* documents the catalog may take for the lesson opened
  MaxOpens,     \* bound: ITSViewControllers created
  MaxErrors     \* bound: Firestore calls that fail

Videos == UNION {Listed[l] : l \in Lessons}

ITSConstants ==
  /\ Lessons \subseteq Nat
  /\ IsFiniteSet(Lessons)
  /\ \A l \in Lessons : CategoryOf[l] \in Seq(Nat)
  /\ \A r \in CatalogRefs : r \in Seq(Nat) /\ r # <<>>
  /\ \A l \in Lessons : Listed[l] \subseteq Nat /\ IsFiniteSet(Listed[l])
  /\ \A l \in Lessons : Score[l] \in [Listed[l] -> Int]
  /\ ITSLessonRef \in Lessons
  /\ MaxOpens \in Nat
  /\ MaxErrors \in Nat

ASSUME ITSAssumption == ITSConstants

VARIABLES
  screen,       \* what is shown; an index trap ends the app
  top,          \* the ITSViewController on the navigation stack, 0 if none
  vc,           \* fields of each ITSViewController
  categoryRef,  \* global
  lessonRef,    \* global
  browsing,     \* a query of the catalog is under way
  lessonQuery,  \* the category whose lessons a controller waits for
  videoQuery,   \* the lesson whose videos a controller waits for
  outbox,       \* votes the server has not answered, oldest first
  opens,        \* ITSViewControllers created
  errors,       \* calls that have failed
  alone         \* history: since the controller on the stack was created
                \* nothing else could change lessonRef

globals == <<categoryRef, lessonRef>>
queries == <<lessonQuery, videoQuery>>
vars == <<screen, top, vc, globals, browsing, queries, outbox, opens, errors,
          alone>>

Controllers == 1 .. MaxOpens

RefOf(l) == Append(CategoryOf[l], l)

\* What categoryRef and lessonRef may be: a lesson need not be in the
\* category, and the document need not exist.
Categories == {CategoryOf[l] : l \in Lessons} \union {Front(r) : r \in CatalogRefs}

Refs == {r \in Seq(Nat) :
           \/ r \in CatalogRefs
           \/ r # <<>> /\ Front(r) \in Categories /\ Last(r) \in Lessons}

\* The "Content" collection of a reference.
Content(ref) == UNION {Listed[l] : l \in {k \in Lessons : RefOf(k) = ref}}

\* Pending queries: a set with the reference, or none.
None == {}

\* from: the reference a video was fetched from (not a field of the program).
Snapshots == [id: Videos, from: Refs]

Fields == {"Comprehension", "Incomprehension", "Irrelevance"}

Votes == [vc: Controllers, ref: Refs, id: Videos, field: Fields]

\* title 0: none yet.
ITSFields == [lessons: Seq(Lessons), lessonNumber: Nat, title: Lessons \union {0},
              videos: Seq(Snapshots), enabled: BOOLEAN]

\* Mutant: numbered from -1, for a nextLesson that counts up first.
Fresh_FromMinusOne == [lessons |-> <<>>, lessonNumber |-> -1, title |-> 0,
                       videos |-> <<>>, enabled |-> FALSE]

\* The fields of a new controller.
Fresh == [lessons |-> <<>>, lessonNumber |-> 0, title |-> 0, videos |-> <<>>,
          enabled |-> FALSE]

\* order(by: "Id") of a category's lessons (the only member).
LessonLists(c) ==
  LET S == {l \in Lessons : CategoryOf[l] = c}
  IN {s \in [1 .. Cardinality(S) -> S] :
        \A j, k \in DOMAIN s : j < k => s[j] < s[k]}

\* order(by: "Score"): ascending, equal scores by document id (the only
\* member).
VideoLists(ref) ==
  {s \in [1 .. Cardinality(Content(ref)) -> Content(ref)] :
     \A j, k \in DOMAIN s : j < k =>
       LET p == Score[Last(ref)][s[j]]
           q == Score[Last(ref)][s[k]]
       IN p < q \/ (p = q /\ s[j] < s[k])}

Alive == screen # "badLessonIndex"

Init ==
  /\ screen = "menu"
  /\ top = 0
  /\ vc = [i \in Controllers |-> Fresh]
  /\ categoryRef = CategoryOf[ITSLessonRef]
  /\ lessonRef = RefOf(ITSLessonRef)
  /\ browsing = FALSE
  /\ lessonQuery = [i \in Controllers |-> None]
  /\ videoQuery = [i \in Controllers |-> None]
  /\ outbox = <<>>
  /\ opens = 0
  /\ errors = 0
  /\ alone = FALSE

-----------------------------------------------------------------------------
(* Navigation and the catalog.                                             *)

\* "Continue Learning", or "Study again" after a quiz.
viewDidLoad ==
  /\ screen = "menu"
  /\ opens < MaxOpens
  /\ opens' = opens + 1
  /\ top' = opens + 1
  /\ screen' = "its"
  /\ lessonQuery' = [lessonQuery EXCEPT ![opens + 1] = {categoryRef}]
  /\ alone' = (~browsing /\ outbox = <<>>
               /\ \A i \in Controllers : lessonQuery[i] \union videoQuery[i] = {})
  /\ UNCHANGED <<vc, globals, browsing, videoQuery, outbox, errors>>

\* The back button of the navigation bar.
GoBack ==
  /\ screen = "its"
  /\ screen' = "menu"
  /\ top' = 0
  /\ alone' = FALSE
  /\ UNCHANGED <<vc, globals, browsing, queries, outbox, opens, errors>>

\* The student opens the catalog from the side menu, asks for a lesson and
\* comes back; the navigation stack is as it was.
BrowseCatalog ==
  /\ screen \in {"menu", "its"}
  /\ browsing' = TRUE
  /\ alone' = FALSE
  /\ UNCHANGED <<screen, top, vc, globals, queries, outbox, opens, errors>>

\* A query of CatalogViewController is answered, while others may be under
\* way: it finds the videos of a lesson, or it does not.
CatalogAnswers ==
  /\ Alive /\ browsing
  /\ browsing' \in BOOLEAN
  /\ \/ \E ref \in CatalogRefs : categoryRef' = Front(ref) /\ lessonRef' = ref
     \/ UNCHANGED globals
  /\ UNCHANGED <<screen, top, vc, queries, outbox, opens, errors, alone>>

-----------------------------------------------------------------------------
(* Queries.                                                                *)

\* getVideos of controller i whose fields are now q, when the global is ref.
getVideos(i, q, ref) ==
  /\ vc' = [vc EXCEPT ![i] = [q EXCEPT !.videos = <<>>]]
  /\ videoQuery' = [videoQuery EXCEPT ![i] = {ref}]

\* The lessons arrive.  Offline with nothing cached there are none, and
\* lessons[0] is out of range.
GetLessonsDone(i) ==
  /\ Alive
  /\ \E c \in lessonQuery[i] : \E list \in {<<>>} \union LessonLists(c) :
       \/ /\ list # <<>>
          /\ getVideos(i, [vc[i] EXCEPT !.lessons = list, !.title = list[1]],
                       lessonRef)
          /\ UNCHANGED screen
       \/ /\ list = <<>>
          /\ screen' = "badLessonIndex"
          /\ UNCHANGED <<vc, videoQuery>>
  /\ lessonQuery' = [lessonQuery EXCEPT ![i] = None]
  /\ UNCHANGED <<top, globals, browsing, outbox, opens, errors, alone>>

\* Mutant: the video is loaded and the buttons stay off.
getVideo_ButtonsStayOff(q, list) == [q EXCEPT !.videos = list]

\* getVideo of fields whose list is now list.
getVideo(q, list) ==
  [q EXCEPT !.videos = list, !.enabled = @ \/ list # <<>>]

GetVideosDone(i) ==
  /\ Alive
  /\ \E ref \in videoQuery[i] : \E s \in {<<>>} \union VideoLists(ref) :
       vc' = [vc EXCEPT ![i] = getVideo(@, @.videos \o
                [k \in DOMAIN s |-> [id |-> s[k], from |-> ref]])]
  /\ videoQuery' = [videoQuery EXCEPT ![i] = None]
  /\ UNCHANGED <<screen, top, globals, browsing, lessonQuery, outbox, opens,
                 errors, alone>>

\* A query fails: the error is printed and the buttons stay off.
GetFailed(i) ==
  /\ Alive /\ errors < MaxErrors
  /\ lessonQuery[i] \union videoQuery[i] # {}
  /\ errors' = errors + 1
  /\ lessonQuery' = [lessonQuery EXCEPT ![i] = None]
  /\ videoQuery' = [videoQuery EXCEPT ![i] = None]
  /\ UNCHANGED <<screen, top, vc, globals, browsing, outbox, opens, alone>>

-----------------------------------------------------------------------------
(* Votes.                                                                  *)

\* Mutant: buttonsAreEnabled(enabled: false) is forgotten.
Vote_ButtonsStayOn(f) ==
  /\ Len(outbox) < 2
  /\ outbox' = Append(outbox, [vc |-> top, ref |-> lessonRef,
                               id |-> Head(vc[top].videos).id, field |-> f])
  /\ UNCHANGED vc

\* updateData of field f of the first video, in the lesson that is the
\* global one now.
Vote(f) ==
  /\ outbox' = Append(outbox, [vc |-> top, ref |-> lessonRef,
                               id |-> Head(vc[top].videos).id, field |-> f])
  /\ vc' = [vc EXCEPT ![top].enabled = FALSE]

\* onComprehensionButton and onIncomprehensionButton.
OnButton(f) ==
  /\ screen = "its" /\ vc[top].enabled
  /\ f \in {"Comprehension", "Incomprehension"}
  /\ Vote(f)
  /\ UNCHANGED <<screen, top, globals, browsing, queries, opens, errors, alone>>

onIrrelevanceButton ==
  /\ screen = "its" /\ vc[top].enabled
  /\ screen' = "alert"
  /\ UNCHANGED <<top, vc, globals, browsing, queries, outbox, opens, errors,
                 alone>>

AlertYes ==
  /\ screen = "alert"
  /\ screen' = "its"
  /\ Vote("Irrelevance")
  /\ UNCHANGED <<top, globals, browsing, queries, opens, errors, alone>>

AlertNo ==
  /\ screen = "alert"
  /\ screen' = "its"
  /\ UNCHANGED <<top, vc, globals, browsing, queries, outbox, opens, errors,
                 alone>>

\* Mutant: the old list is kept and can be voted on.
nextLesson_KeepsVideos(i) ==
  LET n == vc[i].lessonNumber + 1 IN
  \/ /\ n < Len(vc[i].lessons)
     /\ lessonRef' = Append(categoryRef, vc[i].lessons[n + 1])
     /\ vc' = [vc EXCEPT ![i].lessonNumber = n, ![i].enabled = TRUE]
     /\ UNCHANGED <<screen, videoQuery>>
  \/ /\ n >= Len(vc[i].lessons)
     /\ screen' = "badLessonIndex"
     /\ UNCHANGED <<vc, lessonRef, videoQuery>>

\* Mutant: the videos are fetched before lessonRef is assigned.
nextLesson_FetchFirst(i) ==
  LET n == vc[i].lessonNumber + 1 IN
  \/ /\ n < Len(vc[i].lessons)
     /\ lessonRef' = Append(categoryRef, vc[i].lessons[n + 1])
     /\ getVideos(i, [vc[i] EXCEPT !.lessonNumber = n,
                                   !.title = vc[i].lessons[n + 1]], lessonRef)
     /\ UNCHANGED screen
  \/ /\ n >= Len(vc[i].lessons)
     /\ screen' = "badLessonIndex"
     /\ UNCHANGED <<vc, lessonRef, videoQuery>>

\* Mutant: the last lesson of the category is taken for the end.
nextLesson_StopsEarly(i) ==
  LET n == vc[i].lessonNumber + 1 IN
  \/ /\ n < Len(vc[i].lessons) - 1
     /\ lessonRef' = Append(categoryRef, vc[i].lessons[n + 1])
     /\ getVideos(i, [vc[i] EXCEPT !.lessonNumber = n,
                                   !.title = vc[i].lessons[n + 1]], lessonRef')
     /\ UNCHANGED screen
  \/ /\ n >= Len(vc[i].lessons) - 1
     /\ screen' = "badLessonIndex"
     /\ UNCHANGED <<vc, lessonRef, videoQuery>>

\* nextLesson of controller i: past the last lesson the index is out of range.
nextLesson(i) ==
  LET n == vc[i].lessonNumber + 1 IN
  \/ /\ n < Len(vc[i].lessons)
     /\ lessonRef' = Append(categoryRef, vc[i].lessons[n + 1])
     /\ getVideos(i, [vc[i] EXCEPT !.lessonNumber = n,
                                   !.title = vc[i].lessons[n + 1]], lessonRef')
     /\ UNCHANGED screen
  \/ /\ n >= Len(vc[i].lessons)
     /\ screen' = "badLessonIndex"
     /\ UNCHANGED <<vc, lessonRef, videoQuery>>

\* The server takes the oldest vote and its completion runs.
WriteDone ==
  /\ Alive /\ outbox # <<>>
  /\ LET w == Head(outbox) IN
     /\ w.id \in Content(w.ref)
     /\ \/ /\ w.field = "Comprehension"
           /\ nextLesson(w.vc)
        \/ /\ w.field # "Comprehension"
           /\ vc' = [vc EXCEPT ![w.vc] = getVideo(@, Tail(@.videos))]
           /\ UNCHANGED <<screen, lessonRef, videoQuery>>
  /\ outbox' = Tail(outbox)
  /\ UNCHANGED <<top, categoryRef, browsing, lessonQuery, opens, errors, alone>>

\* The server refuses it, always if the lesson has no such video: the error
\* is printed and the buttons stay off.
WriteFailed ==
  /\ Alive /\ outbox # <<>>
  /\ \/ /\ Head(outbox).id \notin Content(Head(outbox).ref)
        /\ UNCHANGED errors
     \/ /\ errors < MaxErrors
        /\ errors' = errors + 1
  /\ outbox' = Tail(outbox)
  /\ UNCHANGED <<screen, top, vc, globals, browsing, queries, opens, alone>>

-----------------------------------------------------------------------------
Next ==
  \/ viewDidLoad
  \/ GoBack
  \/ BrowseCatalog
  \/ CatalogAnswers
  \/ \E i \in Controllers : \/ GetLessonsDone(i)
                            \/ GetVideosDone(i)
                            \/ GetFailed(i)
  \/ \E f \in Fields : OnButton(f)
  \/ onIrrelevanceButton
  \/ AlertYes
  \/ AlertNo
  \/ WriteDone
  \/ WriteFailed

Spec == Init /\ [][Next]_vars

\* A connected Firestore client retries until the server has answered.
FairSpec ==
  /\ Spec
  /\ WF_vars(WriteDone \/ WriteFailed)
  /\ \A i \in Controllers :
       WF_vars(GetLessonsDone(i) \/ GetVideosDone(i) \/ GetFailed(i))

-----------------------------------------------------------------------------
TypeOK ==
  /\ screen \in {"menu", "its", "alert", "badLessonIndex"}
  /\ top \in 0 .. MaxOpens
  /\ screen \in {"its", "alert"} => top \in Controllers
  /\ vc \in [Controllers -> ITSFields]
  /\ categoryRef \in Categories
  /\ lessonRef \in Refs
  /\ browsing \in BOOLEAN
  /\ lessonQuery \in [Controllers -> SUBSET Categories]
  /\ videoQuery \in [Controllers -> SUBSET Refs]
  /\ outbox \in Seq(Votes)
  /\ opens \in 0 .. MaxOpens
  /\ errors \in Nat
  /\ alone \in BOOLEAN

\* Every controller waits for one answer at most: its lessons, its videos or
\* its vote.  So no second answer finds the list another one has changed, and
\* the vote a completion removes the first video for was on that video
\* (buttonsAreEnabled, seeOtherVideo, getVideos).
OneAnswerAtATime ==
  \A i \in Controllers :
    LET waiting == {k \in DOMAIN outbox : outbox[k].vc = i} IN
    /\ Cardinality(lessonQuery[i]) + Cardinality(videoQuery[i])
         + Cardinality(waiting) <= 1
    /\ lessonQuery[i] \union videoQuery[i] # {} => ~vc[i].enabled
    /\ \A k \in waiting : /\ ~vc[i].enabled /\ vc[i].videos # <<>>
                          /\ Head(vc[i].videos).id = outbox[k].id
    /\ vc[i].enabled => vc[i].videos # <<>>

\* A student who leaves the catalog alone votes in the lesson the video was
\* listed in (lessonRef is read again when the vote is written).
VoteIsInItsLesson ==
  alone => \A k \in DOMAIN outbox :
             outbox[k].ref = Head(vc[outbox[k].vc].videos).from

\* From the second lesson on, the videos such a student sees are those of the
\* lesson in the title (nextLesson, getVideos).
TitleMatchesAfterNext ==
  alone /\ top # 0 /\ vc[top].lessonNumber > 0 =>
    \A k \in DOMAIN vc[top].videos :
      vc[top].videos[k].from = RefOf(vc[top].title)

\* The videos on the screen are those of the lesson in the title.
TitleMatchesVideos ==
  screen = "its" =>
    \A k \in DOMAIN vc[top].videos :
      Last(vc[top].videos[k].from) = vc[top].title

\* The video on the screen is the one with the highest score of the list.
TopVideoFirst ==
  screen = "its" =>
    \A k \in DOMAIN vc[top].videos :
      LET v == vc[top].videos[k]
          first == vc[top].videos[1]
      IN Score[Last(first.from)][first.id] >= Score[Last(v.from)][v.id]

\* A controller takes the lessons of its category in their order and leaves
\* none out: an index is only out of range when the answer had no lesson or
\* when the last one was understood, and that was on the screen after all the
\* others; a controller still waiting for its lessons is no excuse
\* (viewDidLoad, nextLesson).
EveryLessonIsReached ==
  /\ \A i \in Controllers :
       vc[i].title # 0 => vc[i].title = vc[i].lessons[vc[i].lessonNumber + 1]
  /\ ~Alive => \/ \E i \in Controllers :
                    /\ vc[i].lessons # <<>>
                    /\ vc[i].lessonNumber = Len(vc[i].lessons) - 1
               \/ \E i \in Controllers :
                    /\ opens >= i
                    /\ vc[i].lessons = <<>> /\ lessonQuery[i] = {}

\* A student who leaves the catalog alone is not left with dead buttons: the
\* next video or lesson comes, or the list is exhausted, unless a call fails
\* (getVideos, seeOtherVideo, nextLesson).
LessonMovesOn ==
  alone /\ screen = "its" /\ errors = 0
    ~> \/ ~alone \/ errors > 0 \/ ~Alive
       \/ vc[top].enabled
       \/ vc[top].videos = <<>> /\ lessonQuery[top] \union videoQuery[top] = {}
=============================================================================
