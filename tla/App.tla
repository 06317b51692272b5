-------------------------------- MODULE App ---------------------------------
(***************************************************************************)
(* The app on one device: the side menu, the lessons one after the other   *)
(* (ITS), the catalog (Catalog) and the LessonViewControllers the catalog  *)
(* opens.  The two components share the globals categoryRef and lessonRef, *)
(* and so do the lessons' votes; the side menu keeps every screen with its *)
(* navigation stack, and completions run whatever screen is shown.         *)
(*                                                                         *)
(* The quiz only reads categoryRef (module Quiz); the counts a vote writes *)
(* are in module Feedback.                                                 *)
(***************************************************************************)
EXTENDS Integers, Sequences, FiniteSets, SequencesExt

CONSTANTS
  Lessons, CategoryOf, Listed, Score, ITSLessonRef, MaxOpens, MaxErrors,
                \* as in ITS
  CatalogRefs,  \* documents the catalog may take for the lesson opened
  LessonDepth, MaxRequests, MaxPending,
                \* as in Catalog
  MaxPages      \* bound: lessons opened from the catalog

VARIABLES
  selectedMenuItem, \* global: the row of the side menu
  itsLoaded,        \* the ITS menu has been on the screen
  categoryRef,      \* global
  lessonRef,        \* global
  screen, top, vc, lessonQuery, videoQuery, outbox, opens, errors, alone,
                    \* as in ITS
  ref, catalogItems, queries, requests, pushed, trapped, patient,
                    \* as in Catalog
  pages,            \* the LessonViewControllers, in the order they were pushed
  stack,            \* the ones on the catalog's navigation stack
  lessonAlert,      \* the page whose alert is shown, 0 if none
  lessonOutbox,     \* votes of the pages the server has not answered
  lessonErrors,     \* calls of the catalog and the pages that have failed
  mixed             \* history: a lesson of another category was opened from
                    \* the catalog while a controller of the ITS was in use

itsVars == <<screen, top, vc, lessonQuery, videoQuery, outbox, opens, errors>>
catalogVars == <<ref, catalogItems, queries, requests, trapped, patient>>
pageVars == <<pages, stack, pushed, lessonAlert, lessonOutbox>>
globals == <<categoryRef, lessonRef>>
menuVars == <<selectedMenuItem, itsLoaded>>
vars == <<menuVars, globals, itsVars, alone, catalogVars, pageVars, lessonErrors,
          mixed>>

I == INSTANCE ITS WITH browsing <- queries # {}

\* What the Finder has put below "Courses".
Documents ==
  UNION {{SubSeq(d, 1, k) : k \in 1 .. Len(d)} :
         d \in {Append(I!RefOf(l), v) : l \in Lessons, v \in I!Videos}}

CatalogDocuments ==
  {d \in Documents : Len(d) > LessonDepth => Last(d) \in I!Content(Front(d))}

C == INSTANCE Catalog WITH Documents <- CatalogDocuments,
                           FirstLesson <- I!RefOf(ITSLessonRef),
                           errors <- lessonErrors

\* The catalog may stand, impatient as the student is, in any path of names
\* that is as long as there were taps.
ASSUME AppAssumption ==
  /\ I!ITSConstants
  /\ I!Videos # {}
  /\ LessonDepth \in Nat \ {0, 1}
  /\ \A l \in Lessons : Len(CategoryOf[l]) + 1 = LessonDepth
  /\ \A r \in CatalogRefs : r \in C!Paths
  /\ \A n \in 2 .. MaxRequests - 1 : [1 .. n -> C!Names] \subseteq CatalogRefs
  /\ MaxRequests \in Nat
  /\ MaxPending \in Nat
  /\ MaxPages \in Nat

NoRef == <<>>

\* title: the reference, NoRef until the view is loaded.
\* calm: history, since the view was loaded neither was the ITS menu loaded
\* nor a vote of the ITS or a tap of the catalog under way.
Fields == [title: I!Refs \union {NoRef}, videos: Seq(I!Videos), enabled: BOOLEAN,
           fetching: BOOLEAN, calm: BOOLEAN]

Fresh == [title |-> NoRef, videos |-> <<>>, enabled |-> FALSE,
          fetching |-> FALSE, calm |-> FALSE]

Votes == [page: 1 .. MaxPages, ref: I!Refs, id: I!Videos, field: I!Fields]

\* An index trap, a forced unwrap of nil or the Settings row ends the app.
Alive == I!Alive /\ ~trapped /\ selectedMenuItem # 3

Init ==
  /\ selectedMenuItem = 0
  /\ itsLoaded = FALSE
  /\ C!Init
  /\ I!Init
  /\ pages = <<>> /\ stack = <<>> /\ lessonAlert = 0 /\ lessonOutbox = <<>>
  /\ mixed = FALSE

-----------------------------------------------------------------------------
(* The side menu: MenuViewController and the table of HomeViewController.  *)

Disturbed == [p \in DOMAIN pages |-> [pages[p] EXCEPT !.calm = FALSE]]

Selectable == Alive /\ screen # "alert" /\ lessonAlert = 0

\* Mutant: the ITS menu sets the globals whenever it appears.
SelectKept_SetsGlobals(n) ==
  /\ Selectable
  /\ (n = 2 /\ requests > 0) \/ (n = 1 /\ itsLoaded)
  /\ selectedMenuItem' = n
  /\ categoryRef' = IF n = 1 THEN CategoryOf[ITSLessonRef] ELSE categoryRef
  /\ lessonRef' = IF n = 1 THEN I!RefOf(ITSLessonRef) ELSE lessonRef
  /\ UNCHANGED <<itsLoaded, itsVars, alone, catalogVars, pageVars, lessonErrors,
                 mixed>>

\* Home; Settings, for which there is no controller; a screen kept before.
SelectKept(n) ==
  /\ Selectable
  /\ \/ n \in {0, 3}
     \/ n = 1 /\ itsLoaded
     \/ n = 2 /\ requests > 0
  /\ selectedMenuItem' = n
  /\ UNCHANGED <<itsLoaded, globals, itsVars, alone, catalogVars, pageVars,
                 lessonErrors, mixed>>

\* Mutant: categoryRef is forgotten.
LoadITSMenu_LessonOnly ==
  /\ Selectable /\ ~itsLoaded
  /\ selectedMenuItem' = 1
  /\ itsLoaded' = TRUE
  /\ lessonRef' = I!RefOf(ITSLessonRef)
  /\ pages' = Disturbed
  /\ UNCHANGED <<categoryRef, itsVars, alone, catalogVars, stack, pushed,
                 lessonAlert, lessonOutbox, lessonErrors, mixed>>

\* The ITS menu is created: its viewDidLoad sets the globals.
LoadITSMenu ==
  /\ Selectable /\ ~itsLoaded
  /\ selectedMenuItem' = 1
  /\ itsLoaded' = TRUE
  /\ categoryRef' = CategoryOf[ITSLessonRef]
  /\ lessonRef' = I!RefOf(ITSLessonRef)
  /\ pages' = Disturbed
  /\ UNCHANGED <<itsVars, alone, catalogVars, stack, pushed, lessonAlert,
                 lessonOutbox, lessonErrors, mixed>>

LoadCatalog ==
  /\ Selectable
  /\ UNCHANGED <<itsLoaded, itsVars, pages, stack, lessonAlert, lessonOutbox, mixed>>
  /\ C!viewDidLoad
  /\ selectedMenuItem' = 2
  /\ alone' = FALSE

-----------------------------------------------------------------------------
(* The lessons one after the other.                                        *)

\* The student on the ITS screens.
ITSMoves ==
  /\ selectedMenuItem = 1 /\ Alive
  /\ UNCHANGED <<menuVars, catalogVars, pageVars, lessonErrors, mixed>>
  /\ \/ I!viewDidLoad
     \/ I!GoBack
     \/ I!onIrrelevanceButton
     \/ I!AlertNo

ITSVotes ==
  /\ selectedMenuItem = 1 /\ Alive
  /\ UNCHANGED <<menuVars, catalogVars, stack, pushed, lessonAlert, lessonOutbox,
                 lessonErrors, mixed>>
  /\ pages' = Disturbed
  /\ \/ \E f \in I!Fields : I!OnButton(f)
     \/ I!AlertYes

\* Its queries and votes are answered on any screen.
ITSAnswered ==
  /\ Alive
  /\ UNCHANGED <<menuVars, catalogVars, pageVars, lessonErrors, mixed>>
  /\ \/ \E i \in I!Controllers : \/ I!GetLessonsDone(i)
                                 \/ I!GetVideosDone(i)
                                 \/ I!GetFailed(i)
     \/ I!WriteDone
     \/ I!WriteFailed

-----------------------------------------------------------------------------
(* The catalog.                                                            *)

CatalogTapped ==
  /\ selectedMenuItem = 2 /\ Alive
  /\ UNCHANGED <<menuVars, itsVars, pages, stack, lessonAlert, lessonOutbox, mixed>>
  /\ \/ \E n \in C!Names : C!didSelectRow(n)
     \/ C!onBackButton
  /\ alone' = FALSE

CatalogAnswered ==
  /\ Alive
  /\ UNCHANGED <<menuVars, itsVars, alone, lessonAlert, lessonOutbox>>
  /\ \E q \in queries :
       /\ C!QueryAnswered(q)
       /\ \/ /\ pushed' > pushed
             /\ Len(pages) < MaxPages
             /\ pages' = Append(pages, Fresh)
             /\ stack' = Append(stack, Len(pages) + 1)
          \/ /\ pushed' = pushed
             /\ UNCHANGED <<pages, stack>>
  /\ mixed' = (mixed \/ (categoryRef' # categoryRef /\ (top # 0 \/ outbox # <<>>)))

CatalogFailed ==
  /\ Alive
  /\ UNCHANGED <<menuVars, itsVars, alone, pages, stack, lessonAlert, lessonOutbox,
                 mixed>>
  /\ \E q \in queries : C!QueryFailed(q)

-----------------------------------------------------------------------------
(* The lessons opened from the catalog: LessonViewController.              *)

others == <<menuVars, globals, itsVars, alone, catalogVars, mixed>>

\* The view of the page on the top of the stack is loaded when UIKit shows it.
viewDidLoad ==
  /\ Alive /\ stack # <<>>
  /\ LET p == Last(stack) IN
     /\ pages[p].title = NoRef
     /\ pages' = [pages EXCEPT ![p].title = lessonRef, ![p].fetching = TRUE,
                               ![p].calm = (queries = {} /\ outbox = <<>>)]
  /\ UNCHANGED <<others, stack, pushed, lessonAlert, lessonOutbox, lessonErrors>>

\* getVideo of fields whose list is now list.
getVideo(q, list) ==
  [q EXCEPT !.videos = list, !.fetching = FALSE, !.enabled = @ \/ list # <<>>]

\* Offline with nothing cached there are no documents.
GetVideosDone(p) ==
  /\ Alive /\ pages[p].fetching
  /\ \E s \in {<<>>} \union I!VideoLists(pages[p].title) :
       pages' = [pages EXCEPT ![p] = getVideo(@, s)]
  /\ UNCHANGED <<others, stack, pushed, lessonAlert, lessonOutbox, lessonErrors>>

GetVideosFailed(p) ==
  /\ Alive /\ pages[p].fetching
  /\ lessonErrors < MaxErrors
  /\ lessonErrors' = lessonErrors + 1
  /\ pages' = [pages EXCEPT ![p].fetching = FALSE]
  /\ UNCHANGED <<others, stack, pushed, lessonAlert, lessonOutbox>>

\* updateData of the first video, in the lesson that is the global one now.
Vote(p, f) ==
  /\ pages' = [pages EXCEPT ![p].enabled = FALSE]
  /\ lessonOutbox' = Append(lessonOutbox, [page |-> p, ref |-> lessonRef,
                            id |-> Head(pages[p].videos), field |-> f])

OnScreen(p) ==
  /\ Alive /\ selectedMenuItem = 2 /\ lessonAlert = 0
  /\ stack # <<>> /\ p = Last(stack)

\* onComprehensionButton and onIncomprehensionButton.
OnButton(p, f) ==
  /\ OnScreen(p) /\ pages[p].enabled
  /\ f \in {"Comprehension", "Incomprehension"}
  /\ Vote(p, f)
  /\ UNCHANGED <<others, stack, pushed, lessonAlert, lessonErrors>>

onIrrelevanceButton(p) ==
  /\ OnScreen(p) /\ pages[p].enabled
  /\ lessonAlert' = p
  /\ UNCHANGED <<others, pages, stack, pushed, lessonOutbox, lessonErrors>>

AlertYes ==
  /\ Alive /\ lessonAlert # 0
  /\ Vote(lessonAlert, "Irrelevance")
  /\ lessonAlert' = 0
  /\ UNCHANGED <<others, stack, pushed, lessonErrors>>

AlertNo ==
  /\ Alive /\ lessonAlert # 0
  /\ lessonAlert' = 0
  /\ UNCHANGED <<others, pages, stack, pushed, lessonOutbox, lessonErrors>>

\* popViewController removes the page on the top, whichever it is.
Pop == stack' = Front(stack) /\ pushed' = pushed - 1

GoBack(p) ==
  /\ OnScreen(p) /\ pages[p].title # NoRef
  /\ Pop
  /\ UNCHANGED <<others, pages, lessonAlert, lessonOutbox, lessonErrors>>

\* Mutant: pops although the page has been left.
WriteDone_PopsAgain ==
  /\ Alive /\ lessonOutbox # <<>>
  /\ Head(lessonOutbox).id \in I!Content(Head(lessonOutbox).ref)
  /\ Head(lessonOutbox).field = "Comprehension"
  /\ Pop
  /\ lessonOutbox' = Tail(lessonOutbox)
  /\ UNCHANGED <<others, pages, lessonAlert, lessonErrors>>

\* Mutant: a page that is left puts the lesson of the ITS back.
WriteDone_RestoresLesson ==
  /\ Alive /\ lessonOutbox # <<>>
  /\ Head(lessonOutbox).page \in Range(stack)
  /\ Pop
  /\ lessonRef' = I!RefOf(ITSLessonRef)
  /\ lessonOutbox' = Tail(lessonOutbox)
  /\ UNCHANGED <<menuVars, categoryRef, itsVars, alone, catalogVars, mixed, pages,
                 lessonAlert, lessonErrors>>

\* The server takes the oldest vote; the page of a lesson that was understood
\* is left, unless it has been left already.
WriteDone ==
  /\ Alive /\ lessonOutbox # <<>>
  /\ LET w == Head(lessonOutbox) IN
     /\ w.id \in I!Content(w.ref)
     /\ \/ /\ w.field = "Comprehension" /\ w.page \in Range(stack)
           /\ Pop
           /\ UNCHANGED pages
        \/ /\ w.field = "Comprehension" /\ w.page \notin Range(stack)
           /\ UNCHANGED <<pages, stack, pushed>>
        \/ /\ w.field # "Comprehension"
           /\ pages' = [pages EXCEPT ![w.page] = getVideo(@, Tail(@.videos))]
           /\ UNCHANGED <<stack, pushed>>
  /\ lessonOutbox' = Tail(lessonOutbox)
  /\ UNCHANGED <<others, lessonAlert, lessonErrors>>

\* The server refuses it, always if the lesson has no such video.
WriteFailed ==
  /\ Alive /\ lessonOutbox # <<>>
  /\ \/ /\ Head(lessonOutbox).id \notin I!Content(Head(lessonOutbox).ref)
        /\ UNCHANGED lessonErrors
     \/ /\ lessonErrors < MaxErrors
        /\ lessonErrors' = lessonErrors + 1
  /\ lessonOutbox' = Tail(lessonOutbox)
  /\ UNCHANGED <<others, pages, stack, pushed, lessonAlert>>

-----------------------------------------------------------------------------
Next ==
  \/ \E n \in 0 .. 3 : SelectKept(n)
  \/ LoadITSMenu
  \/ LoadCatalog
  \/ ITSMoves
  \/ ITSVotes
  \/ ITSAnswered
  \/ CatalogTapped
  \/ CatalogAnswered
  \/ CatalogFailed
  \/ viewDidLoad
  \/ \E p \in DOMAIN pages : \/ GetVideosDone(p)
                             \/ GetVideosFailed(p)
                             \/ \E f \in I!Fields : OnButton(p, f)
                             \/ onIrrelevanceButton(p)
                             \/ GoBack(p)
  \/ AlertYes
  \/ AlertNo
  \/ WriteDone
  \/ WriteFailed

Spec == Init /\ [][Next]_vars

-----------------------------------------------------------------------------
TypeOK ==
  /\ selectedMenuItem \in 0 .. 3
  /\ itsLoaded \in BOOLEAN
  /\ I!TypeOK
  /\ C!TypeOK
  /\ pages \in Seq(Fields) /\ Len(pages) <= MaxPages
  /\ stack \in Seq(1 .. Len(pages)) /\ pushed = Len(stack)
  /\ lessonAlert \in 0 .. Len(pages)
  /\ lessonOutbox \in Seq(Votes)
  /\ mixed \in BOOLEAN

\* ITS as it sees the rest of the app: its menu sets the globals when it is
\* loaded, and then the catalog changes them whenever it has a query under way.
ITSView == INSTANCE ITS WITH
  categoryRef <- IF itsLoaded THEN categoryRef ELSE CategoryOf[ITSLessonRef],
  lessonRef <- IF itsLoaded THEN lessonRef ELSE I!RefOf(ITSLessonRef),
  browsing <- queries # {}

\* The app implements ITS: what the side menu, the catalog and its lessons do
\* in any order is to the ITS nothing but BrowseCatalog and CatalogAnswers
\* (didSelectRowAt, getCatalogItems, ITSMenuViewController.viewDidLoad).
ImplementsITS == ITSView!Spec

\* A page opened from the catalog votes in the lesson of its title, on
\* whatever screens the student has been since, unless the ITS menu was loaded
\* for the first time or a vote of the ITS or a tap of the catalog was under
\* way (lessonRef is read again by seeOtherVideo and onComprehensionButton).
LessonVotesOwn ==
  \A k \in DOMAIN lessonOutbox :
    LET p == pages[lessonOutbox[k].page] IN p.calm => lessonOutbox[k].ref = p.title

\* A patient student who keeps the categories of the catalog and of the ITS
\* apart has a lesson and its category in the globals, in whatever order the
\* two components set them (getCatalogItems, nextLesson and
\* ITSMenuViewController.viewDidLoad).
GlobalsAgree ==
  patient /\ ~mixed => \E l \in Lessons : /\ lessonRef = I!RefOf(l)
                                         /\ categoryRef = CategoryOf[l]
=============================================================================
