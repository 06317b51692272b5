# Education Network: TLA+ models, model checking and proofs

Education Network is an iOS application (Swift, UIKit, Firebase Firestore) that
teaches with YouTube videos, and three Python scripts that fill and maintain its
database. A student goes through the lessons of a category, says of every video
whether it helped, takes the category's quiz, and may pick any lesson from a
catalog. This directory holds TLA+ models of that code, the TLC configurations
that check them, and proofs checked by TLAPS.

## 1. The system

| Part | State | Operations | Talks to |
|---|---|---|---|
| Quiz (`QuizViewController`) | `questions`, `questionNumber`, `correctAnswers`, `options`; globals `score`, `dismissQuiz` | `viewWillAppear`, `onA`..`onD`/`checkIfCorrect`, `storeQuestionResult`, `nextQuestion` | Firestore; result screens (segue); ITS menu (flag) |
| Result screens (`PassedQuiz...`, `FailedQuiz...`) | none | retake, retry, study again, next category | quiz and ITS menu through `dismissQuiz`; `categoryRef` |
| ITS menu (`ITSMenuViewController`) | none | `viewDidLoad` sets the globals, `viewWillAppear` consumes the flag | quiz, ITS |
| ITS (`ITSViewController`) | `lessons`, `lessonNumber`, `videos`, buttons | queries, votes, `nextLesson` | Firestore; globals `categoryRef`, `lessonRef` |
| Lesson (`LessonViewController`) | `videos`, buttons | query, votes, pop | Firestore; `lessonRef` |
| Catalog (`CatalogViewController`) | `ref`, `catalogItems` | tap, back, `getCatalogItems` | Firestore; sets `categoryRef`, `lessonRef`; pushes the lesson |
| Side menu, home | `selectedMenuItem`, three cached controllers | select a row | shows the others |
| Scorer (Python) | none | read the counts, write `Score` | the video documents |
| Finder (Python) | numbering of categories and lessons | search YouTube, write documents | the video documents |
| Quiz uploader (Python) | lines of a file | parse, write questions | the quiz documents |
| Proposals, tagger | `videos`/`imagesUrls`, buttons | vote, tag | Firestore (scenes nothing leads to) |

**Concurrency.** Handlers run on the main thread, so each is one step. What
interleaves is the student's taps, UIKit's `viewWillAppear` calls, animations of
one second, the completions of Firestore calls, the other students' devices and
the scripts. A controller that has left the screen lives on in its pending
completions, which still change its fields, the globals and the database.

**Failure.** A Firestore call completes with a result or an error; every error
is printed and nothing else is done. Offline, a query answers from the cache,
possibly with no document, and writes wait.

**What makes each part correct.**
- Quiz: the percentage shown is what was answered and what is stored; no index
  is out of range; Study again ends on the lessons; an answer moves on.
- ITS, lesson: a vote goes to the video and the lesson the student saw; the
  buttons are active exactly when there is a video to vote on and nothing is
  pending; the student is not left with dead buttons.
- Feedback and Scorer: no vote counts twice, a lone voter's votes all count, the
  scores follow the counts.
- Finder: the documents are a tree wherever a run stops, the numbers are the
  places on the page, only short videos get in and a run that ends is complete.
- Catalog: the rows are those of the place the controller is in; what is opened
  is a lesson with its category.
- App: the parts share two globals; what the others do to them must be no more
  than each part allows for, and a lesson left open keeps its votes to itself.
- Uploader: the quiz asks what the file says, in its order, and nothing that the
  quiz unwraps is missing from a document, whatever was wrong with the file.
- Proposals, tagger: a rating is of the document on the screen, the popularity
  comes from ratings.

## 2. Modules

`Quiz`, `Feedback`, `ITS`, `Catalog`, `Finder`, `Uploader` and `Rating` are
specifications of one part each; `App` composes `ITS` and `Catalog` with the side
menu and the lessons opened from the catalog. The module `MC...` of each gives its
constants values for TLC, and the module `...Proofs` of each its theorems
(`MCQuiz`, `QuizProofs` and so on).
Operators whose comment begins with "Mutant:" are not part of a specification:
each is a plausible bug in the definition it is named after, kept to show that the
property it is paired with in `PROJECT.json` fails on it.

**Quiz** is the quiz with its result screens and the ITS menu below it. `vc` has
the fields of every `QuizViewController` created, `top` is the one on the
navigation stack. `fetches`, `anims` and `writes` are the calls under way; a
fetch may be answered in any order, animations end in the order they began
(they all take one second) and a client's writes are acknowledged in order.
`appearing` stands for "UIKit has yet to call `viewWillAppear` of `screen`".
`QuizViewWillAppear`, `checkIfCorrect`, `AnimationDone` (the completion with
`storeQuestionResult`), `WriteDone` (with `nextQuestion`) and the handlers of
the result screens are the methods of the same names. The options are kept as
one bit, `asked`: before the first `nextQuestion` they are the letters A to D,
which match no answer. `score` is the fraction it is computed from, and
`Passes` gives Float's answers for 0/0 and n/0. Out-of-range indices are screens
of their own (`badQuestionIndex`, `badCategoryIndex`), which end everything.
`record` is the user's document of each quiz. The history variable `orderly`
says that the attempt on the screen began with nothing pending, that every
question was answered once and when asked, and that no right answer failed to
be stored. It restricts no step: it is the antecedent of the properties that
hold only for such a student. Everybody else is in the model too.

**Feedback** is one lesson on several devices (`LessonViewController`), the video
documents on the server, and the Scorer. `outbox` has the votes of a device the
server has not acknowledged; a client's own reads show them (`Seen`). A vote
writes the count of the snapshot plus one, so concurrent votes are lost: the
model keeps the votes cast as history to say what is still true of the counts.
`live` marks a vote whose controller is still on the screen. The Scorer reads
all videos in one step and writes them one at a time. `FinderSet` is a further run
of the Finder that replaces the document of a video, counts and score, at any
moment; `reset` remembers which, because a vote lost that way is lost for good.

**ITS** is `ITSViewController` with the globals `categoryRef` and `lessonRef`, a
catalog that may change them at any time, and controllers that have left the
screen. A reference is the path of its document. What a vote writes into the counts
is Feedback's business; here a vote is the lesson and the video it goes to. `from`
in a snapshot records the lesson it was fetched from, for the properties only.
`alone` is history: since the controller on the stack was created nothing else
could change `lessonRef`. `CatalogRefs` are the documents the catalog may take for
the lesson: the lessons, and documents below one, for a student who taps again
before the answer. That the catalog does no more than this to ITS is an assumption
here and a theorem about App (`AppImplementsITS`).

**Catalog** is `CatalogViewController`. A path is the sequence of names below
`Courses`; a collection is named by the document it belongs to. `Documents` are
those that have an `Id`, since `order(by: "Id")` leaves out the others. Queries
are answered in any order and applied to the `ref` of that moment. `patient` is
history: every tap waited for the answer before it and no query failed.

**Finder** is the script that fills the database. `pc` is its next call: the
documents of subject and grade, a row of the page with the search, a video of the
answer, and the three writes of `uploadToFirestore`. `docs` has the documents by
path, as in Catalog, with the fields the app orders by; it survives a run,
everything else starts over. Any call may raise (`Crash`), a row without exactly
one ": " and a duration with an unknown unit always do. A video has its true
length; `ISO8601` is YouTube's way to write it, `durationInSeconds` the script's
way to read it.

**App** is one device. It takes the actions of ITS and Catalog as instances `I` and
`C` over the same globals and adds the side menu (`MenuViewController`,
`HomeViewController`), which keeps each screen with its navigation stack, and the
`LessonViewController`s opened from the catalog (`pages`), whose counts Feedback
has. The student acts on the screen selected; completions run on any. UIKit
loads the view of a pushed page when it shows it, so `viewDidLoad`, which reads
`lessonRef`, is a step of its own. Row 3, Settings, has no controller: selecting it
ends the app. The votes of the ITS and of the pages wait in two queues, so every
order between them is allowed, more than the client produces. `calm` and `mixed` are
history: the exact conditions under which the globals stay what a page, or the pair
of them, needs. The quiz is not in the composition: all it shares with these parts is
that it reads `categoryRef`. `ITSView` is the refinement mapping: to the ITS, the
globals are those its menu sets until the menu has been loaded, and `browsing` means
that the catalog has a query under way.

**Uploader** is the quiz uploader. A line of the file is the sequence of its parts
between ": ", so `split(": ")` with two targets is a test of its length; `Texts` are
the parts a line may have. A file is given by the questions its author had in mind,
with one line left out or none: `Intended` is the line that was meant, `Line` the one
that is there, and the questions are the reference the documents are compared with.
`ReadLine` is one turn of the loop over the lines, `Set` one of the loop over the
questions. The order of `Fetched` is that of document ids, which are compared as
strings. `longest` is history: nothing deletes the documents of an earlier, longer
file.

**Rating** is the two proposal controllers and the tagger, each on a device of its
own and opened once, over the documents they share. An image is on the screen only
when its download has ended; the one before it stays until then. What was downloaded
may be no image, the page of an HTTP error for instance: `UIImage(data:)` is nil then,
the screen goes blank, and the buttons come on all the same. A link that is no URL ends
the app (`imageUrl!`). Both are outcomes any image may have. Of a video `shown` says
what the player was given, not what it makes of it. `loading` is what a
controller waits for. The tagger's value is always 1 (it reads a field nobody
writes), so a tag is a mark, not a count. No scene of the app leads to these
controllers; how they would be entered is not modelled.

**External parts**, modelled from how the code uses them: UIKit's calls of
`viewWillAppear`, the back button and the rule that only a visible controller
presents another; Firestore's `setData`, `updateData` (which fails on a document
that does not exist), its ordering and its latency-compensated reads.

Abstractions to be aware of: the server's commit and the client's completion are
one step; a query is answered with the server's state at the moment of the
answer, or with nothing; the trip to another screen of the side menu and back is
one step, which is all the quiz notices of it.

## 3. Runs

| Run | Instance | Result |
|---|---|---|
| `quiz` | 2 categories (2 and 1 questions), 2 visits, 2 appearances, 2 answers in flight, 1 error; 6.1 million states | `TypeOK`, `ResultMatchesRecord`, `OrderlyNeverTraps`, `DismissFlagIsTransient` hold |
| `quiz_live` | the same with 1 category, fair | `StudyAgainReachesLessons`, `AnswerMovesOn` hold |
| `quiz_share` | 1 visit, 2 questions | `ScoreIsAShare` fails: 3 right answers of 2 questions |
| `feedback` | 2 devices that open the lesson twice and once, 2 videos, 2 votes, 1 error, 1 replaced document, fair; 660 000 states | six invariants and `VoteMovesOn` hold |
| `its` | 3 lessons in 2 categories, a video shared by two of them, 2 controllers, 1 error, fair; 310 000 states | five invariants and `LessonMovesOn` hold |
| `its_title` | 2 controllers | `TitleMatchesVideos` fails |
| `its_top` | 1 controller | `TopVideoFirst` fails: ascending order |
| `catalog` | 7 inner documents, 3 lessons with a video, 9 queries, 3 pending, 1 error; 360 000 states | four invariants hold |
| `finder` | 3 pages of up to 3 rows (orderly, mixed, malformed), 5 videos, answers of up to 2, 2 runs stopped anywhere; 2.6 million states | six invariants hold |
| `app` | 3 lessons in 2 categories of a catalog of two levels, 1 ITS controller, 4 catalog queries, 2 pending, 1 page, 1 error in each part; 720 000 states | `TypeOK`, `LessonVotesOwn`, `GlobalsAgree` hold; `ImplementsITS`: the app refines ITS |
| `uploader` | files of 1, 2, 10 and 11 questions, the short ones with any one line missing, 2 categories, 3 runs stopped anywhere; 180 000 states | `TypeOK`, `AskedInOrder`, `MissingLineIsNoticed`, `NothingToUnwrapIsMissing` hold |
| `rating` | 4 controllers (2 for videos), 2 images, 2 videos (one popular, one a rating short of it), 2 tags, 1 error; 2.3 million states | `TypeOK`, `NeverRatesAnother`, `PopularityComesFromRatings` hold |

**What the history variables stand for.** `orderly`, `patient`, `calm`, `mixed`, `alone`
and the counts of errors delimit what the code guarantees: outside of them (a second
tap, a tap before the answer, two components writing the globals at once, a failed
write) the code has no protection, and the property without the flag is false. The
flags are no part of any guard (the number of errors only of its bound), so the runs contain those behaviours too, and
the invariants without a flag are checked in them. Where the repository says
something that is false there, a violation run shows it (`ScoreIsAShare`,
`TitleMatchesVideos`); for the other hazards of this kind the note in `PROJECT.json`
says what the property leaves out.

**Why the bounds are enough for the cases of interest.** Two visits and two
appearances let every call of one attempt meet the next attempt; two answers in
flight are a double tap; two questions distinguish the first, the last and one
too many; one error can hit any call. Two devices and two votes make a lost
update, a stale snapshot after reopening and a vote during a Scorer run, and one
replaced document meets every stage of a vote and of a Scorer run. Four
requests are needed in the catalog to see the lessons and a fifth to open one;
nine leave four for going back, opening another and tapping too early. Two runs
of the Finder let a run meet what every stop of the one before left behind; two
rows of a category and one of another make numbers go up and start again; two
videos per answer let a long one come before a short one. In the app a catalog of
two levels needs three queries to open a lesson, so four leave one for tapping too
early or going back; two pages were tried once with one query pending (1.06
million states, no error). The documents the catalog may take for a lesson
(`MCCatalogRefs`) are all paths that four queries can reach. Eleven questions are the first number at which ids in
the order of strings differ from the numbers; three runs make a complete one follow
two of any kind. Two devices rating the same videos lose a rating; the video one
rating short of popular makes the tagger's list depend on when it asks.
Deadlock is not checked: a student may stop anywhere, a trap ends the app, and
the bounds stop the rest.

**Fairness.** Weak fairness of UIKit's `viewWillAppear` calls, of the animations
and of the completions of Firestore calls: the main run loop serves them, and
the Firestore client retries until it is answered as long as it is connected. A
call may fail instead of succeed, and the liveness properties exempt that, as
the code does nothing after an error. Nothing is assumed of the student, of
other devices or of when the scripts run.

**Disagreements between the code and its own words** (three runs marked
"violation"; quotations in `PROJECT.json`): the share "of correct answers" can be
150 %; the videos shown are not always "on the lesson" of the title; "top video"
is the one with the lowest score.

## 4. Proofs

`QuizProofs` proves for every set of categories, all quiz sizes and all bounds
(`QuizAssumption` only says that these are natural numbers):

- `TypeCorrect`: `Spec => []TypeOK`.
- `ResultCorrect`: `Spec => []ResultMatchesRecord`.
- `OrderlySafe`: `Spec => []OrderlyNeverTraps`.
- `DismissCorrect`: `Spec => []DismissFlagIsTransient`.

`TypeCorrect` and `DismissCorrect` are inductive with `TypeOK`.
`ResultMatchesRecord` is not: it speaks of the end of an attempt, and what makes
it true is where the attempt stood at each moment before. The inductive
invariant `OrderlyInv` says that an orderly attempt is in exactly one of seven
phases, each fixing what is pending and how the fields relate to the stored
document: *fetching*, *setting* (the document is being replaced), *stuck* (a
fetch or the `setData` failed), *asking* (question n is shown, answers 0..n-1
are stored, `correctAnswers` is the number of stored right answers),
*animating*, *storing* and *finished*. Every step of an orderly attempt goes
from one phase to the next or ends orderliness. In the step from storing to
asking, `correctAnswers` already counts the answer under way, so the invariant
of that phase is one off for a right answer, and the step uses the cardinality
of adding one element to a finite set (`FiniteSetTheorems`).

`FeedbackProofs` proves for every set of devices and of videos (`Videos` finite),
with any first scores and bounds:

- `FeedbackTypes`: `Spec => []TypeOK`.
- `CompletionCorrect`: `Spec => []CompletionFindsItsVideo`.
- `ButtonsCorrect`: `Spec => []ButtonsHaveAVideo`.
- `CountsCorrect`: `Spec => []NoVoteCountedTwice`.
- `ScoresCorrect`: `Spec => []ScoresMatchCounts`.

All five hold with documents replaced by the Finder at any moment (lemma
`FinderStep`): a count of 0 is at most the votes cast, and a replaced video counts as
changed since the Scorer's query.

The first three need each other: a vote reads the head of the list, so the types
hold only as long as active buttons have a video, and that needs that the
completion of a vote removes the video voted on. They are proved as one
inductive invariant, `TypeOK /\ DevicesOK`. `NoVoteCountedTwice` speaks of the
server's counts only; the invariant `Honest` says the same of every number on
its way there: the value of a vote in an outbox and the counts of a snapshot are
at most the votes cast. `ScoresMatchCounts` needs that the
Scorer's list contains every video (`OrdersCover`): an order is a sequence
without repetition of as many entries as there are videos, and an injection
between finite sets of one size is onto.

`RatingProofs` proves for all sets of controllers and of documents (finite), all tags
and first popularities (`RatingAssumption`; a controller is of one class only):

- `RatingTypes`: `Spec => []TypeOK`.
- `RatingCorrect`: `Spec => []NeverRatesAnother`.
- `PopularityCorrect`: `Spec => []PopularityComesFromRatings`.

`NeverRatesAnother` allows for the blank screen of a download that was no image, where
the button rates an image nobody sees; nothing in the repository says that this cannot
happen. It excludes that a button rates another document than the one on the screen. It
speaks of active buttons; what makes it true happens while they are off. `ScreenInv` adds that a list has no document twice, that only its first may have
been rated, and what each of "documents", "image" and "write" in `loading` excludes.
That an answer has no document twice comes from its order, which is strict.
`Honest` extends the range of the popularities to the snapshots and the writes under
way; the history only grows, so what was in range stays there, and a rating moves the
range and the write together.

`ITSProofs` proves for any finite set of lessons in any categories, any lists of
videos, and any number of controllers, with the catalog changing the globals at any
time (`ITSAssumption`):

- `ITSTypes`: `Spec => []TypeOK`.
- `OneAnswerCorrect`: `Spec => []OneAnswerAtATime`.
- `LessonsReached`: `Spec => []EveryLessonIsReached`.
- `VoteCorrect`: `Spec => []VoteIsInItsLesson`.
- `TitleCorrect`: `Spec => []TitleMatchesAfterNext`.

`Inv` takes the place of the cardinalities of `OneAnswerAtATime`: no two votes in the
outbox are of one controller, and a controller with a vote has no query. It adds that
an alert is over active buttons. `EveryLessonIsReached` needs that the title is that of
`lessonNumber`; `AloneInv`, for the other two, says that as long as `alone` holds
everything under way is of the controller on the stack and every reference in it, in
its lists and in its votes is `lessonRef` or of `categoryRef`.

`CatalogProofs` proves for any set of documents closed under prefixes and any depth of
the lessons (`CatalogAssumption`):

- `CatalogTypes`: `Spec => []TypeOK`.
- `RowsCorrect`: `Spec => []RowsMatchRef`.
- `OpensCorrect`: `Spec => []OpensLessons`.
- `OneCollectionCorrect`: `Spec => []RowsOfOneCollection`.

A patient student waits for one query, that of the place (`PlaceInv`). The case that
makes `RowsMatchRef` not inductive is a tap on a lesson: until the answer comes the
rows are those of the category above, to which the controller returns by itself
(`RowsInv`).

`FinderProofs` proves for any pages of any length, any rows and search answers, any
lengths of the videos (`FinderAssumption`):

- `FinderTypes`: `Spec => []TypeOK`.
- `TreeCorrect`: `Spec => []DocumentsAreATree`.
- `NumbersCorrect`: `Spec => []NumbersFollowThePage`.
- `ShortCorrect`: `Spec => []OnlyShortVideos`.
- `LessonsCorrect`: `Spec => []LessonsHaveVideos`.
- `CompleteCorrect`: `Spec => []FinishedRunIsComplete`.

`TreeInv` has what the next write relies on, for each `pc`. `OfferedInv` says that
what was offered and is short is in the database or still in `items`. `NumbersInv`
relates the two counters to the part of the page that was read: `categoryNumber` is one
less than the number of categories so far, `lessonNumber` the number of rows of the
last category; for a well-formed page, on which a category is not interrupted, the
step to the next row adds one to the right one of them. What `durationInSeconds` sums
is computed once, for the one to three numbers (hours, minutes, seconds) that a duration
without days can have (`SumOfParts` and the lemmas after it).

`FeedbackProofs` also proves `SoleVoterCorrect`: `Spec => []SoleVoterIsCounted`. That
the count and the votes under way make up the votes cast does not follow from itself,
because a vote writes the count of a list that may be older than the votes under way.
`SoleInv` says why it is not: the writes under way carry, in their order, each number
from the server's count to the votes cast (`InTurn`), and the lists on the screen,
which show the client's own writes, have all the votes, but for the video just voted on
(`UpToDate`).

`AppProofs` proves for any finite set of lessons and catalog, any number of controllers,
pages and queries (`AppAssumption`: the lessons are all `LessonDepth` deep, and
`CatalogRefs` has every path the catalog can reach in `MaxRequests` taps):

- `AppImplementsITS`: `Spec => ImplementsITS`, the refinement of ITS.
- `AppTypes`: `Spec => []TypeOK`.
- `LessonVotesCorrect`: `Spec => []LessonVotesOwn`.
- `GlobalsCorrect`: `Spec => []GlobalsAgree`.

The module takes `ITSProofs` and `CatalogProofs` as instances, the former under the
refinement mapping `ITSView`, so that the invariants of the parts hold in the app without
being proved again. The refinement needs `MenuInv` (the ITS is idle until its menu
was loaded, which is when the mapping changes to the real globals) and `PathInv` (the
catalog is never deeper than there were taps, so what it takes for a lesson is in
`CatalogRefs`). The types need `PagesInv`, one answer at a time for every page, and
`StackInv`: while the alert of a page is shown the stack cannot become empty under it,
because only completions of votes pop, and there are fewer votes under way than pages.
`CalmInv` says that while a calm page is on the stack or behind its alert, nothing that
could change `lessonRef` is under way and it is the page's own lesson. `AgreeInv` extends
`GlobalsAgree` to the controllers that may still take the next lesson: their lessons
are of the category in `categoryRef`.

`UploaderProofs` proves for files of any number of questions with any line missing
and any number of runs (`UploaderAssumption`: a file's category is known and its answers
name an option):

- `UploaderTypes`: `Spec => []TypeOK`.
- `UnwrapCorrect`: `Spec => []NothingToUnwrapIsMissing`.
- `MissingCorrect`: `Spec => []MissingLineIsNoticed`.
- `AskedCorrect`: `Spec => []AskedInOrder`.

The argument of `LoopInv` is that a line missing before the fourth option puts the
answer where that option should be, and an answer is one part: so whenever an answer
is read, the lines before it are the ones that were meant, and only the answer or the
empty line of a file's last question can be missing unnoticed. `WriteInv` relates the documents written so far to the
questions read. `AskedInOrder` also needs what `str` computes for the numbers below ten.
As `str` is recursive, that such a function exists is proved first (`StrIs`), by least
counterexamples: the approximations of `str` up to n exist and agree with each other.

**What was checked before it was proved.** TLC checked the inductive invariants on the
instances of the runs, those of App also with two pages, six queries and three pending
and no ITS controller (1.8 million states), those of `SoleVoterIsCounted` on an instance of
4.8 million states. `ITS`, `Catalog` and `App` state the assumptions about their constants
as operators (`ITSConstants`, `CatalogConstants`) so that App, which instantiates the
other two, can discharge them.

**What stays with TLC.** The liveness properties (`StudyAgainReachesLessons`,
`AnswerMovesOn`, `VoteMovesOn`, `LessonMovesOn`): TLAPS does not reason about fairness.
Every invariant that a run checks, and the refinement of App, is proved.

## 5. Plan

1. Done: all parts modelled, all their invariants and the refinement of ITS by App
   proved.
2. An abstract catalog (a position in a tree, an open lesson) that Catalog
   implements for a patient student, and an abstract quiz attempt.
3. The documents without `Id`, which the catalog cannot see: who adds it is not in
   the repository.

## 6. Not modelled

- `VideoViewController` and `ViewController`: dead or commented-out code.
- The application delegate and the table cells: no state of the program.
- Layout, wording, animations other than the one the quiz waits for, the YouTube
  player and the search itself.
- `Pods/` (Firebase, gRPC, BoringSSL, SideMenuSwift and others): third-party code
  kept in the repository and not written for it. What the app uses of it is modelled
  from that use and marked external.
- The test targets: the templates of Xcode, without a test.
