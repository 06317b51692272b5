------------------------------ MODULE Feedback ------------------------------
(***************************************************************************)
(* The feedback on the videos of a lesson: LessonViewController on every   *)
(* student's device, the documents of the videos in Firestore, the Scorer  *)
(* script that turns the feedback into the order in which videos are       *)
(* offered, and further runs of the Finder, which replace the documents.   *)
(*                                                                         *)
(* A vote writes the count of the snapshot plus one, so a snapshot taken   *)
(* before somebody else's vote loses that vote.  A Firestore client sends  *)
(* its writes in order and shows them in its own reads before the server   *)
(* has them.                                                               *)
(***************************************************************************)
EXTENDS Integers, Sequences, FiniteSets

CONSTANTS
  Devices,   \* students' devices
  Videos,    \* documents of the lesson, numbered in the order of their ids
  MaxOpens,  \* bound: times each device opens the lesson
  MaxVotes,  \* bound: votes cast on all devices
  MaxErrors, \* bound: Firestore calls that fail
  MaxResets  \* bound: videos a further run of the Finder replaces

ASSUME FeedbackAssumption ==
  /\ Videos \subseteq Nat
  /\ IsFiniteSet(Videos)
  /\ MaxOpens \in [Devices -> Nat]
  /\ MaxVotes \in Nat
  /\ MaxErrors \in Nat
  /\ MaxResets \in Nat

Fields == {"Comprehension", "Incomprehension", "Irrelevance"}

VARIABLES
  count,    \* server: the three counts of each video
  Score,    \* server: the score of each video
  view,     \* what each device shows of the lesson
  videos,   \* LessonViewController.videos: snapshots still to be watched
  enabled,  \* the three buttons of the controller
  outbox,   \* writes of the device the server has not answered, oldest first
  scorer,   \* the Scorer: snapshots it still has to go through
  opens,    \* times each device has opened the lesson
  errors,   \* calls that have failed
  votes,    \* history: votes cast, per video and field
  voters,   \* history: the devices that cast them
  rejected, \* history: <<video, field>> of votes the server refused
  reset,    \* history: videos a further run of the Finder has replaced
  changed   \* history: videos voted on or replaced since the Scorer's query

device == <<view, videos, enabled, outbox, opens>>
history == <<votes, voters, rejected, reset>>
vars == <<count, Score, scorer, changed, errors, device, history>>

Counts == [Fields -> Nat]

Snapshots == [id: Videos, count: Counts]

\* live: the controller that waits for the answer is still on the screen.
Votes == [id: Videos, field: Fields, value: Nat, live: BOOLEAN]

Init ==
  /\ count = [v \in Videos |-> [f \in Fields |-> 0]]
  /\ Score = [v \in Videos |-> 0]
  /\ view = [d \in Devices |-> "closed"]
  /\ videos = [d \in Devices |-> <<>>]
  /\ enabled = [d \in Devices |-> FALSE]
  /\ outbox = [d \in Devices |-> <<>>]
  /\ scorer = <<>>
  /\ opens = [d \in Devices |-> 0]
  /\ errors = 0
  /\ votes = [v \in Videos |-> [f \in Fields |-> 0]]
  /\ voters = [v \in Videos |-> [f \in Fields |-> {}]]
  /\ rejected = {}
  /\ reset = {}
  /\ changed = {}

-----------------------------------------------------------------------------
(* Reading.                                                                *)

\* Positions in d's outbox of writes of a field.
Pending(d, v, f) ==
  {k \in DOMAIN outbox[d] : outbox[d][k].id = v /\ outbox[d][k].field = f}

\* The count d reads: the server's, under d's own latest write.
Seen(d, v, f) ==
  IF Pending(d, v, f) = {} THEN count[v][f]
  ELSE LET last == CHOOSE k \in Pending(d, v, f) :
                     \A j \in Pending(d, v, f) : j <= k
       IN outbox[d][last].value

\* order(by: "Score"): ascending, equal scores by document id.
Before(v, w) == Score[v] < Score[w] \/ (Score[v] = Score[w] /\ v < w)

\* The order of a query's answer (the only member).
Orders == {s \in [1 .. Cardinality(Videos) -> Videos] :
             \A j, k \in DOMAIN s : j < k => Before(s[j], s[k])}

-----------------------------------------------------------------------------
(* LessonViewController on device d.                                       *)

\* The catalog opens the lesson: viewDidLoad.
viewDidLoad(d) ==
  /\ view[d] = "closed"
  /\ opens[d] < MaxOpens[d]
  /\ opens' = [opens EXCEPT ![d] = @ + 1]
  /\ view' = [view EXCEPT ![d] = "loading"]
  /\ videos' = [videos EXCEPT ![d] = <<>>]
  /\ enabled' = [enabled EXCEPT ![d] = FALSE]
  /\ UNCHANGED <<count, Score, scorer, changed, errors, outbox, history>>

\* Mutant: the buttons come on without looking whether there is a video.
getVideo_NoCheck(d, list) ==
  /\ videos' = [videos EXCEPT ![d] = list]
  /\ enabled' = [enabled EXCEPT ![d] = TRUE]

\* getVideo once videos is list: the buttons come on if there is a video.
getVideo(d, list) ==
  /\ videos' = [videos EXCEPT ![d] = list]
  /\ enabled' = [enabled EXCEPT ![d] = @ \/ list # <<>>]

\* getVideos answers, with the lesson or, offline with nothing cached, with
\* no video.
GetVideosDone(d) ==
  /\ view[d] = "loading"
  /\ view' = [view EXCEPT ![d] = "open"]
  /\ \/ getVideo(d, <<>>)
     \/ \E s \in Orders :
          getVideo(d, [k \in 1 .. Cardinality(Videos) |->
                         [id |-> s[k],
                          count |-> [f \in Fields |-> Seen(d, s[k], f)]]])
  /\ UNCHANGED <<count, Score, scorer, changed, errors, outbox, opens, history>>

GetVideosFailed(d) ==
  /\ view[d] = "loading"
  /\ errors < MaxErrors
  /\ errors' = errors + 1
  /\ view' = [view EXCEPT ![d] = "open"]
  /\ UNCHANGED <<count, Score, scorer, changed, videos, enabled, outbox, opens,
                 history>>

\* Mutant: a vote counts down.
Vote_Down(d, f) ==
  /\ LET v == Head(videos[d]).id IN
     /\ outbox' = [outbox EXCEPT ![d] =
                     Append(@, [id |-> v, field |-> f, live |-> TRUE,
                                value |-> Head(videos[d]).count[f] - 1])]
     /\ votes' = [votes EXCEPT ![v][f] = @ + 1]
     /\ voters' = [voters EXCEPT ![v][f] = @ \union {d}]
  /\ enabled' = [enabled EXCEPT ![d] = FALSE]

\* Mutant: buttonsAreEnabled(enabled: false) is forgotten.
Vote_ButtonsStayOn(d, f) ==
  /\ LET v == Head(videos[d]).id IN
     /\ outbox' = [outbox EXCEPT ![d] =
                     Append(@, [id |-> v, field |-> f, live |-> TRUE,
                                value |-> Head(videos[d]).count[f] + 1])]
     /\ votes' = [votes EXCEPT ![v][f] = @ + 1]
     /\ voters' = [voters EXCEPT ![v][f] = @ \union {d}]
  /\ UNCHANGED enabled

\* updateData of field f of the video on the screen.
Vote(d, f) ==
  /\ LET v == Head(videos[d]).id IN
     /\ outbox' = [outbox EXCEPT ![d] =
                     Append(@, [id |-> v, field |-> f, live |-> TRUE,
                                value |-> Head(videos[d]).count[f] + 1])]
     /\ votes' = [votes EXCEPT ![v][f] = @ + 1]
     /\ voters' = [voters EXCEPT ![v][f] = @ \union {d}]
  /\ enabled' = [enabled EXCEPT ![d] = FALSE]

\* The votes cast, as a set, for the bound.
VotesCast == {t \in Videos \X Fields \X (1 .. MaxVotes) :
                t[3] <= votes[t[1]][t[2]]}

\* onComprehensionButton and onIncomprehensionButton.
OnButton(d, f) ==
  /\ view[d] = "open" /\ enabled[d]
  /\ f \in {"Comprehension", "Incomprehension"}
  /\ Cardinality(VotesCast) < MaxVotes
  /\ Vote(d, f)
  /\ UNCHANGED <<count, Score, scorer, changed, errors, view, videos, opens,
                 rejected, reset>>

\* The alert's buttons cover the controller's.
onIrrelevanceButton(d) ==
  /\ view[d] = "open" /\ enabled[d]
  /\ view' = [view EXCEPT ![d] = "alert"]
  /\ UNCHANGED <<count, Score, scorer, changed, errors, videos, enabled, outbox,
                 opens, history>>

AlertYes(d) ==
  /\ view[d] = "alert"
  /\ Cardinality(VotesCast) < MaxVotes
  /\ view' = [view EXCEPT ![d] = "open"]
  /\ Vote(d, "Irrelevance")
  /\ UNCHANGED <<count, Score, scorer, changed, errors, videos, opens, rejected,
                 reset>>

AlertNo(d) ==
  /\ view[d] = "alert"
  /\ view' = [view EXCEPT ![d] = "open"]
  /\ UNCHANGED <<count, Score, scorer, changed, errors, videos, enabled, outbox,
                 opens, history>>

\* Mutant: the next visit finds the same controller, with its completions.
Close_Reused(d, waiting) ==
  /\ view' = [view EXCEPT ![d] = "closed"]
  /\ outbox' = [outbox EXCEPT ![d] = waiting]

\* The controller leaves the stack; its completions find nobody watching.
Close(d, waiting) ==
  /\ view' = [view EXCEPT ![d] = "closed"]
  /\ outbox' = [outbox EXCEPT ![d] =
                  [k \in DOMAIN waiting |-> [waiting[k] EXCEPT !.live = FALSE]]]

\* The back button of the navigation bar.
GoBack(d) ==
  /\ view[d] \in {"loading", "open"}
  /\ Close(d, outbox[d])
  /\ UNCHANGED <<count, Score, scorer, changed, errors, videos, enabled, opens,
                 history>>

\* Mutant: the value is added to the count.
WriteDone_Adds(d) ==
  /\ outbox[d] # <<>>
  /\ LET w == Head(outbox[d]) IN
     /\ count' = [count EXCEPT ![w.id][w.field] = @ + w.value]
     /\ changed' = changed \union {w.id}
     /\ enabled' = [enabled EXCEPT ![d] = @ \/ w.live]
  /\ outbox' = [outbox EXCEPT ![d] = Tail(@)]
  /\ UNCHANGED <<Score, scorer, errors, view, videos, opens, history>>

\* Mutant: the video is removed and the next one is not shown.
WriteDone_NoNext(d) ==
  /\ outbox[d] # <<>>
  /\ LET w == Head(outbox[d]) IN
     /\ count' = [count EXCEPT ![w.id][w.field] = w.value]
     /\ changed' = changed \union {w.id}
     /\ videos' = [videos EXCEPT ![d] = IF w.live THEN Tail(@) ELSE @]
  /\ outbox' = [outbox EXCEPT ![d] = Tail(@)]
  /\ UNCHANGED <<Score, scorer, errors, view, enabled, opens, history>>

\* The server takes d's oldest write and the completion runs: after
\* Comprehension the controller pops itself, otherwise it removes the first
\* video and shows the next.
WriteDone(d) ==
  /\ outbox[d] # <<>>
  /\ LET w == Head(outbox[d])
         rest == Tail(outbox[d])
     IN /\ count' = [count EXCEPT ![w.id][w.field] = w.value]
        /\ changed' = changed \union {w.id}
        /\ \/ /\ ~w.live
              /\ outbox' = [outbox EXCEPT ![d] = rest]
              /\ UNCHANGED <<view, videos, enabled>>
           \/ /\ w.live /\ w.field = "Comprehension"
              /\ Close(d, rest)
              /\ UNCHANGED <<videos, enabled>>
           \/ /\ w.live /\ w.field # "Comprehension"
              /\ outbox' = [outbox EXCEPT ![d] = rest]
              /\ getVideo(d, Tail(videos[d]))
              /\ UNCHANGED view
  /\ UNCHANGED <<Score, scorer, errors, opens, history>>

\* The server refuses it: the error is printed and the buttons stay off.
WriteFailed(d) ==
  /\ outbox[d] # <<>>
  /\ errors < MaxErrors
  /\ errors' = errors + 1
  /\ rejected' = rejected \union {<<Head(outbox[d]).id, Head(outbox[d]).field>>}
  /\ outbox' = [outbox EXCEPT ![d] = Tail(@)]
  /\ UNCHANGED <<count, Score, scorer, changed, view, videos, enabled, opens,
                 votes, voters, reset>>

-----------------------------------------------------------------------------
(* The Scorer script.                                                      *)

ScoreOf(c) == 2 * c["Comprehension"] - c["Incomprehension"]
              - 2 * c["Irrelevance"]

\* videos.order_by('Score').get()
ScorerQuery ==
  /\ scorer = <<>>
  /\ \E s \in Orders :
       scorer' = [k \in 1 .. Cardinality(Videos) |->
                    [id |-> s[k], count |-> count[s[k]]]]
  /\ changed' = {}
  /\ UNCHANGED <<count, Score, errors, device, history>>

\* Mutant: the score is added to the old one.
ScorerUpdate_Adds ==
  /\ scorer # <<>>
  /\ Score' = [Score EXCEPT ![Head(scorer).id] = @ + ScoreOf(Head(scorer).count)]
  /\ scorer' = Tail(scorer)
  /\ UNCHANGED <<count, changed, errors, device, history>>

\* The document is updated with the score of the counts the query read.
ScorerUpdate ==
  /\ scorer # <<>>
  /\ Score' = [Score EXCEPT ![Head(scorer).id] = ScoreOf(Head(scorer).count)]
  /\ scorer' = Tail(scorer)
  /\ UNCHANGED <<count, changed, errors, device, history>>

-----------------------------------------------------------------------------
(* The Finder script, run again (module Finder has the rest of it).        *)

\* The video's document is set anew, with all its counts.
FinderSet(v) ==
  /\ Cardinality(reset \union {v}) <= MaxResets
  /\ count' = [count EXCEPT ![v] = [f \in Fields |-> 0]]
  /\ Score' = [Score EXCEPT ![v] = 0]
  /\ reset' = reset \union {v}
  /\ changed' = changed \union {v}
  /\ UNCHANGED <<scorer, errors, device, votes, voters, rejected>>

-----------------------------------------------------------------------------
Next ==
  \/ \E d \in Devices :
       \/ viewDidLoad(d)
       \/ GetVideosDone(d)
       \/ GetVideosFailed(d)
       \/ \E f \in Fields : OnButton(d, f)
       \/ onIrrelevanceButton(d)
       \/ AlertYes(d)
       \/ AlertNo(d)
       \/ GoBack(d)
       \/ WriteDone(d)
       \/ WriteFailed(d)
  \/ ScorerQuery
  \/ ScorerUpdate
  \/ \E v \in Videos : FinderSet(v)

Spec == Init /\ [][Next]_vars

\* A connected Firestore client retries until the server has answered;
\* nothing is assumed of the students or of when the scripts are run.
FairSpec ==
  /\ Spec
  /\ \A d \in Devices :
       /\ WF_vars(GetVideosDone(d) \/ GetVideosFailed(d))
       /\ WF_vars(WriteDone(d) \/ WriteFailed(d))

-----------------------------------------------------------------------------
ServerTypeOK ==
  /\ count \in [Videos -> Counts]
  /\ Score \in [Videos -> Int]
  /\ scorer \in Seq(Snapshots)
  /\ errors \in Nat

DeviceTypeOK ==
  /\ view \in [Devices -> {"closed", "loading", "open", "alert"}]
  /\ videos \in [Devices -> Seq(Snapshots)]
  /\ enabled \in [Devices -> BOOLEAN]
  /\ outbox \in [Devices -> Seq(Votes)]
  /\ opens \in [Devices -> Nat]

HistoryTypeOK ==
  /\ votes \in [Videos -> Counts]
  /\ voters \in [Videos -> [Fields -> SUBSET Devices]]
  /\ rejected \subseteq Videos \X Fields
  /\ reset \subseteq Videos
  /\ changed \subseteq Videos

TypeOK == ServerTypeOK /\ DeviceTypeOK /\ HistoryTypeOK

\* No vote is counted twice: whatever the devices read and in whatever order
\* their writes reach the server, a count is at most the votes cast, also
\* when a vote on a snapshot from before brings back the counts the Finder
\* has set to 0 (seeOtherVideo, onComprehensionButton write snapshot + 1).
NoVoteCountedTwice ==
  \A v \in Videos, f \in Fields : count[v][f] <= votes[v][f]

\* The votes of a student who is the only one to vote on a video in this way
\* are all counted, once the server has them, however often the lesson was
\* closed and opened while they were under way, unless the Finder was run.
SoleVoterIsCounted ==
  \A v \in Videos, f \in Fields, d \in Devices :
    voters[v][f] = {d} /\ <<v, f>> \notin rejected /\ v \notin reset =>
      count[v][f] + Cardinality(Pending(d, v, f)) = votes[v][f]

\* The completion of a vote works on the video that was voted on: while a
\* controller waits, that video is the first of its list, it waits for one
\* vote only and its buttons are off (seeOtherVideo removes videos[0]).
CompletionFindsItsVideo ==
  \A d \in Devices : \A k \in DOMAIN outbox[d] :
    outbox[d][k].live =>
      /\ view[d] = "open" /\ ~enabled[d]
      /\ videos[d] # <<>> /\ Head(videos[d]).id = outbox[d][k].id
      /\ k = Len(outbox[d])

\* A button that can be pressed has a video to vote on: videos[0] is never
\* out of range.
ButtonsHaveAVideo ==
  \A d \in Devices : view[d] \in {"open", "alert"} /\ enabled[d] =>
    videos[d] # <<>>

\* Votes and Finder runs that race with a run of the Scorer aside, the scores
\* are those of the counts: a video the Scorer has passed, that nobody voted
\* on and the Finder did not replace since the query, has the score of its
\* counts.
ScoresMatchCounts ==
  \A v \in Videos :
    v \notin changed /\ (\A k \in DOMAIN scorer : scorer[k].id # v) =>
      Score[v] = ScoreOf(count[v])

\* A student who has voted is not left with a video and dead buttons, unless
\* a call failed (seeOtherVideo, onComprehensionButton).
VoteMovesOn ==
  \A d \in Devices :
    view[d] = "open" /\ ~enabled[d] /\ videos[d] # <<>>
      ~> errors > 0 \/ ~(view[d] = "open" /\ ~enabled[d] /\ videos[d] # <<>>)
=============================================================================
