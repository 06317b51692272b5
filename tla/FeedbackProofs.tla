--------------------------- MODULE FeedbackProofs ---------------------------
(***************************************************************************)
(* Proofs about Feedback, for any devices, videos and bounds.              *)
(***************************************************************************)
EXTENDS Feedback, SequenceTheorems, FiniteSetTheorems, WellFoundedInduction,
        TLAPS

-----------------------------------------------------------------------------
(* Reading.                                                                *)

\* A non-empty set of positions has a last one.
LEMMA LastPosition ==
  ASSUME NEW n \in Nat, NEW S \in SUBSET (1 .. n), S # {}
  PROVE  \E k \in S : \A j \in S : j <= k
<1> DEFINE T == {n - k : k \in S}
<1>1. T \subseteq Nat /\ T # {}
  <2>1. \A k \in S : n - k \in Nat
    OBVIOUS
  <2>2. PICK k \in S : TRUE
    OBVIOUS
  <2>3. n - k \in T
    OBVIOUS
  <2> QED BY <2>1, <2>3
<1>2. \E x \in T : \A y \in T : ~ (<<y, x>> \in OpToRel(<, Nat))
  <2> HIDE DEF T
  <2> QED BY <1>1, WFMin, NatLessThanWellFounded
<1>3. PICK x \in T : \A y \in T : ~ (<<y, x>> \in OpToRel(<, Nat))
  BY <1>2
<1>4. \A y \in T : ~ (y < x)
  BY <1>1, <1>3 DEF OpToRel
<1> QED BY <1>4

\* A device reads a number: the server's count or its own latest write.
LEMMA SeenIsANumber ==
  ASSUME TypeOK, NEW d \in Devices, NEW v \in Videos, NEW f \in Fields
  PROVE  /\ Seen(d, v, f) \in Nat
         /\ \/ Seen(d, v, f) = count[v][f]
            \/ \E k \in Pending(d, v, f) : Seen(d, v, f) = outbox[d][k].value
<1> USE DEF TypeOK, ServerTypeOK, DeviceTypeOK
<1>1. CASE Pending(d, v, f) = {}
  BY <1>1 DEF Seen, Counts
<1>2. CASE Pending(d, v, f) # {}
  <2>1. outbox[d] \in Seq(Votes) /\ Len(outbox[d]) \in Nat
    OBVIOUS
  <2>2. Pending(d, v, f) \in SUBSET (1 .. Len(outbox[d]))
    BY <2>1 DEF Pending
  <2> DEFINE last == CHOOSE k \in Pending(d, v, f) :
                       \A j \in Pending(d, v, f) : j <= k
  <2>3. last \in Pending(d, v, f)
    BY <1>2, <2>1, <2>2, LastPosition
  <2>4. Seen(d, v, f) = outbox[d][last].value
    BY <1>2 DEF Seen
  <2>5. outbox[d][last] \in Votes
    BY <2>1, <2>2, <2>3
  <2> QED BY <2>3, <2>4, <2>5 DEF Votes
<1> QED BY <1>1, <1>2
-----------------------------------------------------------------------------
(* The types, and who waits for what.  A vote reads the first video, so the *)
(* types rest on the buttons being off when there is none.                 *)

\* What a device shows and what it waits for.
DeviceOK(d) ==
  /\ \A k \in DOMAIN outbox[d] :
       outbox[d][k].live =>
         /\ view[d] = "open" /\ ~enabled[d]
         /\ videos[d] # <<>> /\ Head(videos[d]).id = outbox[d][k].id
         /\ k = Len(outbox[d])
  /\ view[d] \in {"open", "alert"} /\ enabled[d] => videos[d] # <<>>
  /\ view[d] = "alert" => enabled[d]
  /\ view[d] = "loading" => ~enabled[d]

DevicesOK == \A d \in Devices : DeviceOK(d)

\* The first video and the rest of a list, for lists of any kind.
LEMMA HeadAndTail ==
  ASSUME NEW S, NEW s \in Seq(S), s # <<>>
  PROVE  /\ Head(s) \in S /\ Head(s) = s[1]
         /\ Tail(s) \in Seq(S)
         /\ Len(s) \in Nat \ {0} /\ DOMAIN s = 1 .. Len(s)
         /\ Len(Tail(s)) = Len(s) - 1
         /\ DOMAIN Tail(s) = 1 .. Len(s) - 1
         /\ \A k \in DOMAIN Tail(s) : k + 1 \in DOMAIN s /\ Tail(s)[k] = s[k + 1]
<1>1. /\ Head(s) \in S
      /\ Tail(s) \in Seq(S)
      /\ Len(Tail(s)) = Len(s) - 1
      /\ \A i \in 1 .. Len(Tail(s)) : Tail(s)[i] = s[i + 1]
  BY HeadTailProperties
<1>2. Len(s) \in Nat /\ Len(s) # 0 /\ DOMAIN s = 1 .. Len(s) /\ Head(s) = s[1]
  OBVIOUS
<1>3. DOMAIN Tail(s) = 1 .. Len(s) - 1
  BY <1>1
<1> QED BY <1>1, <1>2, <1>3

\* What the query of a device answers is a list of snapshots.
LEMMA AnswerIsAList ==
  ASSUME TypeOK, NEW d \in Devices, NEW s \in Orders
  PROVE  [k \in 1 .. Cardinality(Videos) |->
            [id |-> s[k], count |-> [f \in Fields |-> Seen(d, s[k], f)]]]
           \in Seq(Snapshots)
<1>1. Cardinality(Videos) \in Nat
  BY FeedbackAssumption, FS_CardinalityType
<1>2. \A k \in 1 .. Cardinality(Videos) : s[k] \in Videos
  BY DEF Orders
<1>3. \A k \in 1 .. Cardinality(Videos), f \in Fields : Seen(d, s[k], f) \in Nat
  BY <1>2, SeenIsANumber
<1>4. \A k \in 1 .. Cardinality(Videos) :
        [id |-> s[k], count |-> [f \in Fields |-> Seen(d, s[k], f)]] \in Snapshots
  BY <1>2, <1>3 DEF Snapshots, Counts
<1> QED BY <1>1, <1>4

\* A vote is well-typed and goes to the first video.
LEMMA VoteTypes ==
  ASSUME TypeOK, NEW d \in Devices, NEW f \in Fields, videos[d] # <<>>,
         Vote(d, f)
  PROVE  /\ outbox' \in [Devices -> Seq(Votes)]
         /\ votes' \in [Videos -> Counts]
         /\ voters' \in [Videos -> [Fields -> SUBSET Devices]]
         /\ enabled' \in [Devices -> BOOLEAN]
<1> USE DEF TypeOK, ServerTypeOK, DeviceTypeOK, HistoryTypeOK
<1>1. Head(videos[d]) \in Snapshots
  BY HeadAndTail
<1> DEFINE w == [id |-> Head(videos[d]).id, field |-> f, live |-> TRUE,
                 value |-> Head(videos[d]).count[f] + 1]
<1>2. w \in Votes
  BY <1>1 DEF Snapshots, Counts, Votes
<1>3. Append(outbox[d], w) \in Seq(Votes)
  BY <1>2
<1>4. outbox' = [outbox EXCEPT ![d] = Append(outbox[d], w)]
  BY DEF Vote
<1>5. outbox' \in [Devices -> Seq(Votes)]
  BY <1>3, <1>4
<1>6. Head(videos[d]).id \in Videos
  BY <1>1 DEF Snapshots
<1>7. votes' \in [Videos -> Counts]
  BY <1>6 DEF Vote, Counts
<1>8. voters' \in [Videos -> [Fields -> SUBSET Devices]]
  BY <1>6 DEF Vote
<1>9. enabled' \in [Devices -> BOOLEAN]
  BY DEF Vote
<1> QED BY <1>5, <1>7, <1>8, <1>9

\* Closing a lesson keeps the votes and marks all of them as not waited for.
LEMMA CloseTypes ==
  ASSUME TypeOK, NEW d \in Devices, NEW waiting \in Seq(Votes),
         Close(d, waiting)
  PROVE  /\ view' \in [Devices -> {"closed", "loading", "open", "alert"}]
         /\ view' = [view EXCEPT ![d] = "closed"]
         /\ outbox' \in [Devices -> Seq(Votes)]
         /\ \A e \in Devices \ {d} : outbox'[e] = outbox[e]
         /\ DOMAIN outbox'[d] = DOMAIN waiting
         /\ \A k \in DOMAIN waiting : /\ ~outbox'[d][k].live
                                      /\ outbox'[d][k].id = waiting[k].id
                                      /\ outbox'[d][k].field = waiting[k].field
                                      /\ outbox'[d][k].value = waiting[k].value
<1> USE DEF TypeOK, DeviceTypeOK
<1> DEFINE u == [k \in DOMAIN waiting |-> [waiting[k] EXCEPT !.live = FALSE]]
<1>1. \A k \in DOMAIN waiting : waiting[k] \in Votes
  OBVIOUS
<1>2. \A k \in DOMAIN waiting : [waiting[k] EXCEPT !.live = FALSE] \in Votes
  BY <1>1 DEF Votes
<1>3. u \in Seq(Votes)
  <2>1. DOMAIN waiting = 1 .. Len(waiting) /\ Len(waiting) \in Nat
    OBVIOUS
  <2> QED BY <1>2, <2>1
<1>4. outbox' = [outbox EXCEPT ![d] = u] /\ view' = [view EXCEPT ![d] = "closed"]
  BY DEF Close
<1>5. outbox'[d] = u
  BY <1>4
<1>6. \A k \in DOMAIN waiting : /\ ~u[k].live
                                /\ u[k].id = waiting[k].id
                                /\ u[k].field = waiting[k].field
                                /\ u[k].value = waiting[k].value
  BY <1>1 DEF Votes
<1>7. DOMAIN u = DOMAIN waiting
  OBVIOUS
<1> HIDE DEF u
<1> QED BY <1>3, <1>4, <1>5, <1>6, <1>7
\* Steps that leave a device alone, and a step of another device, keep what
\* is true of it.
LEMMA DeviceFrame ==
  ASSUME NEW e \in Devices, DeviceOK(e),
         view'[e] = view[e], enabled'[e] = enabled[e],
         videos'[e] = videos[e], outbox'[e] = outbox[e]
  PROVE  DeviceOK(e)'
BY DEF DeviceOK

\* Opening the lesson, its answer, and the alert.
LEMMA ReadingStep ==
  ASSUME TypeOK, DevicesOK, NEW d \in Devices,
         \/ viewDidLoad(d) \/ GetVideosDone(d) \/ GetVideosFailed(d)
         \/ onIrrelevanceButton(d) \/ AlertNo(d)
  PROVE  TypeOK' /\ DevicesOK'
<1> USE DEF TypeOK, ServerTypeOK, DeviceTypeOK, HistoryTypeOK
<1>0. DeviceOK(d)
  BY DEF DevicesOK
<1>1. CASE viewDidLoad(d)
  <2>1. TypeOK'
    BY <1>1 DEF viewDidLoad, history
  <2>2. DeviceOK(d)'
    BY <1>0, <1>1 DEF viewDidLoad, DeviceOK
  <2>3. \A e \in Devices \ {d} : DeviceOK(e)'
    BY <1>1, DeviceFrame DEF viewDidLoad, DevicesOK
  <2> QED BY <2>1, <2>2, <2>3 DEF DevicesOK
<1>2. CASE GetVideosDone(d)
  <2>1. PICK list \in Seq(Snapshots) : getVideo(d, list)
    <3>1. CASE getVideo(d, <<>>)
      <4>1. <<>> \in Seq(Snapshots)
        OBVIOUS
      <4> QED BY <3>1, <4>1
    <3>2. CASE \E s \in Orders :
                 getVideo(d, [k \in 1 .. Cardinality(Videos) |->
                    [id |-> s[k],
                     count |-> [f \in Fields |-> Seen(d, s[k], f)]]])
      BY <3>2, AnswerIsAList
    <3> QED BY <1>2, <3>1, <3>2 DEF GetVideosDone
  <2>2. /\ view[d] = "loading" /\ view' = [view EXCEPT ![d] = "open"]
        /\ UNCHANGED <<count, Score, scorer, changed, errors, outbox, opens,
                       history>>
    BY <1>2 DEF GetVideosDone
  <2>3. TypeOK'
    BY <2>1, <2>2 DEF getVideo, history
  <2>4. DeviceOK(d)'
    BY <1>0, <2>1, <2>2 DEF getVideo, DeviceOK
  <2>5. \A e \in Devices \ {d} : DeviceOK(e)'
    BY <2>1, <2>2, DeviceFrame DEF getVideo, DevicesOK
  <2> QED BY <2>3, <2>4, <2>5 DEF DevicesOK
<1>3. CASE GetVideosFailed(d)
  <2>1. TypeOK'
    BY <1>3 DEF GetVideosFailed, history
  <2>2. DeviceOK(d)'
    BY <1>0, <1>3 DEF GetVideosFailed, DeviceOK
  <2>3. \A e \in Devices \ {d} : DeviceOK(e)'
    BY <1>3, DeviceFrame DEF GetVideosFailed, DevicesOK
  <2> QED BY <2>1, <2>2, <2>3 DEF DevicesOK
<1>4. CASE onIrrelevanceButton(d) \/ AlertNo(d)
  <2>1. TypeOK'
    BY <1>4 DEF onIrrelevanceButton, AlertNo, history
  <2>2. DeviceOK(d)'
    BY <1>0, <1>4 DEF onIrrelevanceButton, AlertNo, DeviceOK
  <2>3. \A e \in Devices \ {d} : DeviceOK(e)'
    BY <1>4, DeviceFrame DEF onIrrelevanceButton, AlertNo, DevicesOK
  <2> QED BY <2>1, <2>2, <2>3 DEF DevicesOK
<1> QED BY <1>1, <1>2, <1>3, <1>4

\* A vote, from a button or from the alert.
LEMMA VotingStep ==
  ASSUME TypeOK, DevicesOK, NEW d \in Devices, NEW f \in Fields,
         OnButton(d, f) \/ (f = "Irrelevance" /\ AlertYes(d))
  PROVE  TypeOK' /\ DevicesOK'
<1> USE DEF TypeOK, ServerTypeOK, DeviceTypeOK, HistoryTypeOK
<1>0. DeviceOK(d)
  BY DEF DevicesOK
<1>1. /\ view[d] \in {"open", "alert"} /\ enabled[d]
      /\ view' = [view EXCEPT ![d] = "open"]
      /\ Vote(d, f)
      /\ UNCHANGED <<count, Score, scorer, changed, errors, videos, opens,
                     rejected, reset>>
  <2>1. CASE OnButton(d, f)
    BY <2>1 DEF OnButton
  <2>2. CASE f = "Irrelevance" /\ AlertYes(d)
    BY <1>0, <2>2 DEF AlertYes, DeviceOK
  <2> QED BY <2>1, <2>2
<1>2. videos[d] # <<>>
  BY <1>0, <1>1 DEF DeviceOK
<1>3. TypeOK'
  BY <1>1, <1>2, VoteTypes
<1>4. DeviceOK(d)'
  <2> DEFINE w == [id |-> Head(videos[d]).id, field |-> f, live |-> TRUE,
                   value |-> Head(videos[d]).count[f] + 1]
             box == outbox[d]
  <2>1. box \in Seq(Votes) /\ Len(box) \in Nat /\ DOMAIN box = 1 .. Len(box)
    OBVIOUS
  <2>2. outbox'[d] = Append(box, w) /\ enabled'[d] = FALSE
    BY <1>1 DEF Vote
  <2>3. \A k \in DOMAIN box : ~box[k].live
    BY <1>0, <1>1 DEF DeviceOK
  <2>4. /\ DOMAIN Append(box, w) = 1 .. Len(box) + 1
        /\ Len(Append(box, w)) = Len(box) + 1
        /\ \A k \in 1 .. Len(box) : Append(box, w)[k] = box[k]
        /\ Append(box, w)[Len(box) + 1] = w
    BY <2>1
  <2>5. w.id = Head(videos[d]).id
    OBVIOUS
  <2>6. videos'[d] = videos[d] /\ view'[d] = "open"
    BY <1>1
  <2> HIDE DEF w, box
  <2>7. \A k \in DOMAIN outbox'[d] : outbox'[d][k].live =>
          k = Len(outbox'[d]) /\ outbox'[d][k] = w
    BY <2>1, <2>2, <2>3, <2>4
  <2> QED BY <1>2, <2>2, <2>5, <2>6, <2>7 DEF DeviceOK
<1>5. \A e \in Devices \ {d} : DeviceOK(e)'
  BY <1>1, DeviceFrame DEF Vote, DevicesOK
<1> QED BY <1>3, <1>4, <1>5 DEF DevicesOK
\* The lesson is closed while votes may be under way.
LEMMA ClosingStep ==
  ASSUME TypeOK, DevicesOK, NEW d \in Devices, NEW waiting \in Seq(Votes),
         Close(d, waiting), UNCHANGED <<videos, enabled>>
  PROVE  DevicesOK'
<1> USE DEF TypeOK, DeviceTypeOK
<1>1. DeviceOK(d)'
  BY CloseTypes DEF DeviceOK
<1>2. \A e \in Devices \ {d} : DeviceOK(e)'
  BY CloseTypes, DeviceFrame DEF DevicesOK
<1> QED BY <1>1, <1>2 DEF DevicesOK

LEMMA GoBackStep ==
  ASSUME TypeOK, DevicesOK, NEW d \in Devices, GoBack(d)
  PROVE  TypeOK' /\ DevicesOK'
<1>1. outbox[d] \in Seq(Votes)
  BY DEF TypeOK, DeviceTypeOK
<1>2. Close(d, outbox[d]) /\ UNCHANGED <<videos, enabled>>
  BY DEF GoBack
<1>3. TypeOK'
  BY <1>1, <1>2, CloseTypes
  DEF GoBack, TypeOK, ServerTypeOK, DeviceTypeOK, HistoryTypeOK, history
<1>4. DevicesOK'
  BY <1>1, <1>2, ClosingStep
<1> QED BY <1>3, <1>4

\* The server's answer to the oldest vote of a device.
LEMMA AnswerStep ==
  ASSUME TypeOK, DevicesOK, NEW d \in Devices, WriteDone(d) \/ WriteFailed(d)
  PROVE  TypeOK' /\ DevicesOK'
<1> USE DEF TypeOK, ServerTypeOK, DeviceTypeOK, HistoryTypeOK
<1> DEFINE box == outbox[d]
           w == Head(box)
           rest == Tail(box)
<1>0. DeviceOK(d) /\ box # <<>> /\ box \in Seq(Votes)
  BY DEF DevicesOK, WriteDone, WriteFailed
<1>1. /\ w \in Votes /\ w = box[1] /\ rest \in Seq(Votes)
      /\ Len(box) \in Nat \ {0} /\ DOMAIN box = 1 .. Len(box)
      /\ Len(rest) = Len(box) - 1
      /\ DOMAIN rest = 1 .. Len(box) - 1
      /\ \A k \in DOMAIN rest : k + 1 \in DOMAIN box /\ rest[k] = box[k + 1]
  <2> HIDE DEF box
  <2> QED BY <1>0, HeadAndTail
<1>6. \A k \in DOMAIN box : box[k].live =>
        /\ view[d] = "open" /\ ~enabled[d]
        /\ videos[d] # <<>> /\ Head(videos[d]).id = box[k].id
        /\ k = Len(box)
  BY <1>0 DEF DeviceOK
<1>2. w.live => box = <<w>> /\ rest = <<>>
  <2> HIDE DEF box, w, rest
  <2>1. 1 \in DOMAIN box
    BY <1>1
  <2>2. w.live => 1 = Len(box)
    BY <1>1, <1>6, <2>1
  <2> HIDE DEF TypeOK, ServerTypeOK, DeviceTypeOK, HistoryTypeOK
  <2>5. /\ rest \in Seq(Votes) /\ Len(rest) = Len(box) - 1
        /\ box \in Seq(Votes) /\ w = box[1]
    BY <1>0, <1>1
  <2>3. w.live => rest = <<>>
    <3>1. w.live => Len(rest) = 0
      BY <2>2, <2>5
    <3> QED BY <2>5, <3>1, EmptySeq
  <2>4. w.live => box = <<w>>
    BY <2>2, <2>5
  <2> QED BY <2>3, <2>4
<1>3. \A k \in DOMAIN rest : rest[k].live =>
        /\ view[d] = "open" /\ ~enabled[d]
        /\ videos[d] # <<>> /\ Head(videos[d]).id = rest[k].id
        /\ k = Len(rest)
  <2> HIDE DEF box, w, rest
  <2> SUFFICES ASSUME NEW k \in DOMAIN rest, rest[k].live
               PROVE  /\ view[d] = "open" /\ ~enabled[d]
                      /\ videos[d] # <<>> /\ Head(videos[d]).id = rest[k].id
                      /\ k = Len(rest)
    OBVIOUS
  <2>1. k + 1 \in DOMAIN box /\ rest[k] = box[k + 1] /\ k \in 1 .. Len(box) - 1
    BY <1>1
  <2>2. /\ view[d] = "open" /\ ~enabled[d]
        /\ videos[d] # <<>> /\ Head(videos[d]).id = box[k + 1].id
        /\ k + 1 = Len(box)
    BY <1>6, <2>1
  <2> QED BY <1>1, <2>1, <2>2
<1>4. CASE WriteFailed(d)
  <2>1. outbox' = [outbox EXCEPT ![d] = rest]
    BY <1>4 DEF WriteFailed
  <2>2. rejected' = rejected \union {<<w.id, w.field>>}
    BY <1>4 DEF WriteFailed
  <2>3. <<w.id, w.field>> \in Videos \X Fields
    BY <1>1 DEF Votes
  <2>4. UNCHANGED <<count, Score, scorer, changed, view, videos, enabled, opens,
                    votes, voters, reset>> /\ errors' = errors + 1
    BY <1>4 DEF WriteFailed
  <2> HIDE DEF rest, box, w
  <2>5. TypeOK'
    BY <1>1, <2>1, <2>2, <2>3, <2>4
  <2>6. DeviceOK(d)'
    BY <1>0, <1>3, <2>1, <2>4 DEF DeviceOK
  <2>7. \A e \in Devices \ {d} : DeviceOK(e)'
    BY <2>1, <2>4, DeviceFrame DEF DevicesOK
  <2> QED BY <2>5, <2>6, <2>7 DEF DevicesOK
<1>5. CASE WriteDone(d)
  <2>1. /\ count' = [count EXCEPT ![w.id][w.field] = w.value]
        /\ changed' = changed \union {w.id}
        /\ UNCHANGED <<Score, scorer, errors, opens, history>>
    BY <1>5 DEF WriteDone
  <2>2. w.id \in Videos /\ w.field \in Fields /\ w.value \in Nat
    BY <1>1 DEF Votes
  <2>3. ServerTypeOK' /\ HistoryTypeOK' /\ opens' = opens
    <3> HIDE DEF w
    <3> QED BY <2>1, <2>2 DEF Counts, history
  <2>4. CASE ~w.live /\ outbox' = [outbox EXCEPT ![d] = rest]
             /\ UNCHANGED <<view, videos, enabled>>
    <3> HIDE DEF rest, box, w
    <3>1. DeviceOK(d)'
      BY <1>0, <1>3, <2>4 DEF DeviceOK
    <3>2. \A e \in Devices \ {d} : DeviceOK(e)'
      BY <2>4, DeviceFrame DEF DevicesOK
    <3>3. DeviceTypeOK'
      BY <1>1, <2>3, <2>4
    <3> QED BY <2>3, <3>1, <3>2, <3>3 DEF DevicesOK
  <2>5. CASE Close(d, rest) /\ UNCHANGED <<videos, enabled>>
    <3> HIDE DEF rest, box, w
    <3>1. DevicesOK'
      BY <1>1, <2>5, ClosingStep
    <3>2. DeviceTypeOK'
      BY <1>1, <2>3, <2>5, CloseTypes
    <3> QED BY <2>3, <3>1, <3>2
  <2>6. CASE /\ w.live /\ outbox' = [outbox EXCEPT ![d] = rest]
             /\ getVideo(d, Tail(videos[d])) /\ UNCHANGED view
    <3>1. videos[d] # <<>> /\ ~enabled[d] /\ view[d] = "open"
      BY <1>0, <1>1, <2>6 DEF DeviceOK
    <3>2. Tail(videos[d]) \in Seq(Snapshots)
      BY <3>1, HeadAndTail
    <3> HIDE DEF rest, box, w
    <3>3. rest = <<>>
      BY <1>2, <2>6
    <3>4. DeviceTypeOK'
      BY <1>1, <2>3, <2>6, <3>2 DEF getVideo
    <3>5. DeviceOK(d)'
      BY <2>6, <3>1, <3>3 DEF DeviceOK, getVideo
    <3>6. \A e \in Devices \ {d} : DeviceOK(e)'
      BY <2>6, DeviceFrame DEF DevicesOK, getVideo
    <3> QED BY <2>3, <3>4, <3>5, <3>6 DEF DevicesOK
  <2> QED BY <1>5, <2>4, <2>5, <2>6 DEF WriteDone
<1> QED BY <1>4, <1>5
LEMMA ScoreIsANumber ==
  ASSUME NEW c \in Counts
  PROVE  ScoreOf(c) \in Int
<1>1. /\ c["Comprehension"] \in Nat
      /\ c["Incomprehension"] \in Nat
      /\ c["Irrelevance"] \in Nat
  BY DEF Counts, Fields
<1> QED BY <1>1 DEF ScoreOf

\* The Scorer and a stuttering step touch no device.
LEMMA ScorerStep ==
  ASSUME TypeOK, DevicesOK, ScorerQuery \/ ScorerUpdate \/ UNCHANGED vars
  PROVE  TypeOK' /\ DevicesOK'
<1> USE DEF TypeOK, ServerTypeOK, DeviceTypeOK, HistoryTypeOK
<1>1. UNCHANGED <<device, history, count, errors>>
  BY DEF ScorerQuery, ScorerUpdate, vars
<1>2. DevicesOK'
  BY <1>1, DeviceFrame DEF DevicesOK, device
<1>3. scorer' \in Seq(Snapshots) /\ Score' \in [Videos -> Int]
  <2>1. CASE ScorerQuery
    <3>1. PICK s \in Orders :
            scorer' = [k \in 1 .. Cardinality(Videos) |->
                         [id |-> s[k], count |-> count[s[k]]]]
      BY <2>1 DEF ScorerQuery
    <3>2. Cardinality(Videos) \in Nat
      BY FeedbackAssumption, FS_CardinalityType
    <3>3. \A k \in 1 .. Cardinality(Videos) :
            [id |-> s[k], count |-> count[s[k]]] \in Snapshots
      BY DEF Orders, Snapshots
    <3>4. [k \in 1 .. Cardinality(Videos) |->
             [id |-> s[k], count |-> count[s[k]]]] \in Seq(Snapshots)
      BY <3>2, <3>3
    <3>5. Score' = Score
      BY <2>1 DEF ScorerQuery
    <3> QED BY <3>1, <3>4, <3>5
  <2>2. CASE ScorerUpdate
    <3>1. scorer # <<>> /\ scorer' = Tail(scorer)
          /\ Score' = [Score EXCEPT ![Head(scorer).id] =
                                       ScoreOf(Head(scorer).count)]
      BY <2>2 DEF ScorerUpdate
    <3>2. Head(scorer) \in Snapshots /\ Tail(scorer) \in Seq(Snapshots)
      BY <3>1, HeadAndTail
    <3>3. ScoreOf(Head(scorer).count) \in Int
      BY <3>2, ScoreIsANumber DEF Snapshots
    <3> QED BY <3>1, <3>2, <3>3
  <2>3. CASE UNCHANGED vars
    BY <2>3 DEF vars
  <2> QED BY <2>1, <2>2, <2>3
<1>4. changed' \subseteq Videos
  BY DEF ScorerQuery, ScorerUpdate, vars
<1>5. TypeOK'
  BY <1>1, <1>3, <1>4 DEF device, history
<1> QED BY <1>2, <1>5

\* The Finder replaces a document and touches no device.
LEMMA FinderStep ==
  ASSUME TypeOK, DevicesOK, NEW v \in Videos, FinderSet(v)
  PROVE  TypeOK' /\ DevicesOK'
<1> USE DEF TypeOK, ServerTypeOK, DeviceTypeOK, HistoryTypeOK
<1>1. UNCHANGED <<scorer, errors, device, votes, voters, rejected>>
  BY DEF FinderSet
<1>2. DevicesOK'
  BY <1>1, DeviceFrame DEF DevicesOK, device
<1>3. count' \in [Videos -> Counts]
  <2>1. [f \in Fields |-> 0] \in Counts
    BY DEF Counts
  <2> QED BY <2>1 DEF FinderSet
<1>4. /\ Score' \in [Videos -> Int]
      /\ changed' \subseteq Videos
      /\ reset' \subseteq Videos
  BY DEF FinderSet
<1>5. TypeOK'
  BY <1>1, <1>3, <1>4 DEF device
<1> QED BY <1>2, <1>5

LEMMA ControlInit == Init => TypeOK /\ DevicesOK
<1> SUFFICES ASSUME Init PROVE TypeOK /\ DevicesOK
  OBVIOUS
<1>1. ServerTypeOK
  BY DEF Init, ServerTypeOK, Counts
<1>2. DeviceTypeOK
  BY DEF Init, DeviceTypeOK
<1>3. HistoryTypeOK
  BY DEF Init, HistoryTypeOK, Counts
<1>4. DevicesOK
  BY DEF Init, DevicesOK, DeviceOK
<1> QED BY <1>1, <1>2, <1>3, <1>4 DEF TypeOK

LEMMA ControlStep ==
  ASSUME TypeOK, DevicesOK, [Next]_vars
  PROVE  TypeOK' /\ DevicesOK'
<1>1. ASSUME NEW d \in Devices,
             \/ viewDidLoad(d) \/ GetVideosDone(d) \/ GetVideosFailed(d)
             \/ onIrrelevanceButton(d) \/ AlertNo(d)
      PROVE  TypeOK' /\ DevicesOK'
  BY <1>1, ReadingStep
<1>2. ASSUME NEW d \in Devices, NEW f \in Fields, OnButton(d, f)
      PROVE  TypeOK' /\ DevicesOK'
  BY <1>2, VotingStep
<1>3. ASSUME NEW d \in Devices, AlertYes(d)
      PROVE  TypeOK' /\ DevicesOK'
  BY <1>3, VotingStep DEF Fields
<1>4. ASSUME NEW d \in Devices, GoBack(d)
      PROVE  TypeOK' /\ DevicesOK'
  BY <1>4, GoBackStep
<1>5. ASSUME NEW d \in Devices, WriteDone(d) \/ WriteFailed(d)
      PROVE  TypeOK' /\ DevicesOK'
  BY <1>5, AnswerStep
<1>6. CASE ScorerQuery \/ ScorerUpdate \/ UNCHANGED vars
  BY <1>6, ScorerStep
<1>7. ASSUME NEW v \in Videos, FinderSet(v)
      PROVE  TypeOK' /\ DevicesOK'
  BY <1>7, FinderStep
<1> QED BY <1>1, <1>2, <1>3, <1>4, <1>5, <1>6, <1>7 DEF Next

LEMMA ControlCorrect == Spec => [](TypeOK /\ DevicesOK)
<1>1. Init => TypeOK /\ DevicesOK
  BY ControlInit
<1>2. (TypeOK /\ DevicesOK) /\ [Next]_vars => (TypeOK /\ DevicesOK)'
  BY ControlStep
<1> QED BY <1>1, <1>2, PTL DEF Spec

\* Type correctness of the devices, the server and the Scorer.
THEOREM FeedbackTypes == Spec => []TypeOK
BY ControlCorrect, PTL

\* The completion of a vote removes the video that was voted on.
THEOREM CompletionCorrect == Spec => []CompletionFindsItsVideo
<1>1. DevicesOK => CompletionFindsItsVideo
  BY DEF DevicesOK, DeviceOK, CompletionFindsItsVideo
<1> QED BY <1>1, ControlCorrect, PTL

\* No button handler indexes an empty list of videos.
THEOREM ButtonsCorrect == Spec => []ButtonsHaveAVideo
<1>1. DevicesOK => ButtonsHaveAVideo
  BY DEF DevicesOK, DeviceOK, ButtonsHaveAVideo
<1> QED BY <1>1, ControlCorrect, PTL
-----------------------------------------------------------------------------
(* No vote is counted twice.  The counts alone are not inductive: a stale   *)
(* number in a snapshot or in an outbox would become a count later.        *)

\* A write, and a snapshot, that claims no more votes than were cast.
HonestVote(w) == w.value <= votes[w.id][w.field]
HonestSnapshot(s) == \A f \in Fields : s.count[f] <= votes[s.id][f]

Honest ==
  /\ NoVoteCountedTwice
  /\ \A d \in Devices :
       /\ \A k \in DOMAIN outbox[d] : HonestVote(outbox[d][k])
       /\ \A k \in DOMAIN videos[d] : HonestSnapshot(videos[d][k])

\* Steps that cast no vote and move nothing but whole writes and snapshots.
LEMMA HonestFrame ==
  ASSUME Honest, votes' = votes, count' = count,
         \A d \in Devices :
           /\ \A k \in DOMAIN outbox'[d] :
                \E j \in DOMAIN outbox[d] :
                  /\ outbox'[d][k].id = outbox[d][j].id
                  /\ outbox'[d][k].field = outbox[d][j].field
                  /\ outbox'[d][k].value = outbox[d][j].value
           /\ \A k \in DOMAIN videos'[d] :
                \E j \in DOMAIN videos[d] : videos'[d][k] = videos[d][j]
  PROVE  Honest'
<1>1. NoVoteCountedTwice'
  BY DEF Honest, NoVoteCountedTwice
<1>2. ASSUME NEW d \in Devices, NEW k \in DOMAIN outbox'[d]
      PROVE  HonestVote(outbox[d][k])'
  BY <1>2 DEF Honest, HonestVote
<1>3. ASSUME NEW d \in Devices, NEW k \in DOMAIN videos'[d]
      PROVE  HonestSnapshot(videos[d][k])'
  BY <1>3 DEF Honest, HonestSnapshot
<1> QED BY <1>1, <1>2, <1>3 DEF Honest

\* A device reads what the server or one of its own writes claims.
LEMMA HonestReading ==
  ASSUME TypeOK, Honest, NEW d \in Devices, GetVideosDone(d)
  PROVE  Honest'
<1> USE DEF TypeOK, ServerTypeOK, DeviceTypeOK, HistoryTypeOK
<1>1. votes' = votes /\ count' = count /\ outbox' = outbox
  BY DEF GetVideosDone, history
<1>2. \A e \in Devices \ {d} : videos'[e] = videos[e]
  BY DEF GetVideosDone, getVideo
<1>3. \A k \in DOMAIN videos'[d] : HonestSnapshot(videos[d][k])'
  <2>1. CASE getVideo(d, <<>>)
    BY <2>1 DEF getVideo
  <2>2. CASE \E s \in Orders :
               getVideo(d, [k \in 1 .. Cardinality(Videos) |->
                  [id |-> s[k],
                   count |-> [f \in Fields |-> Seen(d, s[k], f)]]])
    <3>1. PICK s \in Orders :
            videos'[d] = [k \in 1 .. Cardinality(Videos) |->
               [id |-> s[k], count |-> [f \in Fields |-> Seen(d, s[k], f)]]]
      BY <2>2 DEF getVideo
    <3>2. ASSUME NEW v \in Videos, NEW f \in Fields
          PROVE  Seen(d, v, f) <= votes[v][f]
      <4>1. CASE Seen(d, v, f) = count[v][f]
        BY <4>1 DEF Honest, NoVoteCountedTwice
      <4>2. CASE \E k \in Pending(d, v, f) : Seen(d, v, f) = outbox[d][k].value
        <5>1. PICK k \in Pending(d, v, f) : Seen(d, v, f) = outbox[d][k].value
          BY <4>2
        <5>2. k \in DOMAIN outbox[d] /\ outbox[d][k].id = v
              /\ outbox[d][k].field = f
          BY <5>1 DEF Pending
        <5>3. HonestVote(outbox[d][k])
          BY <5>2 DEF Honest
        <5> QED BY <5>1, <5>2, <5>3 DEF HonestVote
      <4> QED BY <4>1, <4>2, SeenIsANumber
    <3>3. \A k \in 1 .. Cardinality(Videos) : s[k] \in Videos
      BY DEF Orders
    <3> QED BY <1>1, <3>1, <3>2, <3>3 DEF HonestSnapshot
  <2> QED BY <2>1, <2>2 DEF GetVideosDone
<1>4. NoVoteCountedTwice'
  BY <1>1 DEF Honest, NoVoteCountedTwice
<1>5. ASSUME NEW e \in Devices, NEW k \in DOMAIN outbox'[e]
      PROVE  HonestVote(outbox[e][k])'
  BY <1>1, <1>5 DEF Honest, HonestVote
<1>6. ASSUME NEW e \in Devices \ {d}, NEW k \in DOMAIN videos'[e]
      PROVE  HonestSnapshot(videos[e][k])'
  BY <1>1, <1>2, <1>6 DEF Honest, HonestSnapshot
<1> QED BY <1>3, <1>4, <1>5, <1>6 DEF Honest

\* A vote claims one more than its snapshot did, and it is one more vote.
LEMMA HonestVoting ==
  ASSUME TypeOK, Honest, NEW d \in Devices, NEW f \in Fields,
         videos[d] # <<>>, Vote(d, f), count' = count, videos' = videos
  PROVE  Honest'
<1> USE DEF TypeOK, ServerTypeOK, DeviceTypeOK, HistoryTypeOK
<1> DEFINE first == Head(videos[d])
           w == [id |-> first.id, field |-> f, live |-> TRUE,
                 value |-> first.count[f] + 1]
<1>1. /\ first \in Snapshots /\ first = videos[d][1] /\ 1 \in DOMAIN videos[d]
  BY HeadAndTail
<1>2. HonestSnapshot(first)
  BY <1>1 DEF Honest
<1>3. /\ votes' = [votes EXCEPT ![first.id][f] = @ + 1]
      /\ outbox' = [outbox EXCEPT ![d] = Append(outbox[d], w)]
  BY DEF Vote
<1>4. first.id \in Videos /\ first.count \in Counts
  BY <1>1 DEF Snapshots
<1>5. w.id = first.id /\ w.field = f /\ w.value = first.count[f] + 1
  OBVIOUS
<1> HIDE DEF first, w
<1>6. \A v \in Videos, g \in Fields :
        /\ votes[v][g] \in Nat /\ votes'[v][g] \in Nat
        /\ votes[v][g] <= votes'[v][g]
  <2> SUFFICES ASSUME NEW v \in Videos, NEW g \in Fields
               PROVE  /\ votes[v][g] \in Nat /\ votes'[v][g] \in Nat
                      /\ votes[v][g] <= votes'[v][g]
    OBVIOUS
  <2>1. votes[v][g] \in Nat
    BY DEF Counts
  <2>2. votes'[v][g] = votes[v][g] \/ votes'[v][g] = votes[v][g] + 1
    BY <1>3, <1>4 DEF Counts
  <2> QED BY <2>1, <2>2
<1>7. w.value <= votes'[w.id][w.field]
  <2>1. votes'[first.id][f] = votes[first.id][f] + 1
    BY <1>3, <1>4 DEF Counts
  <2>2. first.count[f] <= votes[first.id][f] /\ first.count[f] \in Nat
    BY <1>2, <1>4 DEF HonestSnapshot, Counts
  <2> QED BY <1>4, <1>5, <1>6, <2>1, <2>2
<1>8. NoVoteCountedTwice'
  <2> SUFFICES ASSUME NEW v \in Videos, NEW g \in Fields
               PROVE  count[v][g] <= votes'[v][g]
    BY DEF NoVoteCountedTwice
  <2>1. count[v][g] <= votes[v][g] /\ count[v][g] \in Nat
    BY DEF Honest, NoVoteCountedTwice, Counts
  <2> QED BY <1>6, <2>1
<1>9. ASSUME NEW e \in Devices, NEW k \in DOMAIN videos'[e]
      PROVE  HonestSnapshot(videos[e][k])'
  <2>1. k \in DOMAIN videos[e] /\ videos[e] \in Seq(Snapshots)
        /\ videos'[e] = videos[e]
    BY <1>9
  <2>2. videos[e][k] \in Snapshots /\ HonestSnapshot(videos[e][k])
    BY <2>1 DEF Honest
  <2>3. ASSUME NEW g \in Fields
        PROVE  videos[e][k].count[g] <= votes'[videos[e][k].id][g]
    <3>1. videos[e][k].id \in Videos /\ videos[e][k].count[g] \in Nat
      BY <2>2 DEF Snapshots, Counts
    <3>2. videos[e][k].count[g] <= votes[videos[e][k].id][g]
      BY <2>2 DEF HonestSnapshot
    <3>3. /\ votes[videos[e][k].id][g] \in Nat
          /\ votes'[videos[e][k].id][g] \in Nat
          /\ votes[videos[e][k].id][g] <= votes'[videos[e][k].id][g]
      BY <1>6, <3>1
    <3> HIDE DEF TypeOK, ServerTypeOK, DeviceTypeOK, HistoryTypeOK
    <3> QED BY <3>1, <3>2, <3>3
  <2> QED BY <2>1, <2>3 DEF HonestSnapshot
<1>10. ASSUME NEW e \in Devices, NEW j \in DOMAIN outbox[e]
       PROVE  outbox[e][j].value <= votes'[outbox[e][j].id][outbox[e][j].field]
  <2>1. outbox[e][j] \in Votes /\ HonestVote(outbox[e][j])
    BY <1>10 DEF Honest
  <2> QED BY <1>6, <2>1 DEF HonestVote, Votes
<1>11. ASSUME NEW e \in Devices, NEW k \in DOMAIN outbox'[e]
       PROVE  HonestVote(outbox[e][k])'
  <2>1. CASE k \in DOMAIN outbox[e] /\ outbox'[e][k] = outbox[e][k]
    BY <1>10, <2>1 DEF HonestVote
  <2>2. CASE outbox'[e][k] = w
    BY <1>7, <2>2 DEF HonestVote
  <2>3. \/ k \in DOMAIN outbox[e] /\ outbox'[e][k] = outbox[e][k]
        \/ outbox'[e][k] = w
    <3>1. CASE e # d
      BY <1>3, <1>11, <3>1
    <3>2. CASE e = d
      <4>1. outbox[d] \in Seq(Votes) /\ outbox'[d] = Append(outbox[d], w)
        BY <1>3
      <4>2. /\ DOMAIN outbox[d] = 1 .. Len(outbox[d]) /\ Len(outbox[d]) \in Nat
            /\ DOMAIN outbox'[d] = 1 .. Len(outbox[d]) + 1
            /\ \A j \in 1 .. Len(outbox[d]) : outbox'[d][j] = outbox[d][j]
            /\ outbox'[d][Len(outbox[d]) + 1] = w
        BY <4>1
      <4> QED BY <1>11, <3>2, <4>2
    <3> QED BY <3>1, <3>2
  <2> QED BY <2>1, <2>2, <2>3
<1> QED BY <1>8, <1>9, <1>11 DEF Honest
\* The server takes over what a write claims; the lists lose their heads.
LEMMA HonestAnswer ==
  ASSUME TypeOK, DevicesOK, Honest, NEW d \in Devices, WriteDone(d)
  PROVE  Honest'
<1> USE DEF TypeOK, ServerTypeOK, DeviceTypeOK, HistoryTypeOK
<1> DEFINE box == outbox[d]
           w == Head(box)
           rest == Tail(box)
<1>0. box # <<>> /\ box \in Seq(Votes) /\ DeviceOK(d)
  BY DEF WriteDone, DevicesOK
<1>1. /\ w \in Votes /\ w = box[1] /\ 1 \in DOMAIN box
      /\ rest \in Seq(Votes)
      /\ \A k \in DOMAIN rest : k + 1 \in DOMAIN box /\ rest[k] = box[k + 1]
  <2> HIDE DEF box
  <2> QED BY <1>0, HeadAndTail
<1>2. /\ count' = [count EXCEPT ![w.id][w.field] = w.value]
      /\ votes' = votes
  BY DEF WriteDone, history
<1>3. HonestVote(box[1])
  BY <1>1 DEF Honest
<1>4. NoVoteCountedTwice'
  <2> HIDE DEF w
  <2>1. w.value <= votes[w.id][w.field] /\ w.id \in Videos /\ w.field \in Fields
    BY <1>1, <1>3 DEF HonestVote, Votes
  <2> QED BY <1>2, <2>1 DEF Honest, NoVoteCountedTwice, Counts
<1>5. \A e \in Devices \ {d} : outbox'[e] = outbox[e] /\ videos'[e] = videos[e]
  BY <1>1, CloseTypes DEF WriteDone, getVideo
<1>6. \A k \in DOMAIN outbox'[d] :
        \E j \in DOMAIN box : /\ outbox'[d][k].id = box[j].id
                              /\ outbox'[d][k].field = box[j].field
                              /\ outbox'[d][k].value = box[j].value
  <2>1. CASE outbox' = [outbox EXCEPT ![d] = rest]
    <3>1. outbox'[d] = rest
      BY <2>1
    <3> HIDE DEF rest, box
    <3> QED BY <1>1, <3>1
  <2>2. CASE Close(d, rest)
    <3> HIDE DEF rest, box
    <3>1. /\ DOMAIN outbox'[d] = DOMAIN rest
          /\ \A k \in DOMAIN rest : /\ outbox'[d][k].id = rest[k].id
                                    /\ outbox'[d][k].field = rest[k].field
                                    /\ outbox'[d][k].value = rest[k].value
      BY <1>1, <2>2, CloseTypes
    <3>2. ASSUME NEW k \in DOMAIN rest
          PROVE  /\ k + 1 \in DOMAIN box
                 /\ outbox'[d][k].id = box[k + 1].id
                 /\ outbox'[d][k].field = box[k + 1].field
                 /\ outbox'[d][k].value = box[k + 1].value
      BY <1>1, <3>1, <3>2
    <3> QED BY <3>1, <3>2
  <2> QED BY <2>1, <2>2 DEF WriteDone
<1>7. \A k \in DOMAIN videos'[d] :
        \E j \in DOMAIN videos[d] : videos'[d][k] = videos[d][j]
  <2>1. CASE videos' = videos
    BY <2>1
  <2>2. CASE w.live /\ getVideo(d, Tail(videos[d]))
    <3>1. videos[d] # <<>>
      BY <1>0, <1>1, <2>2 DEF DeviceOK
    <3>2. \A k \in DOMAIN Tail(videos[d]) :
            k + 1 \in DOMAIN videos[d] /\ Tail(videos[d])[k] = videos[d][k + 1]
      BY <3>1, HeadAndTail
    <3>3. videos'[d] = Tail(videos[d])
      BY <2>2 DEF getVideo
    <3> QED BY <3>2, <3>3
  <2> QED BY <2>1, <2>2 DEF WriteDone
<1>8. ASSUME NEW e \in Devices, NEW k \in DOMAIN outbox'[e]
      PROVE  HonestVote(outbox[e][k])'
  <2>1. PICK j \in DOMAIN outbox[e] : /\ outbox'[e][k].id = outbox[e][j].id
                                     /\ outbox'[e][k].field = outbox[e][j].field
                                     /\ outbox'[e][k].value = outbox[e][j].value
    <3>1. CASE e = d
      BY <1>6, <1>8, <3>1
    <3>2. CASE e # d
      BY <1>5, <1>8, <3>2
    <3> QED BY <3>1, <3>2
  <2>2. HonestVote(outbox[e][j])
    BY DEF Honest
  <2> QED BY <1>2, <2>1, <2>2 DEF HonestVote
<1>9. ASSUME NEW e \in Devices, NEW k \in DOMAIN videos'[e]
      PROVE  HonestSnapshot(videos[e][k])'
  <2>1. PICK j \in DOMAIN videos[e] : videos'[e][k] = videos[e][j]
    <3>1. CASE e = d
      BY <1>7, <1>9, <3>1
    <3>2. CASE e # d
      BY <1>5, <1>9, <3>2
    <3> QED BY <3>1, <3>2
  <2>2. HonestSnapshot(videos[e][j])
    BY DEF Honest
  <2> QED BY <1>2, <2>1, <2>2 DEF HonestSnapshot
<1> QED BY <1>4, <1>8, <1>9 DEF Honest

\* The steps that only move or drop writes and snapshots.
LEMMA HonestRest ==
  ASSUME TypeOK, Honest, NEW d \in Devices,
         \/ viewDidLoad(d) \/ GetVideosFailed(d) \/ onIrrelevanceButton(d)
         \/ AlertNo(d) \/ GoBack(d) \/ WriteFailed(d)
  PROVE  Honest'
<1> USE DEF TypeOK, DeviceTypeOK
<1>1. votes' = votes /\ count' = count
  BY DEF viewDidLoad, GetVideosFailed, onIrrelevanceButton, AlertNo, GoBack,
         WriteFailed, history
<1>2. \A e \in Devices : \A k \in DOMAIN videos'[e] :
        \E j \in DOMAIN videos[e] : videos'[e][k] = videos[e][j]
  <2>1. CASE viewDidLoad(d)
    <3>1. DOMAIN videos'[d] = {} /\ \A e \in Devices \ {d} : videos'[e] = videos[e]
      BY <2>1 DEF viewDidLoad
    <3> QED BY <3>1
  <2>2. CASE videos' = videos
    BY <2>2
  <2> QED BY <2>1, <2>2 DEF GetVideosFailed, onIrrelevanceButton, AlertNo,
             GoBack, WriteFailed
<1>3. \A e \in Devices : \A k \in DOMAIN outbox'[e] :
        \E j \in DOMAIN outbox[e] :
          /\ outbox'[e][k].id = outbox[e][j].id
          /\ outbox'[e][k].field = outbox[e][j].field
          /\ outbox'[e][k].value = outbox[e][j].value
  <2>1. CASE outbox' = outbox
    BY <2>1
  <2>2. CASE GoBack(d)
    <3>1. outbox[d] \in Seq(Votes) /\ Close(d, outbox[d])
      BY <2>2 DEF GoBack
    <3>2. /\ \A e \in Devices \ {d} : outbox'[e] = outbox[e]
          /\ DOMAIN outbox'[d] = DOMAIN outbox[d]
          /\ \A k \in DOMAIN outbox[d] :
               /\ outbox'[d][k].id = outbox[d][k].id
               /\ outbox'[d][k].field = outbox[d][k].field
               /\ outbox'[d][k].value = outbox[d][k].value
      BY <3>1, CloseTypes
    <3> QED BY <3>2
  <2>3. CASE WriteFailed(d)
    <3>1. outbox[d] \in Seq(Votes) /\ outbox[d] # <<>>
          /\ outbox' = [outbox EXCEPT ![d] = Tail(outbox[d])]
      BY <2>3 DEF WriteFailed
    <3>2. \A k \in DOMAIN Tail(outbox[d]) :
            k + 1 \in DOMAIN outbox[d] /\ Tail(outbox[d])[k] = outbox[d][k + 1]
      BY <3>1, HeadAndTail
    <3> QED BY <3>1, <3>2
  <2> QED BY <2>1, <2>2, <2>3 DEF viewDidLoad, GetVideosFailed,
             onIrrelevanceButton, AlertNo
<1> QED BY <1>1, <1>2, <1>3, HonestFrame

LEMMA HonestStep ==
  ASSUME TypeOK, DevicesOK, Honest, [Next]_vars
  PROVE  Honest'
<1>1. ASSUME NEW d \in Devices, GetVideosDone(d)
      PROVE  Honest'
  BY <1>1, HonestReading
<1>2. ASSUME NEW d \in Devices, NEW f \in Fields, OnButton(d, f)
      PROVE  Honest'
  <2>1. Vote(d, f) /\ count' = count /\ videos' = videos
    BY <1>2 DEF OnButton
  <2>2. videos[d] # <<>>
    BY <1>2 DEF OnButton, DevicesOK, DeviceOK
  <2> QED BY <2>1, <2>2, HonestVoting
<1>3. ASSUME NEW d \in Devices, AlertYes(d)
      PROVE  Honest'
  <2>1. Vote(d, "Irrelevance") /\ count' = count /\ videos' = videos
    BY <1>3 DEF AlertYes
  <2>2. videos[d] # <<>>
    BY <1>3 DEF AlertYes, DevicesOK, DeviceOK
  <2>3. "Irrelevance" \in Fields
    BY DEF Fields
  <2> QED BY <2>1, <2>2, <2>3, HonestVoting
<1>4. ASSUME NEW d \in Devices, WriteDone(d)
      PROVE  Honest'
  BY <1>4, HonestAnswer
<1>5. ASSUME NEW d \in Devices,
             \/ viewDidLoad(d) \/ GetVideosFailed(d) \/ onIrrelevanceButton(d)
             \/ AlertNo(d) \/ GoBack(d) \/ WriteFailed(d)
      PROVE  Honest'
  BY <1>5, HonestRest
<1>6. CASE ScorerQuery \/ ScorerUpdate \/ UNCHANGED vars
  <2>1. votes' = votes /\ count' = count /\ outbox' = outbox /\ videos' = videos
    BY <1>6 DEF ScorerQuery, ScorerUpdate, vars, device, history
  <2> QED BY <2>1, HonestFrame
<1>7. ASSUME NEW v \in Videos, FinderSet(v)
      PROVE  Honest'
  <2>1. votes' = votes /\ outbox' = outbox /\ videos' = videos
    BY <1>7 DEF FinderSet, device
  <2>2. \A u \in Videos, f \in Fields : count'[u][f] = count[u][f] \/ count'[u][f] = 0
    BY <1>7 DEF FinderSet, TypeOK, ServerTypeOK
  <2>3. \A u \in Videos, f \in Fields : votes[u][f] \in Nat
    BY DEF TypeOK, HistoryTypeOK, Counts
  <2>4. NoVoteCountedTwice'
    BY <2>1, <2>2, <2>3 DEF Honest, NoVoteCountedTwice
  <2> QED BY <2>1, <2>4 DEF Honest, HonestVote, HonestSnapshot
<1> QED BY <1>1, <1>2, <1>3, <1>4, <1>5, <1>6, <1>7 DEF Next

\* However devices read, vote and are answered, no count exceeds the votes.
THEOREM CountsCorrect == Spec => []NoVoteCountedTwice
<1>1. Init => Honest
  BY DEF Init, Honest, NoVoteCountedTwice
<1>2. (TypeOK /\ DevicesOK) /\ Honest /\ [Next]_vars => Honest'
  BY HonestStep
<1>3. Honest => NoVoteCountedTwice
  BY DEF Honest
<1> QED BY <1>1, <1>2, <1>3, ControlCorrect, PTL DEF Spec
-----------------------------------------------------------------------------
(* The scores follow the counts.                                           *)

\* The query's answer has every video: positions are as many as videos, and
\* no two of them have the same video.
LEMMA OrdersCover ==
  ASSUME TypeOK, NEW s \in Orders, NEW v \in Videos
  PROVE  \E k \in 1 .. Cardinality(Videos) : s[k] = v
<1> DEFINE n == Cardinality(Videos)
<1>1. n \in Nat /\ IsFiniteSet(Videos) /\ Videos \subseteq Nat
  BY FeedbackAssumption, FS_CardinalityType
<1>2. s \in [1 .. n -> Videos]
  BY DEF Orders
<1>3. ASSUME NEW j \in 1 .. n, NEW k \in 1 .. n, j < k
      PROVE  s[j] # s[k]
  <2>1. Before(s[j], s[k])
    BY <1>2, <1>3 DEF Orders
  <2>2. s[j] \in Nat /\ s[k] \in Nat /\ Score[s[j]] \in Int /\ Score[s[k]] \in Int
    BY <1>1, <1>2 DEF TypeOK, ServerTypeOK
  <2> QED BY <2>1, <2>2 DEF Before
<1>4. \A j, k \in 1 .. n : s[j] = s[k] => j = k
  BY <1>1, <1>3
<1>5. s \in Injection(1 .. n, Videos)
  BY <1>2, <1>4 DEF Injection, IsInjective
<1>6. IsFiniteSet(1 .. n) /\ Cardinality(1 .. n) = n
  BY <1>1, FS_Interval
<1>7. s \in Surjection(1 .. n, Videos)
  BY <1>1, <1>5, <1>6, FS_Injection
<1> QED BY <1>7 DEF Surjection

\* What the Scorer has read is still so, unless somebody has voted since.
ScoresInv ==
  /\ ScoresMatchCounts
  /\ \A k \in DOMAIN scorer :
       scorer[k].id \notin changed => scorer[k].count = count[scorer[k].id]

LEMMA ScoresStep ==
  ASSUME TypeOK, ScoresInv, [Next]_vars
  PROVE  ScoresInv'
<1> USE DEF TypeOK, ServerTypeOK, DeviceTypeOK, HistoryTypeOK
<1>1. CASE UNCHANGED <<count, Score, scorer, changed>>
  BY <1>1 DEF ScoresInv, ScoresMatchCounts, ScoreOf
<1>2. ASSUME NEW d \in Devices, WriteDone(d)
      PROVE  ScoresInv'
  <2> DEFINE w == Head(outbox[d])
  <2>1. w \in Votes
    <3>1. outbox[d] \in Seq(Votes) /\ outbox[d] # <<>>
      BY <1>2 DEF WriteDone
    <3> QED BY <3>1, HeadAndTail
  <2>2. /\ count' = [count EXCEPT ![w.id][w.field] = w.value]
        /\ changed' = changed \union {w.id}
        /\ Score' = Score /\ scorer' = scorer
    BY <1>2 DEF WriteDone
  <2>3. w.id \in Videos
    BY <2>1 DEF Votes
  <2> HIDE DEF w
  <2>4. \A v \in Videos : v \notin changed' => count'[v] = count[v] /\ v \notin changed
    BY <2>2, <2>3
  <2>5. \A k \in DOMAIN scorer : scorer[k].id \in Videos
    <3>1. \A k \in DOMAIN scorer : scorer[k] \in Snapshots
      OBVIOUS
    <3> QED BY <3>1 DEF Snapshots
  <2>6. ScoresMatchCounts'
    BY <2>2, <2>4 DEF ScoresInv, ScoresMatchCounts, ScoreOf
  <2>7. \A k \in DOMAIN scorer' :
          scorer'[k].id \notin changed' => scorer'[k].count = count'[scorer'[k].id]
    BY <2>2, <2>4, <2>5 DEF ScoresInv
  <2> QED BY <2>6, <2>7 DEF ScoresInv
<1>3. CASE ScorerQuery
  <2>1. PICK s \in Orders :
          scorer' = [k \in 1 .. Cardinality(Videos) |->
                       [id |-> s[k], count |-> count[s[k]]]]
    BY <1>3 DEF ScorerQuery
  <2>2. count' = count
    BY <1>3 DEF ScorerQuery
  <2>3. \A v \in Videos : \E k \in DOMAIN scorer' : scorer'[k].id = v
    <3> SUFFICES ASSUME NEW v \in Videos
                 PROVE  \E k \in DOMAIN scorer' : scorer'[k].id = v
      OBVIOUS
    <3>1. PICK k \in 1 .. Cardinality(Videos) : s[k] = v
      BY OrdersCover
    <3>2. k \in DOMAIN scorer' /\ scorer'[k].id = v
      BY <2>1, <3>1
    <3> QED BY <3>2
  <2>4. ScoresMatchCounts'
    BY <2>3 DEF ScoresMatchCounts
  <2>5. \A k \in DOMAIN scorer' : scorer'[k].count = count'[scorer'[k].id]
    BY <2>1, <2>2
  <2> QED BY <2>4, <2>5 DEF ScoresInv
<1>4. CASE ScorerUpdate
  <2> DEFINE head == Head(scorer)
  <2>1. /\ scorer # <<>> /\ scorer' = Tail(scorer)
        /\ Score' = [Score EXCEPT ![head.id] = ScoreOf(head.count)]
        /\ count' = count /\ changed' = changed
    BY <1>4 DEF ScorerUpdate
  <2>2. /\ head \in Snapshots /\ head = scorer[1] /\ DOMAIN scorer = 1 .. Len(scorer)
        /\ Len(scorer) \in Nat \ {0}
        /\ DOMAIN Tail(scorer) = 1 .. Len(scorer) - 1
        /\ \A k \in DOMAIN Tail(scorer) :
             k + 1 \in DOMAIN scorer /\ Tail(scorer)[k] = scorer[k + 1]
    BY <2>1, HeadAndTail
  <2>3. head.id \in Videos
    BY <2>2 DEF Snapshots
  <2> HIDE DEF head
  <2>8. 1 \in DOMAIN scorer
    BY <2>2
  <2>4. head.id \notin changed => head.count = count[head.id]
    BY <2>2, <2>8 DEF ScoresInv
  <2>5. ASSUME NEW v \in Videos, v \notin changed,
               \A k \in DOMAIN Tail(scorer) : Tail(scorer)[k].id # v
        PROVE  Score'[v] = ScoreOf(count[v])
    <3>1. CASE v = head.id
      <4>1. Score'[v] = ScoreOf(head.count) /\ head.count = count[v]
        BY <2>1, <2>3, <2>4, <2>5, <3>1
      <4> QED BY <4>1
    <3>2. CASE v # head.id
      <4>1. \A k \in DOMAIN scorer : scorer[k].id # v
        <5> SUFFICES ASSUME NEW k \in DOMAIN scorer PROVE scorer[k].id # v
          OBVIOUS
        <5>1. CASE k = 1
          BY <2>2, <3>2, <5>1
        <5>2. CASE k # 1
          <6>1. k - 1 \in DOMAIN Tail(scorer) /\ (k - 1) + 1 = k
            BY <2>2, <5>2
          <6> QED BY <2>2, <2>5, <6>1
        <5> QED BY <5>1, <5>2
      <4>2. Score[v] = ScoreOf(count[v])
        BY <2>5, <4>1 DEF ScoresInv, ScoresMatchCounts
      <4> QED BY <2>1, <3>2, <4>2
    <3> QED BY <3>1, <3>2
  <2>6. ScoresMatchCounts'
    BY <2>1, <2>5 DEF ScoresMatchCounts, ScoreOf
  <2>7. \A k \in DOMAIN scorer' :
          scorer'[k].id \notin changed' => scorer'[k].count = count'[scorer'[k].id]
    BY <2>1, <2>2 DEF ScoresInv
  <2> QED BY <2>6, <2>7 DEF ScoresInv
<1>5. ASSUME NEW d \in Devices,
             \/ viewDidLoad(d) \/ GetVideosDone(d) \/ GetVideosFailed(d)
             \/ onIrrelevanceButton(d) \/ AlertNo(d) \/ AlertYes(d)
             \/ (\E f \in Fields : OnButton(d, f)) \/ GoBack(d) \/ WriteFailed(d)
      PROVE  UNCHANGED <<count, Score, scorer, changed>>
  BY <1>5 DEF viewDidLoad, GetVideosDone, GetVideosFailed, onIrrelevanceButton,
              AlertNo, AlertYes, OnButton, GoBack, WriteFailed
<1>6. CASE UNCHANGED vars
  BY <1>1, <1>6 DEF vars
<1>7. ASSUME NEW v \in Videos, FinderSet(v)
      PROVE  ScoresInv'
  <2>1. /\ count' = [count EXCEPT ![v] = [f \in Fields |-> 0]]
        /\ Score' = [Score EXCEPT ![v] = 0]
        /\ changed' = changed \union {v} /\ scorer' = scorer
    BY <1>7 DEF FinderSet
  <2>2. \A u \in Videos : u \notin changed' =>
          count'[u] = count[u] /\ Score'[u] = Score[u] /\ u \notin changed
    BY <2>1
  <2>3. \A k \in DOMAIN scorer : scorer[k].id \in Videos
    <3>1. \A k \in DOMAIN scorer : scorer[k] \in Snapshots
      OBVIOUS
    <3> QED BY <3>1 DEF Snapshots
  <2>4. ScoresMatchCounts'
    BY <2>1, <2>2 DEF ScoresInv, ScoresMatchCounts, ScoreOf
  <2>5. \A k \in DOMAIN scorer' :
          scorer'[k].id \notin changed' => scorer'[k].count = count'[scorer'[k].id]
    BY <2>1, <2>2, <2>3 DEF ScoresInv
  <2> QED BY <2>4, <2>5 DEF ScoresInv
<1> QED BY <1>1, <1>2, <1>3, <1>4, <1>5, <1>6, <1>7 DEF Next

\* A video the Scorer has passed, and that nobody has voted on and the Finder
\* has not replaced since the query, has the score of its counts, however
\* votes and the two scripts interleave.
THEOREM ScoresCorrect == Spec => []ScoresMatchCounts
<1>1. Init => ScoresInv
  <2> SUFFICES ASSUME Init PROVE ScoresInv
    OBVIOUS
  <2>1. \A v \in Videos : Score[v] = 0 /\ count[v] = [f \in Fields |-> 0]
    BY DEF Init
  <2>2. ScoreOf([f \in Fields |-> 0]) = 0
    BY DEF ScoreOf, Fields
  <2>3. DOMAIN scorer = {}
    BY DEF Init
  <2> QED BY <2>1, <2>2, <2>3 DEF ScoresInv, ScoresMatchCounts
<1>2. (TypeOK /\ DevicesOK) /\ ScoresInv /\ [Next]_vars => ScoresInv'
  BY ScoresStep
<1>3. ScoresInv => ScoresMatchCounts
  BY DEF ScoresInv
<1> QED BY <1>1, <1>2, <1>3, ControlCorrect, PTL DEF Spec
-----------------------------------------------------------------------------
(* The votes of a sole voter.  The count and the number of votes under way *)
(* are not inductive by themselves: the writes under way carry the next    *)
(* counts in turn, and the list on the screen, but for the video just      *)
(* voted on, shows all the votes.                                          *)

\* Nobody but d has voted, nothing was refused and the Finder not run.
Sole(d, v, f) ==
  voters[v][f] \subseteq {d} /\ <<v, f>> \notin rejected /\ v \notin reset

\* The writes under way carry, in this order, the counts from the server's to
\* the votes cast.
InTurn(d, v, f) ==
  /\ \A k \in Pending(d, v, f) : outbox[d][k].value \in count[v][f] + 1 .. votes[v][f]
  /\ \A n \in count[v][f] + 1 .. votes[v][f] :
       \E k \in Pending(d, v, f) : outbox[d][k].value = n
  /\ \A j, k \in Pending(d, v, f) : j < k => outbox[d][j].value < outbox[d][k].value

UpToDate(d, v, f) ==
  view[d] \in {"open", "alert"} =>
    \A k \in DOMAIN videos[d] :
      videos[d][k].id = v =>
        videos[d][k].count[f] = votes[v][f] \/ (k = 1 /\ ~enabled[d])

\* Who has a write under way has voted.
SendersVoted ==
  \A d \in Devices : \A k \in DOMAIN outbox[d] :
    d \in voters[outbox[d][k].id][outbox[d][k].field]

\* A list has each video once, and there is none while the lesson loads.
ListsOK ==
  \A d \in Devices :
    /\ \A j, k \in DOMAIN videos[d] : videos[d][j].id = videos[d][k].id => j = k
    /\ view[d] = "loading" => videos[d] = <<>>

SoleOK ==
  \A d \in Devices, v \in Videos, f \in Fields :
    Sole(d, v, f) => InTurn(d, v, f) /\ UpToDate(d, v, f)

SoleInv == SendersVoted /\ ListsOK /\ SoleOK

\* The numbers of a video and field, and the positions of an outbox.
LEMMA Numbers ==
  ASSUME TypeOK, NEW d \in Devices, NEW v \in Videos, NEW f \in Fields
  PROVE  /\ count[v][f] \in Nat /\ votes[v][f] \in Nat
         /\ outbox[d] \in Seq(Votes) /\ Len(outbox[d]) \in Nat
         /\ DOMAIN outbox[d] = 1 .. Len(outbox[d])
         /\ Pending(d, v, f) \subseteq DOMAIN outbox[d]
         /\ \A k \in DOMAIN outbox[d] :
              /\ outbox[d][k].id \in Videos /\ outbox[d][k].field \in Fields
              /\ outbox[d][k].value \in Nat
<1> USE DEF TypeOK, ServerTypeOK, DeviceTypeOK, HistoryTypeOK
<1>1. count[v][f] \in Nat /\ votes[v][f] \in Nat
  BY DEF Counts
<1>2. outbox[d] \in Seq(Votes) /\ Len(outbox[d]) \in Nat
      /\ DOMAIN outbox[d] = 1 .. Len(outbox[d])
  OBVIOUS
<1>3. \A k \in DOMAIN outbox[d] : outbox[d][k] \in Votes
  BY <1>2
<1> QED BY <1>1, <1>2, <1>3 DEF Votes, Pending

\* The same writes.
LEMMA InTurnFrame ==
  ASSUME NEW d, NEW v, NEW f, InTurn(d, v, f),
         DOMAIN outbox'[d] = DOMAIN outbox[d],
         \A k \in DOMAIN outbox[d] : /\ outbox'[d][k].id = outbox[d][k].id
                                     /\ outbox'[d][k].field = outbox[d][k].field
                                     /\ outbox'[d][k].value = outbox[d][k].value,
         count'[v][f] = count[v][f], votes'[v][f] = votes[v][f]
  PROVE  InTurn(d, v, f)'
<1>1. Pending(d, v, f)' = Pending(d, v, f)
  BY DEF Pending
<1>2. \A k \in Pending(d, v, f) : outbox'[d][k].value = outbox[d][k].value
  BY DEF Pending
<1> QED BY <1>1, <1>2 DEF InTurn

\* One more write, of this field or of another.
LEMMA InTurnVote ==
  ASSUME TypeOK, NEW d \in Devices, NEW v \in Videos, NEW f \in Fields, InTurn(d, v, f),
         NEW w, outbox'[d] = Append(outbox[d], w), count'[v][f] = count[v][f],
         count[v][f] <= votes[v][f],
         \/ w.id = v /\ w.field = f /\ w.value = votes[v][f] + 1
            /\ votes'[v][f] = votes[v][f] + 1
         \/ ~(w.id = v /\ w.field = f) /\ votes'[v][f] = votes[v][f]
  PROVE  InTurn(d, v, f)'
<1> DEFINE box == outbox[d]
           n == Len(box)
           P == Pending(d, v, f)
<1>1. /\ count[v][f] \in Nat /\ votes[v][f] \in Nat /\ n \in Nat
      /\ DOMAIN box = 1 .. n /\ P \subseteq 1 .. n /\ box \in Seq(Votes)
  BY Numbers
<1>2. /\ DOMAIN outbox'[d] = 1 .. n + 1
      /\ \A k \in 1 .. n : outbox'[d][k] = box[k]
      /\ outbox'[d][n + 1] = w
  BY <1>1
<1>3. CASE ~(w.id = v /\ w.field = f) /\ votes'[v][f] = votes[v][f]
  <2>1. Pending(d, v, f)' = P
    BY <1>1, <1>2, <1>3 DEF Pending
  <2>2. \A k \in P : outbox'[d][k] = outbox[d][k]
    BY <1>1, <1>2
  <2> HIDE DEF P, box, n
  <2> QED BY <1>3, <2>1, <2>2 DEF InTurn, P
<1>4. CASE w.id = v /\ w.field = f /\ w.value = votes[v][f] + 1
           /\ votes'[v][f] = votes[v][f] + 1
  <2>1. Pending(d, v, f)' = P \union {n + 1}
    BY <1>1, <1>2, <1>4 DEF Pending
  <2>2. \A k \in P : outbox'[d][k] = outbox[d][k] /\ k \in 1 .. n
    BY <1>1, <1>2
  <2>3. /\ \A k \in P : outbox[d][k].value \in count[v][f] + 1 .. votes[v][f]
        /\ \A m \in count[v][f] + 1 .. votes[v][f] : \E k \in P : outbox[d][k].value = m
        /\ \A j, k \in P : j < k => outbox[d][j].value < outbox[d][k].value
    BY DEF InTurn
  <2> DEFINE Q == Pending(d, v, f)'
             c == count[v][f]
             m == votes[v][f]
  <2>4. c \in Nat /\ m \in Nat /\ c <= m /\ outbox'[d][n + 1].value = m + 1 /\ n \in Nat
    BY <1>1, <1>2, <1>4
  <2> HIDE DEF P, Q, box, n, c, m
  <2>5. \A k \in Q : outbox'[d][k].value \in c + 1 .. m + 1
    <3> TAKE k \in Q
    <3>1. CASE k \in P
      <4>1. outbox[d][k].value \in c + 1 .. m /\ outbox'[d][k] = outbox[d][k]
        BY <2>2, <2>3, <3>1 DEF c, m
      <4>2. c + 1 .. m \subseteq c + 1 .. m + 1
        BY <2>4
      <4> QED BY <4>1, <4>2
    <3>2. CASE k = n + 1
      <4>1. m + 1 \in c + 1 .. m + 1
        BY <2>4
      <4> QED BY <2>4, <3>2, <4>1
    <3> QED BY <2>1, <3>1, <3>2 DEF Q
  <2>6. \A i \in c + 1 .. m + 1 : \E k \in Q : outbox'[d][k].value = i
    <3> TAKE i \in c + 1 .. m + 1
    <3>1. CASE i = m + 1
      BY <2>1, <2>4, <3>1 DEF Q
    <3>2. CASE i # m + 1
      <4>1. i \in c + 1 .. m
        BY <2>4, <3>2
      <4> QED BY <2>1, <2>2, <2>3, <4>1 DEF Q, c, m
    <3> QED BY <3>1, <3>2
  <2>7. ASSUME NEW j \in Q, NEW k \in Q, j < k
        PROVE  outbox'[d][j].value < outbox'[d][k].value
    <3>1. j \in P
      BY <2>1, <2>2, <2>4, <2>7 DEF Q
    <3>2. CASE k \in P
      BY <2>2, <2>3, <2>7, <3>1, <3>2
    <3>3. CASE k = n + 1
      <4>1. outbox[d][j].value \in c + 1 .. m
        BY <2>3, <3>1 DEF c, m
      <4>2. PICK x \in c + 1 .. m : x = outbox[d][j].value
        BY <4>1
      <4>3. x < m + 1
        BY <2>4
      <4>4. outbox'[d][j].value = x /\ outbox'[d][k].value = m + 1
        BY <2>2, <2>4, <3>1, <3>3, <4>2
      <4> QED BY <4>3, <4>4
    <3> QED BY <2>1, <3>2, <3>3 DEF Q
  <2>8. count'[v][f] = c /\ votes'[v][f] = m + 1
    BY <1>4 DEF c, m
  <2> QED BY <2>5, <2>6, <2>7, <2>8 DEF InTurn, Q
<1> QED BY <1>3, <1>4
\* The oldest write is gone: taken by the server, or of another field.
LEMMA InTurnTail ==
  ASSUME TypeOK, NEW d \in Devices, NEW v \in Videos, NEW f \in Fields, InTurn(d, v, f),
         outbox[d] # <<>>, DOMAIN outbox'[d] = DOMAIN Tail(outbox[d]),
         \A k \in DOMAIN Tail(outbox[d]) :
           /\ outbox'[d][k].id = Tail(outbox[d])[k].id
           /\ outbox'[d][k].field = Tail(outbox[d])[k].field
           /\ outbox'[d][k].value = Tail(outbox[d])[k].value,
         votes'[v][f] = votes[v][f],
         \/ /\ Head(outbox[d]).id = v /\ Head(outbox[d]).field = f
            /\ count'[v][f] = Head(outbox[d]).value
         \/ /\ ~(Head(outbox[d]).id = v /\ Head(outbox[d]).field = f)
            /\ count'[v][f] = count[v][f]
  PROVE  InTurn(d, v, f)'
<1>1. PICK box \in Seq(Votes), n \in Nat, w \in {Head(outbox[d])} :
           box = outbox[d] /\ n = Len(box) /\ w = Head(box)
  BY Numbers
<1>2. /\ n # 0 /\ DOMAIN box = 1 .. n /\ w = box[1]
      /\ DOMAIN outbox'[d] = 1 .. n - 1
      /\ \A k \in 1 .. n - 1 : /\ outbox'[d][k].id = box[k + 1].id
                               /\ outbox'[d][k].field = box[k + 1].field
                               /\ outbox'[d][k].value = box[k + 1].value
  <2>1. /\ Head(box) = box[1] /\ Len(box) \in Nat \ {0} /\ DOMAIN box = 1 .. Len(box)
        /\ DOMAIN Tail(box) = 1 .. Len(box) - 1
        /\ \A k \in DOMAIN Tail(box) : k + 1 \in DOMAIN box /\ Tail(box)[k] = box[k + 1]
    BY <1>1, HeadAndTail
  <2> QED BY <1>1, <2>1
<1>3. PICK P, Q : P = Pending(d, v, f) /\ Q = Pending(d, v, f)'
  OBVIOUS
<1>4. /\ P = {k \in 1 .. n : box[k].id = v /\ box[k].field = f}
      /\ Q = {k \in 1 .. n - 1 : k + 1 \in P}
  <2>1. P = {k \in 1 .. n : box[k].id = v /\ box[k].field = f}
    BY <1>1, <1>2, <1>3 DEF Pending
  <2>2. Q = {k \in 1 .. n - 1 : outbox'[d][k].id = v /\ outbox'[d][k].field = f}
    BY <1>2, <1>3 DEF Pending
  <2>3. \A k \in 1 .. n - 1 : k + 1 \in 1 .. n
    OBVIOUS
  <2> QED BY <1>2, <2>1, <2>2, <2>3
<1>5. PICK c \in Nat, m \in Nat : c = count[v][f] /\ m = votes[v][f] /\ votes'[v][f] = m
  BY Numbers
<1>6. /\ \A k \in P : box[k].value \in c + 1 .. m
      /\ \A i \in c + 1 .. m : \E k \in P : box[k].value = i
      /\ \A j, k \in P : j < k => box[j].value < box[k].value
  BY <1>1, <1>3, <1>5 DEF InTurn
<1>7. \A k \in Q : k + 1 \in P /\ k \in Int /\ outbox'[d][k].value = box[k + 1].value
  BY <1>2, <1>4
<1>8. \A j, k \in Q : j < k => outbox'[d][j].value < outbox'[d][k].value
  <2> SUFFICES ASSUME NEW j \in Q, NEW k \in Q, j < k
               PROVE  outbox'[d][j].value < outbox'[d][k].value
    OBVIOUS
  <2>1. j + 1 \in P /\ k + 1 \in P /\ j + 1 < k + 1
    BY <1>7
  <2>2. box[j + 1].value < box[k + 1].value
    BY <1>6, <2>1
  <2> QED BY <1>7, <2>2
<1>9. \A k \in P : k # 1 => k - 1 \in Q /\ outbox'[d][k - 1].value = box[k].value
  <2> SUFFICES ASSUME NEW k \in P, k # 1
               PROVE  k - 1 \in Q /\ outbox'[d][k - 1].value = box[k].value
    OBVIOUS
  <2>1. k \in 1 .. n /\ k - 1 \in 1 .. n - 1 /\ (k - 1) + 1 = k
    BY <1>4
  <2> QED BY <1>2, <1>4, <2>1
<1>10. CASE w.id = v /\ w.field = f /\ count'[v][f] = w.value
  <2>1. 1 \in P /\ \A k \in P : k # 1 => 1 < k
    BY <1>2, <1>4, <1>10
  <2>2. box[1].value = c + 1
    <3>1. box[1].value \in c + 1 .. m
      BY <1>6, <2>1
    <3>2. c + 1 \in c + 1 .. m
      BY <3>1
    <3>3. PICK k \in P : box[k].value = c + 1
      BY <1>6, <3>2
    <3>4. k # 1 => box[1].value < c + 1
      BY <1>6, <2>1, <3>3
    <3> QED BY <3>1, <3>3, <3>4
  <2>3. count'[v][f] = c + 1
    BY <1>2, <1>10, <2>2
  <2>4. \A k \in Q : outbox'[d][k].value \in (c + 1) + 1 .. m
    <3> TAKE k \in Q
    <3>1. k + 1 \in P /\ 1 < k + 1
      BY <1>4, <1>7
    <3>2. box[k + 1].value \in c + 1 .. m /\ c + 1 < box[k + 1].value
      BY <1>6, <2>1, <2>2, <3>1
    <3>3. box[k + 1].value \in (c + 1) + 1 .. m
      BY <3>2
    <3> QED BY <1>7, <3>3
  <2>5. \A i \in (c + 1) + 1 .. m : \E k \in Q : outbox'[d][k].value = i
    <3> TAKE i \in (c + 1) + 1 .. m
    <3>1. i \in c + 1 .. m /\ i # c + 1
      OBVIOUS
    <3>2. PICK k \in P : box[k].value = i
      BY <1>6, <3>1
    <3>3. k # 1
      BY <2>2, <3>1, <3>2
    <3> QED BY <1>9, <3>2, <3>3
  <2> QED BY <1>3, <1>5, <1>8, <2>3, <2>4, <2>5 DEF InTurn
<1>11. CASE ~(w.id = v /\ w.field = f) /\ count'[v][f] = c
  <2>1. 1 \notin P
    BY <1>2, <1>4, <1>11
  <2>2. \A k \in Q : outbox'[d][k].value \in c + 1 .. m
    BY <1>6, <1>7
  <2>3. \A i \in c + 1 .. m : \E k \in Q : outbox'[d][k].value = i
    <3> TAKE i \in c + 1 .. m
    <3>1. PICK k \in P : box[k].value = i
      BY <1>6
    <3>2. k # 1
      BY <2>1
    <3> QED BY <1>9, <3>1, <3>2
  <2> QED BY <1>3, <1>5, <1>8, <1>11, <2>2, <2>3 DEF InTurn
<1> QED BY <1>1, <1>5, <1>10, <1>11

\* A sole voter reads all the votes.
LEMMA SeenIsAll ==
  ASSUME TypeOK, NEW d \in Devices, NEW v \in Videos, NEW f \in Fields, InTurn(d, v, f),
         count[v][f] <= votes[v][f]
  PROVE  Seen(d, v, f) = votes[v][f]
<1>1. PICK c \in Nat, m \in Nat : c = count[v][f] /\ m = votes[v][f] /\ c <= m
  BY Numbers
<1>2. CASE Pending(d, v, f) = {}
  <2>1. c + 1 .. m = {}
    BY <1>1, <1>2 DEF InTurn
  <2>2. c = m
    <3>1. m \notin c + 1 .. m
      BY <2>1
    <3> QED BY <1>1, <3>1
  <2> QED BY <1>1, <1>2, <2>2 DEF Seen
<1>3. CASE Pending(d, v, f) # {}
  <2>1. PICK P : P = Pending(d, v, f)
    OBVIOUS
  <2>2. Len(outbox[d]) \in Nat /\ P \in SUBSET (1 .. Len(outbox[d])) /\ P # {}
    BY <1>3, <2>1, Numbers
  <2>3. PICK last : last = (CHOOSE k \in P : \A j \in P : j <= k)
    OBVIOUS
  <2>4. last \in P /\ \A j \in P : j <= last
    BY <2>2, <2>3, LastPosition
  <2>5. Seen(d, v, f) = outbox[d][last].value
    BY <1>3, <2>1, <2>3 DEF Seen
  <2>6. outbox[d][last].value \in c + 1 .. m
    BY <1>1, <2>1, <2>4 DEF InTurn
  <2>7. m \in c + 1 .. m
    BY <2>6
  <2>8. PICK k \in P : outbox[d][k].value = m
    BY <1>1, <2>1, <2>7 DEF InTurn
  <2>9. k = last \/ m < outbox[d][last].value
    <3>1. k <= last /\ k \in Int /\ last \in Int
      BY <2>2, <2>4
    <3>2. k < last => outbox[d][k].value < outbox[d][last].value
      BY <2>1, <2>4 DEF InTurn
    <3> QED BY <2>8, <3>1, <3>2
  <2>10. outbox[d][last].value = m
    BY <2>6, <2>8, <2>9
  <2> QED BY <1>1, <2>5, <2>10
<1> QED BY <1>2, <1>3

\* As many writes are under way as votes are not counted yet.
LEMMA InTurnCounts ==
  ASSUME TypeOK, NEW d \in Devices, NEW v \in Videos, NEW f \in Fields, InTurn(d, v, f),
         count[v][f] <= votes[v][f]
  PROVE  count[v][f] + Cardinality(Pending(d, v, f)) = votes[v][f]
<1>1. PICK c \in Nat, m \in Nat : c = count[v][f] /\ m = votes[v][f] /\ c <= m
  BY Numbers
<1>2. PICK P : P = Pending(d, v, f) /\ P \subseteq 1 .. Len(outbox[d]) /\ Len(outbox[d]) \in Nat
  BY Numbers
<1>3. IsFiniteSet(P)
  <2>1. IsFiniteSet(1 .. Len(outbox[d]))
    BY <1>2, FS_Interval
  <2> QED BY <1>2, <2>1, FS_Subset
<1>4. /\ \A k \in P : outbox[d][k].value \in c + 1 .. m
      /\ \A i \in c + 1 .. m : \E k \in P : outbox[d][k].value = i
      /\ \A j, k \in P : j < k => outbox[d][j].value < outbox[d][k].value
  BY <1>1, <1>2 DEF InTurn
<1> DEFINE value == [k \in P |-> outbox[d][k].value]
<1>5. \A j, k \in P : value[j] = value[k] => j = k
  <2> SUFFICES ASSUME NEW j \in P, NEW k \in P, j # k PROVE value[j] # value[k]
    OBVIOUS
  <2>1. j < k \/ k < j
    BY <1>2
  <2>2. outbox[d][j].value \in Int /\ outbox[d][k].value \in Int
    BY <1>4
  <2>3. outbox[d][j].value < outbox[d][k].value \/ outbox[d][k].value < outbox[d][j].value
    BY <1>4, <2>1
  <2> QED BY <2>2, <2>3
<1>6. value \in Bijection(P, c + 1 .. m)
  <2>1. value \in [P -> c + 1 .. m] /\ \A i \in c + 1 .. m : \E k \in P : value[k] = i
    BY <1>4
  <2> HIDE DEF value
  <2> QED BY <1>5, <2>1 DEF Bijection, Injection, Surjection, IsInjective
<1>7. Cardinality(c + 1 .. m) = Cardinality(P)
  <2>1. ExistsBijection(P, c + 1 .. m)
    BY <1>6 DEF ExistsBijection
  <2> QED BY <1>3, <2>1, FS_Bijection
<1>8. Cardinality(c + 1 .. m) = m - c
  <2>1. c + 1 \in Int /\ m \in Int
    OBVIOUS
  <2>2. Cardinality(c + 1 .. m) = IF c + 1 > m THEN 0 ELSE m - (c + 1) + 1
    BY <2>1, FS_Interval
  <2> QED BY <1>1, <2>2
<1>9. c + Cardinality(P) = m
  BY <1>1, <1>7, <1>8
<1> QED BY <1>1, <1>2, <1>9
\* No two positions of a query's answer have the same video.
LEMMA OrderIsInjective ==
  ASSUME TypeOK, NEW s \in Orders
  PROVE  \A j, k \in 1 .. Cardinality(Videos) : s[j] = s[k] => j = k
<1> DEFINE n == Cardinality(Videos)
<1>1. n \in Nat /\ Videos \subseteq Nat
  BY FeedbackAssumption, FS_CardinalityType
<1>2. s \in [1 .. n -> Videos]
  BY DEF Orders
<1>3. ASSUME NEW j \in 1 .. n, NEW k \in 1 .. n, j < k
      PROVE  s[j] # s[k]
  <2>1. Before(s[j], s[k])
    BY <1>2, <1>3 DEF Orders
  <2>2. s[j] \in Nat /\ s[k] \in Nat /\ Score[s[j]] \in Int /\ Score[s[k]] \in Int
    BY <1>1, <1>2 DEF TypeOK, ServerTypeOK
  <2> QED BY <2>1, <2>2 DEF Before
<1> QED BY <1>1, <1>3

\* The outboxes after the server's answer: d's has lost its oldest write.
AnswerBox(d) ==
  /\ \A e \in Devices \ {d} : outbox'[e] = outbox[e]
  /\ outbox[d] # <<>>
  /\ DOMAIN outbox'[d] = DOMAIN Tail(outbox[d])
  /\ \A k \in DOMAIN Tail(outbox[d]) :
       /\ outbox'[d][k].id = Tail(outbox[d])[k].id
       /\ outbox'[d][k].field = Tail(outbox[d])[k].field
       /\ outbox'[d][k].value = Tail(outbox[d])[k].value
  /\ \A e \in Devices : \A k \in DOMAIN outbox'[e] :
       \E j \in DOMAIN outbox[e] : /\ outbox'[e][k].id = outbox[e][j].id
                                   /\ outbox'[e][k].field = outbox[e][j].field

LEMMA AnswerBoxIs ==
  ASSUME TypeOK, NEW d \in Devices, WriteDone(d) \/ WriteFailed(d)
  PROVE  AnswerBox(d)
<1>1. PICK box \in Seq(Votes), rest \in {Tail(outbox[d])} :
           box = outbox[d] /\ rest = Tail(box) /\ box # <<>>
  BY DEF TypeOK, DeviceTypeOK, WriteDone, WriteFailed
<1>2. /\ rest \in Seq(Votes)
      /\ \A k \in DOMAIN rest : k + 1 \in DOMAIN box /\ rest[k] = box[k + 1]
  BY <1>1, HeadAndTail
<1>3. /\ \A e \in Devices \ {d} : outbox'[e] = outbox[e]
      /\ DOMAIN outbox'[d] = DOMAIN rest
      /\ \A k \in DOMAIN rest : /\ outbox'[d][k].id = rest[k].id
                                /\ outbox'[d][k].field = rest[k].field
                                /\ outbox'[d][k].value = rest[k].value
  <2>1. CASE outbox' = [outbox EXCEPT ![d] = rest]
    BY <2>1 DEF TypeOK, DeviceTypeOK
  <2>2. CASE Close(d, rest)
    BY <1>2, <2>2, CloseTypes
  <2> QED BY <1>1, <2>1, <2>2 DEF WriteDone, WriteFailed
<1>4. \A k \in DOMAIN outbox'[d] :
        \E j \in DOMAIN box : outbox'[d][k].id = box[j].id /\ outbox'[d][k].field = box[j].field
  BY <1>2, <1>3
<1>5. ASSUME NEW e \in Devices, NEW k \in DOMAIN outbox'[e]
      PROVE  \E j \in DOMAIN outbox[e] : /\ outbox'[e][k].id = outbox[e][j].id
                                         /\ outbox'[e][k].field = outbox[e][j].field
  <2>1. CASE e = d
    BY <1>1, <1>4, <1>5, <2>1
  <2>2. CASE e # d
    BY <1>3, <1>5, <2>2
  <2> QED BY <2>1, <2>2
<1> QED BY <1>1, <1>3, <1>5 DEF AnswerBox
\* The lists keep each video once.
LEMMA ListsStep ==
  ASSUME TypeOK, DevicesOK, ListsOK, [Next]_vars
  PROVE  ListsOK'
<1> DEFINE Once(list) == \A j, k \in DOMAIN list : list[j].id = list[k].id => j = k
<1>0. \A d \in Devices : Once(videos[d]) /\ (view[d] = "loading" => videos[d] = <<>>)
  BY DEF ListsOK
<1>1. Once(<<>>)
  OBVIOUS
<1>2. ASSUME NEW d \in Devices, NEW list, Once(list), NEW b,
             videos' = [videos EXCEPT ![d] = list], view' = [view EXCEPT ![d] = b],
             b # "loading" \/ list = <<>>
      PROVE  ListsOK'
  <2>1. videos'[d] = list /\ view'[d] = b
    BY <1>2 DEF TypeOK, DeviceTypeOK
  <2>2. \A e \in Devices \ {d} : videos'[e] = videos[e] /\ view'[e] = view[e]
    BY <1>2 DEF TypeOK, DeviceTypeOK
  <2>3. \A e \in Devices : Once(videos'[e]) /\ (view'[e] = "loading" => videos'[e] = <<>>)
    BY <1>0, <1>2, <2>1, <2>2
  <2> QED BY <2>3 DEF ListsOK
<1>3. ASSUME NEW d \in Devices, NEW b, videos' = videos, view' = [view EXCEPT ![d] = b],
             b # "loading"
      PROVE  ListsOK'
  <2>1. \A e \in Devices : videos'[e] = videos[e] /\ (view'[e] = view[e] \/ view'[e] = b)
    BY <1>3 DEF TypeOK, DeviceTypeOK
  <2> QED BY <1>3, <2>1 DEF ListsOK
<1>4. CASE UNCHANGED <<videos, view>>
  BY <1>4 DEF ListsOK
<1>5. ASSUME NEW d \in Devices, viewDidLoad(d) PROVE ListsOK'
  BY <1>1, <1>2, <1>5 DEF viewDidLoad
<1>6. ASSUME NEW d \in Devices, GetVideosDone(d) PROVE ListsOK'
  <2>1. view' = [view EXCEPT ![d] = "open"]
    BY <1>6 DEF GetVideosDone
  <2>2. CASE getVideo(d, <<>>)
    BY <1>1, <1>2, <2>1, <2>2 DEF getVideo
  <2>3. ASSUME NEW s \in Orders, NEW list,
               list = [k \in 1 .. Cardinality(Videos) |->
                         [id |-> s[k], count |-> [f \in Fields |-> Seen(d, s[k], f)]]],
               getVideo(d, list)
        PROVE  ListsOK'
    <3>1. DOMAIN list = 1 .. Cardinality(Videos)
          /\ \A k \in DOMAIN list : list[k].id = s[k]
      BY <2>3
    <3>2. \A j, k \in 1 .. Cardinality(Videos) : s[j] = s[k] => j = k
      BY OrderIsInjective
    <3>3. Once(list)
      BY <3>1, <3>2
    <3>4. videos' = [videos EXCEPT ![d] = list]
      BY <2>3 DEF getVideo
    <3> QED BY <1>2, <2>1, <3>3, <3>4
  <2> QED BY <1>6, <2>2, <2>3 DEF GetVideosDone
<1>7. ASSUME NEW d \in Devices,
             GetVideosFailed(d) \/ onIrrelevanceButton(d) \/ AlertYes(d) \/ AlertNo(d) \/ GoBack(d)
      PROVE  ListsOK'
  BY <1>3, <1>7 DEF GetVideosFailed, onIrrelevanceButton, AlertYes, AlertNo, GoBack, Close
<1>8. ASSUME NEW d \in Devices, NEW f \in Fields, OnButton(d, f) PROVE ListsOK'
  BY <1>4, <1>8 DEF OnButton
<1>9. ASSUME NEW d \in Devices, WriteDone(d) PROVE ListsOK'
  <2>1. CASE UNCHANGED <<view, videos>>
    BY <1>4, <2>1
  <2>2. CASE Close(d, Tail(outbox[d])) /\ UNCHANGED videos
    BY <1>3, <2>2 DEF Close
  <2>3. CASE Head(outbox[d]).live /\ getVideo(d, Tail(videos[d])) /\ UNCHANGED view
    <3>1. videos[d] # <<>> /\ view[d] = "open"
      <4>1. outbox[d] \in Seq(Votes) /\ outbox[d] # <<>>
        BY <1>9 DEF WriteDone, TypeOK, DeviceTypeOK
      <4>2. Head(outbox[d]) = outbox[d][1] /\ 1 \in DOMAIN outbox[d]
        BY <4>1, HeadAndTail
      <4> QED BY <2>3, <4>2 DEF DevicesOK, DeviceOK
    <3>2. videos[d] \in Seq(Snapshots)
      BY DEF TypeOK, DeviceTypeOK
    <3>3. PICK list : list = Tail(videos[d])
      OBVIOUS
    <3>4. Len(videos[d]) \in Nat /\ DOMAIN list = 1 .. Len(videos[d]) - 1
          /\ \A k \in DOMAIN list : k + 1 \in DOMAIN videos[d] /\ list[k] = videos[d][k + 1]
      BY <3>1, <3>2, <3>3, HeadAndTail
    <3>5. Once(list)
      <4> SUFFICES ASSUME NEW j \in DOMAIN list, NEW k \in DOMAIN list, list[j].id = list[k].id
                   PROVE  j = k
        OBVIOUS
      <4>1. j + 1 = k + 1
        BY <1>0, <3>4
      <4> QED BY <3>4, <4>1
    <3>6. videos' = [videos EXCEPT ![d] = list] /\ view' = [view EXCEPT ![d] = "open"]
      BY <2>3, <3>1, <3>3 DEF getVideo, TypeOK, DeviceTypeOK
    <3> QED BY <1>2, <3>5, <3>6
  <2> QED BY <1>9, <2>1, <2>2, <2>3 DEF WriteDone
<1>10. ASSUME NEW d \in Devices, WriteFailed(d) PROVE ListsOK'
  BY <1>4, <1>10 DEF WriteFailed
<1>11. CASE ScorerQuery \/ ScorerUpdate \/ UNCHANGED vars \/ \E v \in Videos : FinderSet(v)
  BY <1>4, <1>11 DEF ScorerQuery, ScorerUpdate, FinderSet, vars, device
<1> QED BY <1>5, <1>6, <1>7, <1>8, <1>9, <1>10, <1>11 DEF Next

\* Votes are sent by voters.
LEMMA SendersStep ==
  ASSUME TypeOK, DevicesOK, SendersVoted, [Next]_vars
  PROVE  SendersVoted'
<1> USE DEF TypeOK, DeviceTypeOK, HistoryTypeOK
<1>1. ASSUME voters' = voters,
             \A d \in Devices : \A k \in DOMAIN outbox'[d] :
               \E j \in DOMAIN outbox[d] : /\ outbox'[d][k].id = outbox[d][j].id
                                           /\ outbox'[d][k].field = outbox[d][j].field
      PROVE  SendersVoted'
  BY <1>1 DEF SendersVoted
<1>2. CASE UNCHANGED <<voters, outbox>>
  BY <1>1, <1>2
<1>3. ASSUME NEW d \in Devices, NEW f \in Fields, videos[d] # <<>>, Vote(d, f)
      PROVE  SendersVoted'
  <2>1. PICK v, w : /\ v = Head(videos[d]).id /\ w.id = v /\ w.field = f
                    /\ outbox' = [outbox EXCEPT ![d] = Append(outbox[d], w)]
                    /\ voters' = [voters EXCEPT ![v][f] = @ \union {d}]
    <3> DEFINE u == [id |-> Head(videos[d]).id, field |-> f, live |-> TRUE,
                     value |-> Head(videos[d]).count[f] + 1]
    <3>1. u.id = Head(videos[d]).id /\ u.field = f
      OBVIOUS
    <3>2. /\ outbox' = [outbox EXCEPT ![d] = Append(outbox[d], u)]
          /\ voters' = [voters EXCEPT ![Head(videos[d]).id][f] = @ \union {d}]
      BY <1>3 DEF Vote
    <3> HIDE DEF u
    <3> QED BY <3>1, <3>2
  <2>2. v \in Videos
    <3>1. Head(videos[d]) \in Snapshots
      BY <1>3, HeadAndTail
    <3> QED BY <2>1, <3>1 DEF Snapshots
  <2>3. \A u \in Videos, g \in Fields : voters[u][g] \subseteq voters'[u][g]
    BY <2>1, <2>2
  <2>4. d \in voters'[v][f]
    BY <2>1, <2>2
  <2>5. ASSUME NEW e \in Devices, NEW k \in DOMAIN outbox'[e]
        PROVE  e \in voters'[outbox'[e][k].id][outbox'[e][k].field]
    <3>1. ASSUME k \in DOMAIN outbox[e], outbox'[e][k] = outbox[e][k]
          PROVE  e \in voters'[outbox'[e][k].id][outbox'[e][k].field]
      <4>1. outbox[e][k].id \in Videos /\ outbox[e][k].field \in Fields
        <5>1. outbox[e][k] \in Votes
          BY <3>1
        <5> QED BY <5>1 DEF Votes
      <4>2. e \in voters[outbox[e][k].id][outbox[e][k].field]
        BY <3>1 DEF SendersVoted
      <4> QED BY <2>3, <3>1, <4>1, <4>2
    <3>2. CASE e # d
      BY <2>1, <2>5, <3>1, <3>2
    <3>3. CASE e = d
      <4>1. outbox[d] \in Seq(Votes) /\ outbox'[d] = Append(outbox[d], w)
        BY <2>1
      <4>2. /\ DOMAIN outbox[d] = 1 .. Len(outbox[d]) /\ Len(outbox[d]) \in Nat
            /\ DOMAIN outbox'[d] = 1 .. Len(outbox[d]) + 1
            /\ \A j \in 1 .. Len(outbox[d]) : outbox'[d][j] = outbox[d][j]
            /\ outbox'[d][Len(outbox[d]) + 1] = w
        BY <4>1
      <4>3. CASE k \in DOMAIN outbox[d]
        BY <3>1, <3>3, <4>2, <4>3
      <4>4. CASE k = Len(outbox[d]) + 1
        BY <2>1, <2>4, <3>3, <4>2, <4>4
      <4> QED BY <2>5, <3>3, <4>2, <4>3, <4>4
    <3> QED BY <3>2, <3>3
  <2> QED BY <2>5 DEF SendersVoted
<1>4. ASSUME NEW d \in Devices, NEW f \in Fields, OnButton(d, f) PROVE SendersVoted'
  BY <1>3, <1>4 DEF OnButton, DevicesOK, DeviceOK
<1>5. ASSUME NEW d \in Devices, AlertYes(d) PROVE SendersVoted'
  <2>1. "Irrelevance" \in Fields /\ videos[d] # <<>> /\ Vote(d, "Irrelevance")
    BY <1>5 DEF AlertYes, DevicesOK, DeviceOK, Fields
  <2> QED BY <1>3, <2>1
<1>6. ASSUME NEW d \in Devices, GoBack(d) PROVE SendersVoted'
  <2>1. outbox[d] \in Seq(Votes) /\ Close(d, outbox[d]) /\ voters' = voters
    BY <1>6 DEF GoBack, history
  <2>2. /\ \A e \in Devices \ {d} : outbox'[e] = outbox[e]
        /\ DOMAIN outbox'[d] = DOMAIN outbox[d]
        /\ \A k \in DOMAIN outbox[d] : /\ outbox'[d][k].id = outbox[d][k].id
                                       /\ outbox'[d][k].field = outbox[d][k].field
    BY <2>1, CloseTypes
  <2> QED BY <1>1, <2>1, <2>2
<1>7. ASSUME NEW d \in Devices, WriteDone(d) \/ WriteFailed(d) PROVE SendersVoted'
  <2>1. AnswerBox(d) /\ voters' = voters
    BY <1>7, AnswerBoxIs DEF WriteDone, WriteFailed, history
  <2> QED BY <1>1, <2>1 DEF AnswerBox
<1>8. ASSUME NEW d \in Devices,
             \/ viewDidLoad(d) \/ GetVideosDone(d) \/ GetVideosFailed(d)
             \/ onIrrelevanceButton(d) \/ AlertNo(d)
      PROVE  SendersVoted'
  BY <1>2, <1>8 DEF viewDidLoad, GetVideosDone, GetVideosFailed, onIrrelevanceButton, AlertNo,
                    history
<1>9. CASE ScorerQuery \/ ScorerUpdate \/ UNCHANGED vars \/ \E v \in Videos : FinderSet(v)
  BY <1>2, <1>9 DEF ScorerQuery, ScorerUpdate, FinderSet, vars, device, history
<1> QED BY <1>4, <1>5, <1>6, <1>7, <1>8, <1>9 DEF Next
\* Nothing new on the screen.
LEMMA UpToDateFrame ==
  ASSUME NEW d, NEW v, NEW f, UpToDate(d, v, f), videos'[d] = videos[d],
         enabled'[d] \in BOOLEAN, enabled'[d] => enabled[d], votes'[v][f] = votes[v][f],
         view'[d] \in {"open", "alert"} => view[d] \in {"open", "alert"}
  PROVE  UpToDate(d, v, f)'
BY DEF UpToDate

\* A vote cast by e.
LEMMA SoleVoting ==
  ASSUME TypeOK, Honest, ListsOK, NEW e \in Devices, NEW g \in Fields, videos[e] # <<>>,
         enabled[e], view[e] \in {"open", "alert"}, Vote(e, g),
         UNCHANGED <<count, videos, rejected, reset>>,
         \A d \in Devices : view'[d] \in {"open", "alert"} => view[d] \in {"open", "alert"},
         NEW d \in Devices, NEW v \in Videos, NEW f \in Fields, Sole(d, v, f)',
         Sole(d, v, f) => InTurn(d, v, f) /\ UpToDate(d, v, f)
  PROVE  InTurn(d, v, f)' /\ UpToDate(d, v, f)'
<1> USE DEF TypeOK, ServerTypeOK, DeviceTypeOK, HistoryTypeOK
<1>1. PICK first, u, w :
           /\ first \in Snapshots /\ u \in Videos
           /\ first = videos[e][1] /\ 1 \in DOMAIN videos[e] /\ u = first.id
           /\ w.id = u /\ w.field = g /\ w.value = first.count[g] + 1
           /\ outbox' = [outbox EXCEPT ![e] = Append(outbox[e], w)]
           /\ votes' = [votes EXCEPT ![u][g] = @ + 1]
           /\ voters' = [voters EXCEPT ![u][g] = @ \union {e}]
           /\ enabled' = [enabled EXCEPT ![e] = FALSE]
  <2> DEFINE x == Head(videos[e])
             y == [id |-> x.id, field |-> g, live |-> TRUE, value |-> x.count[g] + 1]
  <2>1. x \in Snapshots /\ x = videos[e][1] /\ 1 \in DOMAIN videos[e]
    BY HeadAndTail
  <2>2. x.id \in Videos
    BY <2>1 DEF Snapshots
  <2>3. y.id = x.id /\ y.field = g /\ y.value = x.count[g] + 1
    OBVIOUS
  <2>4. /\ outbox' = [outbox EXCEPT ![e] = Append(outbox[e], y)]
        /\ votes' = [votes EXCEPT ![x.id][g] = @ + 1]
        /\ voters' = [voters EXCEPT ![x.id][g] = @ \union {e}]
        /\ enabled' = [enabled EXCEPT ![e] = FALSE]
    BY DEF Vote
  <2> HIDE DEF x, y
  <2> QED BY <2>1, <2>2, <2>3, <2>4
<1>2. Sole(d, v, f)
  <2>1. voters[v][f] \subseteq voters'[v][f]
    BY <1>1
  <2> QED BY <2>1 DEF Sole
<1>3. InTurn(d, v, f) /\ UpToDate(d, v, f)
  BY <1>2
<1>4. count[v][f] <= votes[v][f] /\ votes[v][f] \in Nat
  BY Numbers DEF Honest, NoVoteCountedTwice
<1>5. CASE u = v /\ g = f
  <2>1. e \in voters'[v][f]
    BY <1>1, <1>5
  <2>2. e = d
    BY <2>1 DEF Sole
  <2>3. first.count[f] = votes[v][f]
    BY <1>1, <1>3, <1>5, <2>2 DEF UpToDate
  <2>4. votes'[v][f] = votes[v][f] + 1
    BY <1>1, <1>5 DEF Counts
  <2>5. outbox'[d] = Append(outbox[d], w)
    BY <1>1, <2>2
  <2>6. w.id = v /\ w.field = f /\ w.value = votes[v][f] + 1
    BY <1>1, <1>5, <2>3
  <2>7. InTurn(d, v, f)'
    <3> HIDE DEF TypeOK, ServerTypeOK, DeviceTypeOK, HistoryTypeOK
    <3>1. count'[v][f] = count[v][f]
      OBVIOUS
    <3> QED BY <1>3, <1>4, <2>4, <2>5, <2>6, <3>1, InTurnVote
  <2>8. ~enabled'[d] /\ videos' = videos
    BY <1>1, <2>2
  <2>9. \A k \in DOMAIN videos[d] : videos[d][k].id = v => k = 1
    <3>1. 1 \in DOMAIN videos[d] /\ videos[d][1].id = v
      BY <1>1, <1>5, <2>2
    <3>2. \A j, k \in DOMAIN videos[d] : videos[d][j].id = videos[d][k].id => j = k
      BY DEF ListsOK
    <3> QED BY <3>1, <3>2
  <2> QED BY <2>7, <2>8, <2>9 DEF UpToDate
<1>6. CASE ~(u = v /\ g = f)
  <2>1. votes'[v][f] = votes[v][f]
    BY <1>1, <1>6 DEF Counts
  <2>2. InTurn(d, v, f)'
    <3>1. CASE e = d
      <4>1. outbox'[d] = Append(outbox[d], w) /\ ~(w.id = v /\ w.field = f)
        BY <1>1, <1>6, <3>1
      <4> HIDE DEF TypeOK, ServerTypeOK, DeviceTypeOK, HistoryTypeOK
      <4>2. count'[v][f] = count[v][f]
        OBVIOUS
      <4> QED BY <1>3, <1>4, <2>1, <4>1, <4>2, InTurnVote
    <3>2. CASE e # d
      <4>1. outbox'[d] = outbox[d] /\ count' = count
        BY <1>1, <3>2
      <4> QED BY <1>3, <2>1, <4>1, InTurnFrame
    <3> QED BY <3>1, <3>2
  <2>3. enabled'[d] \in BOOLEAN /\ (enabled'[d] => enabled[d])
    BY <1>1
  <2>4. videos'[d] = videos[d]
    OBVIOUS
  <2>5. view'[d] \in {"open", "alert"} => view[d] \in {"open", "alert"}
    OBVIOUS
  <2>6. UpToDate(d, v, f)'
    <3> HIDE DEF TypeOK, ServerTypeOK, DeviceTypeOK, HistoryTypeOK
    <3> QED BY <1>3, <2>1, <2>3, <2>4, <2>5, UpToDateFrame
  <2> QED BY <2>2, <2>6
<1> QED BY <1>5, <1>6
\* The answer to e's oldest write.
LEMMA SoleAnswer ==
  ASSUME TypeOK, DevicesOK, SendersVoted, NEW e \in Devices, WriteDone(e) \/ WriteFailed(e),
         NEW d \in Devices, NEW v \in Videos, NEW f \in Fields, Sole(d, v, f)',
         Sole(d, v, f) => InTurn(d, v, f) /\ UpToDate(d, v, f)
  PROVE  InTurn(d, v, f)' /\ UpToDate(d, v, f)'
<1> USE DEF TypeOK, ServerTypeOK, DeviceTypeOK, HistoryTypeOK
<1>1. votes' = votes /\ voters' = voters /\ reset' = reset /\ rejected \subseteq rejected'
  BY DEF WriteDone, WriteFailed, history
<1>2. Sole(d, v, f)
  BY <1>1 DEF Sole
<1>3. InTurn(d, v, f) /\ UpToDate(d, v, f)
  BY <1>2
<1>4. AnswerBox(e)
  BY AnswerBoxIs
<1>5. PICK w \in Votes : w = Head(outbox[e]) /\ w = outbox[e][1] /\ 1 \in DOMAIN outbox[e]
  <2>1. outbox[e] \in Seq(Votes) /\ outbox[e] # <<>>
    BY DEF WriteDone, WriteFailed
  <2> QED BY <2>1, HeadAndTail
<1>6. w.id \in Videos /\ w.field \in Fields
  BY <1>5 DEF Votes
<1>7. w.id = v /\ w.field = f => e = d
  <2>1. e \in voters[w.id][w.field]
    BY <1>5 DEF SendersVoted
  <2> QED BY <1>2, <2>1 DEF Sole
<1>8. \/ w.id = v /\ w.field = f /\ count'[v][f] = w.value
      \/ ~(w.id = v /\ w.field = f) /\ count'[v][f] = count[v][f]
  <2>1. CASE WriteDone(e)
    <3>1. count' = [count EXCEPT ![w.id][w.field] = w.value]
      BY <1>5, <2>1 DEF WriteDone
    <3>2. \A u \in Videos : count[u] \in [Fields -> Nat]
      BY DEF Counts
    <3> QED BY <1>6, <3>1, <3>2
  <2>2. CASE WriteFailed(e)
    <3>1. <<w.id, w.field>> \in rejected' /\ count' = count
      BY <1>5, <2>2 DEF WriteFailed
    <3>2. ~(w.id = v /\ w.field = f)
      BY <3>1 DEF Sole
    <3> QED BY <3>1, <3>2
  <2> QED BY <2>1, <2>2
<1>9. InTurn(d, v, f)'
  <2>1. CASE e = d
    <3> HIDE DEF TypeOK, ServerTypeOK, DeviceTypeOK, HistoryTypeOK
    <3>1. votes'[v][f] = votes[v][f]
      BY <1>1
    <3>2. /\ outbox[d] # <<>>
          /\ DOMAIN outbox'[d] = DOMAIN Tail(outbox[d])
          /\ \A k \in DOMAIN Tail(outbox[d]) :
               /\ outbox'[d][k].id = Tail(outbox[d])[k].id
               /\ outbox'[d][k].field = Tail(outbox[d])[k].field
               /\ outbox'[d][k].value = Tail(outbox[d])[k].value
      BY <1>4, <2>1 DEF AnswerBox
    <3>3. \/ /\ Head(outbox[d]).id = v /\ Head(outbox[d]).field = f
             /\ count'[v][f] = Head(outbox[d]).value
          \/ /\ ~(Head(outbox[d]).id = v /\ Head(outbox[d]).field = f)
             /\ count'[v][f] = count[v][f]
      BY <1>5, <1>8, <2>1
    <3> QED BY <1>3, <3>1, <3>2, <3>3, InTurnTail
  <2>2. CASE e # d
    <3>1. outbox'[d] = outbox[d] /\ votes'[v][f] = votes[v][f] /\ count'[v][f] = count[v][f]
      BY <1>1, <1>4, <1>7, <1>8, <2>2 DEF AnswerBox
    <3> HIDE DEF TypeOK, ServerTypeOK, DeviceTypeOK, HistoryTypeOK
    <3> QED BY <1>3, <3>1, InTurnFrame
  <2> QED BY <2>1, <2>2
<1>10. UpToDate(d, v, f)'
  <2>1. ASSUME videos'[d] = videos[d], enabled'[d] = enabled[d],
               view'[d] = view[d] \/ view'[d] = "closed"
        PROVE  UpToDate(d, v, f)'
    BY <1>1, <1>3, <2>1 DEF UpToDate
  <2>2. CASE UNCHANGED <<videos, enabled, view>>
    BY <2>1, <2>2
  <2>3. CASE Close(e, Tail(outbox[e])) /\ UNCHANGED <<videos, enabled>>
    <3>1. view' = [view EXCEPT ![e] = "closed"]
      BY <2>3 DEF Close
    <3> QED BY <2>1, <2>3, <3>1
  <2>4. CASE w.live /\ getVideo(e, Tail(videos[e])) /\ UNCHANGED view
    <3>1. CASE e # d
      <4>1. videos'[d] = videos[d] /\ enabled'[d] = enabled[d]
        BY <2>4, <3>1 DEF getVideo
      <4> QED BY <2>1, <2>4, <4>1
    <3>2. CASE e = d
      <4>1. videos[d] # <<>> /\ view[d] = "open"
        BY <1>5, <2>4, <3>2 DEF DevicesOK, DeviceOK
      <4>2. PICK list \in Seq(Snapshots), rest \in {Tail(videos[d])} :
                 list = videos[d] /\ rest = Tail(list) /\ list # <<>>
        BY <4>1
      <4>3. /\ Len(list) \in Nat /\ DOMAIN rest = 1 .. Len(list) - 1
            /\ \A k \in DOMAIN rest : k + 1 \in DOMAIN list /\ rest[k] = list[k + 1]
        BY <4>2, HeadAndTail
      <4>4. videos'[d] = rest
        BY <2>4, <3>2, <4>2 DEF getVideo
      <4>5. \A k \in DOMAIN list : list[k].id = v /\ k # 1 => list[k].count[f] = votes[v][f]
        BY <1>3, <4>1, <4>2 DEF UpToDate
      <4>6. \A k \in DOMAIN rest : rest[k].id = v => rest[k].count[f] = votes[v][f]
        <5> TAKE k \in DOMAIN rest
        <5>1. k + 1 \in DOMAIN list /\ rest[k] = list[k + 1] /\ k + 1 # 1
          BY <4>3
        <5> QED BY <4>5, <5>1
      <4> QED BY <1>1, <4>4, <4>6 DEF UpToDate
    <3> QED BY <3>1, <3>2
  <2> QED BY <1>5, <2>2, <2>3, <2>4 DEF WriteDone, WriteFailed
<1> QED BY <1>9, <1>10

\* Reading the lesson.
LEMMA SoleReading ==
  ASSUME TypeOK, Honest, NEW e \in Devices, GetVideosDone(e),
         NEW d \in Devices, NEW v \in Videos, NEW f \in Fields, Sole(d, v, f)',
         Sole(d, v, f) => InTurn(d, v, f) /\ UpToDate(d, v, f)
  PROVE  InTurn(d, v, f)' /\ UpToDate(d, v, f)'
<1> USE DEF TypeOK, ServerTypeOK, DeviceTypeOK, HistoryTypeOK
<1>1. UNCHANGED <<votes, voters, reset, rejected, count, outbox>>
  BY DEF GetVideosDone, history
<1>2. InTurn(d, v, f) /\ UpToDate(d, v, f)
  BY <1>1 DEF Sole
<1>3. InTurn(d, v, f)'
  <2> HIDE DEF TypeOK, ServerTypeOK, DeviceTypeOK, HistoryTypeOK
  <2> QED BY <1>1, <1>2, InTurnFrame
<1>4. CASE e # d
  <2>1. videos'[d] = videos[d] /\ enabled'[d] = enabled[d] /\ view'[d] = view[d]
    BY <1>4 DEF GetVideosDone, getVideo
  <2> QED BY <1>1, <1>2, <1>3, <2>1 DEF UpToDate
<1>5. CASE e = d
  <2>1. CASE getVideo(d, <<>>)
    <3>1. videos'[d] = <<>>
      BY <2>1 DEF getVideo
    <3> QED BY <1>3, <3>1 DEF UpToDate
  <2>2. ASSUME NEW s \in Orders, NEW list,
               list = [k \in 1 .. Cardinality(Videos) |->
                         [id |-> s[k], count |-> [g \in Fields |-> Seen(d, s[k], g)]]],
               getVideo(d, list)
        PROVE  UpToDate(d, v, f)'
    <3>1. videos'[d] = list
      BY <2>2 DEF getVideo
    <3>2. \A k \in DOMAIN list : list[k].id = s[k] /\ list[k].count[f] = Seen(d, s[k], f)
      BY <2>2
    <3>3. Seen(d, v, f) = votes[v][f]
      <4>1. count[v][f] <= votes[v][f]
        BY DEF Honest, NoVoteCountedTwice
      <4> HIDE DEF TypeOK, ServerTypeOK, DeviceTypeOK, HistoryTypeOK
      <4> QED BY <1>2, <4>1, SeenIsAll
    <3>4. \A k \in DOMAIN list : list[k].id = v => list[k].count[f] = votes[v][f]
      BY <3>2, <3>3
    <3> QED BY <1>1, <3>1, <3>4 DEF UpToDate
  <2> QED BY <1>3, <1>5, <2>1, <2>2 DEF GetVideosDone
<1> QED BY <1>4, <1>5

\* The steps of e that neither vote, nor read, nor are answered.
LEMMA SoleRest ==
  ASSUME TypeOK, DevicesOK, ListsOK, NEW e \in Devices,
         \/ viewDidLoad(e) \/ GetVideosFailed(e) \/ onIrrelevanceButton(e)
         \/ AlertNo(e) \/ GoBack(e),
         NEW d \in Devices, NEW v \in Videos, NEW f \in Fields, Sole(d, v, f)',
         Sole(d, v, f) => InTurn(d, v, f) /\ UpToDate(d, v, f)
  PROVE  InTurn(d, v, f)' /\ UpToDate(d, v, f)'
<1> USE DEF TypeOK, ServerTypeOK, DeviceTypeOK, HistoryTypeOK
<1>1. UNCHANGED <<votes, voters, reset, rejected, count>>
  BY DEF viewDidLoad, GetVideosFailed, onIrrelevanceButton, AlertNo, GoBack, history
<1>2. InTurn(d, v, f) /\ UpToDate(d, v, f)
  BY <1>1 DEF Sole
<1>3. /\ DOMAIN outbox'[d] = DOMAIN outbox[d]
      /\ \A k \in DOMAIN outbox[d] : /\ outbox'[d][k].id = outbox[d][k].id
                                     /\ outbox'[d][k].field = outbox[d][k].field
                                     /\ outbox'[d][k].value = outbox[d][k].value
  <2>1. CASE outbox' = outbox
    BY <2>1
  <2>2. CASE GoBack(e)
    <3>1. outbox[e] \in Seq(Votes) /\ Close(e, outbox[e])
      BY <2>2 DEF GoBack
    <3>2. CASE e = d
      BY <3>1, <3>2, CloseTypes
    <3>3. CASE e # d
      <4>1. outbox'[d] = outbox[d]
        BY <3>1, <3>3, CloseTypes
      <4> QED BY <4>1
    <3> QED BY <3>2, <3>3
  <2> QED BY <2>1, <2>2 DEF viewDidLoad, GetVideosFailed, onIrrelevanceButton, AlertNo
<1>4. InTurn(d, v, f)'
  <2>1. votes'[v][f] = votes[v][f] /\ count'[v][f] = count[v][f]
    BY <1>1
  <2> HIDE DEF TypeOK, ServerTypeOK, DeviceTypeOK, HistoryTypeOK
  <2> QED BY <1>2, <1>3, <2>1, InTurnFrame
<1>5. CASE e # d
  <2>1. videos'[d] = videos[d] /\ enabled'[d] = enabled[d] /\ view'[d] = view[d]
    BY <1>5 DEF viewDidLoad, GetVideosFailed, onIrrelevanceButton, AlertNo, GoBack, Close
  <2> QED BY <1>1, <1>2, <1>4, <2>1 DEF UpToDate
<1>6. CASE e = d
  <2>1. \/ videos'[d] = <<>>
        \/ view'[d] = "closed"
        \/ /\ view[d] \in {"open", "alert"}
           /\ videos'[d] = videos[d] /\ enabled'[d] = enabled[d]
    <3>1. CASE viewDidLoad(d)
      BY <3>1 DEF viewDidLoad
    <3>2. CASE GetVideosFailed(d)
      BY <3>2 DEF GetVideosFailed, ListsOK
    <3>3. CASE GoBack(d)
      BY <3>3 DEF GoBack, Close
    <3> QED BY <1>6, <3>1, <3>2, <3>3 DEF onIrrelevanceButton, AlertNo
  <2>2. UpToDate(d, v, f)'
    BY <1>1, <1>2, <2>1 DEF UpToDate
  <2> QED BY <1>4, <2>2
<1> QED BY <1>5, <1>6

LEMMA SoleStep ==
  ASSUME TypeOK, DevicesOK, Honest, SoleInv, [Next]_vars
  PROVE  SoleOK'
<1> SUFFICES ASSUME NEW d \in Devices, NEW v \in Videos, NEW f \in Fields, Sole(d, v, f)'
             PROVE  InTurn(d, v, f)' /\ UpToDate(d, v, f)'
  BY DEF SoleOK
<1>1. /\ SendersVoted /\ ListsOK
      /\ Sole(d, v, f) => InTurn(d, v, f) /\ UpToDate(d, v, f)
  BY DEF SoleInv, SoleOK
<1>2. ASSUME NEW e \in Devices, NEW g \in Fields, OnButton(e, g)
      PROVE  InTurn(d, v, f)' /\ UpToDate(d, v, f)'
  <2>1. /\ Vote(e, g) /\ UNCHANGED <<count, videos, rejected, reset, view>>
        /\ enabled[e] /\ view[e] \in {"open", "alert"}
    BY <1>2 DEF OnButton
  <2>2. videos[e] # <<>>
    BY <2>1 DEF DevicesOK, DeviceOK
  <2>3. \A c \in Devices : view'[c] \in {"open", "alert"} => view[c] \in {"open", "alert"}
    BY <2>1
  <2> QED BY <1>1, <2>1, <2>2, <2>3, SoleVoting
<1>3. ASSUME NEW e \in Devices, AlertYes(e)
      PROVE  InTurn(d, v, f)' /\ UpToDate(d, v, f)'
  <2>1. /\ Vote(e, "Irrelevance") /\ UNCHANGED <<count, videos, rejected, reset>>
        /\ view[e] = "alert" /\ view' = [view EXCEPT ![e] = "open"]
    BY <1>3 DEF AlertYes
  <2>2. videos[e] # <<>> /\ enabled[e] /\ "Irrelevance" \in Fields /\ view[e] \in {"open", "alert"}
    BY <2>1 DEF DevicesOK, DeviceOK, Fields
  <2>3. \A c \in Devices : view'[c] \in {"open", "alert"} => view[c] \in {"open", "alert"}
    BY <2>1 DEF TypeOK, DeviceTypeOK
  <2> QED BY <1>1, <2>1, <2>2, <2>3, SoleVoting
<1>4. ASSUME NEW e \in Devices, WriteDone(e) \/ WriteFailed(e)
      PROVE  InTurn(d, v, f)' /\ UpToDate(d, v, f)'
  BY <1>1, <1>4, SoleAnswer
<1>5. ASSUME NEW e \in Devices, GetVideosDone(e)
      PROVE  InTurn(d, v, f)' /\ UpToDate(d, v, f)'
  BY <1>1, <1>5, SoleReading
<1>6. ASSUME NEW e \in Devices,
             \/ viewDidLoad(e) \/ GetVideosFailed(e) \/ onIrrelevanceButton(e)
             \/ AlertNo(e) \/ GoBack(e)
      PROVE  InTurn(d, v, f)' /\ UpToDate(d, v, f)'
  BY <1>1, <1>6, SoleRest
<1>7. CASE ScorerQuery \/ ScorerUpdate \/ UNCHANGED vars
  <2>1. UNCHANGED <<votes, voters, reset, rejected, count, outbox, videos, enabled, view>>
    BY <1>7 DEF ScorerQuery, ScorerUpdate, vars, device, history
  <2>2. InTurn(d, v, f) /\ UpToDate(d, v, f)
    BY <1>1, <2>1 DEF Sole
  <2> QED BY <2>1, <2>2 DEF InTurn, UpToDate, Pending
<1>8. ASSUME NEW u \in Videos, FinderSet(u)
      PROVE  InTurn(d, v, f)' /\ UpToDate(d, v, f)'
  <2>1. UNCHANGED <<votes, voters, rejected, outbox, videos, enabled, view>>
        /\ reset' = reset \union {u}
    BY <1>8 DEF FinderSet, device
  <2>2. u # v /\ InTurn(d, v, f) /\ UpToDate(d, v, f)
    BY <1>1, <2>1 DEF Sole
  <2>3. count'[v] = count[v]
    BY <1>8, <2>2 DEF FinderSet, TypeOK, ServerTypeOK
  <2>4. Pending(d, v, f)' = Pending(d, v, f)
    BY <2>1 DEF Pending
  <2> QED BY <2>1, <2>2, <2>3, <2>4 DEF InTurn, UpToDate
<1> QED BY <1>2, <1>3, <1>4, <1>5, <1>6, <1>7, <1>8 DEF Next

LEMMA SoleInit == Init => SoleInv
<1> SUFFICES ASSUME Init PROVE SoleInv
  OBVIOUS
<1>1. SendersVoted /\ ListsOK
  BY DEF Init, SendersVoted, ListsOK
<1>2. ASSUME NEW d \in Devices, NEW v \in Videos, NEW f \in Fields
      PROVE  InTurn(d, v, f) /\ UpToDate(d, v, f)
  <2>1. Pending(d, v, f) = {}
    BY DEF Init, Pending
  <2>2. count[v][f] = 0 /\ votes[v][f] = 0
    BY DEF Init
  <2>3. count[v][f] + 1 .. votes[v][f] = {}
    BY <2>2
  <2>4. InTurn(d, v, f)
    BY <2>1, <2>3 DEF InTurn
  <2> QED BY <2>4 DEF Init, UpToDate
<1> QED BY <1>1, <1>2 DEF SoleInv, SoleOK

\* Nothing of a student who votes alone is lost: between the count of the
\* server and the votes cast are exactly the writes under way, however often
\* the lesson is closed and opened meanwhile (seeOtherVideo and
\* onComprehensionButton write the count of the snapshot plus one).
THEOREM SoleVoterCorrect == Spec => []SoleVoterIsCounted
<1>1. Init => Honest
  BY DEF Init, Honest, NoVoteCountedTwice
<1>2. (TypeOK /\ DevicesOK) /\ Honest /\ [Next]_vars => Honest'
  BY HonestStep
<1>3. (TypeOK /\ DevicesOK) /\ Honest /\ SoleInv /\ [Next]_vars => SoleInv'
  BY SendersStep, ListsStep, SoleStep DEF SoleInv
<1>4. TypeOK /\ Honest /\ SoleInv => SoleVoterIsCounted
  <2> SUFFICES ASSUME TypeOK, Honest, SoleInv,
                      NEW v \in Videos, NEW f \in Fields, NEW d \in Devices,
                      voters[v][f] = {d}, <<v, f>> \notin rejected, v \notin reset
               PROVE  count[v][f] + Cardinality(Pending(d, v, f)) = votes[v][f]
    BY DEF SoleVoterIsCounted
  <2>1. Sole(d, v, f)
    BY DEF Sole
  <2>2. InTurn(d, v, f)
    BY <2>1 DEF SoleInv, SoleOK
  <2>3. count[v][f] <= votes[v][f]
    BY DEF Honest, NoVoteCountedTwice
  <2> QED BY <2>2, <2>3, InTurnCounts
<1> QED BY <1>1, <1>2, <1>3, <1>4, SoleInit, ControlCorrect, PTL DEF Spec
=============================================================================
