---------------------------- MODULE RatingProofs ----------------------------
(***************************************************************************)
(* Proofs about Rating, for any controllers, documents, tags and bounds.   *)
(***************************************************************************)
EXTENDS Rating, FiniteSetTheorems, TLAPS

-----------------------------------------------------------------------------
(* What a controller waits for, and what it has on the screen.             *)

\* The documents still to be rated are different ones, and only the first may
\* have been rated.
ListOK(c) ==
  /\ \A j, k \in 1 .. Len(list[c]) : j # k => list[c][j].id # list[c][k].id
  /\ \A k \in 2 .. Len(list[c]) : list[c][k].id \notin rated[c]

\* Between the answer and the rating of a document.
WaitingOK(c) ==
  /\ "documents" \in loading[c] =>
       /\ list[c] = <<>> /\ ~enabled[c] /\ rated[c] = {}
       /\ "image" \notin loading[c] /\ "write" \notin loading[c]
  /\ "image" \in loading[c] =>
       /\ list[c] # <<>> /\ ~enabled[c] /\ list[c][1].id \notin rated[c]
       /\ "write" \notin loading[c] /\ c \in ImageProposals
  /\ "write" \in loading[c] =>
       /\ list[c] # <<>> /\ ~enabled[c]
       /\ write[c][1].id = list[c][1].id

\* A proposal writes a popularity, a tagger a tag.
WriteOK(c) ==
  write[c] # <<>> =>
    write[c][1] \in IF c \in Taggers THEN [id: Videos, tags: SUBSET Range(Tags)]
                    ELSE [id: Documents, popularity: Int]

ButtonsOK(c) ==
  enabled[c] => /\ list[c] # <<>> /\ list[c][1].id \notin rated[c]
                /\ shown[c] = list[c][1].id \/ (c \in ImageProposals /\ shown[c] = 0)
                /\ loading[c] \subseteq {"tags"}

\* The tagger only lists videos.
TaggerOK(c) ==
  c \in Taggers => \A k \in 1 .. Len(list[c]) : list[c][k].id \in Videos

ControllerOK(c) ==
  ListOK(c) /\ WaitingOK(c) /\ WriteOK(c) /\ ButtonsOK(c) /\ TaggerOK(c)

ScreenInv == TypeOK /\ \A c \in Controllers : ControllerOK(c)

Waits == {"documents", "tags", "image", "write"}

\* A step that leaves a controller's fields alone keeps what is said of it.
LEMMA OtherController ==
  ASSUME NEW d \in Controllers, ControllerOK(d),
         list'[d] = list[d], shown'[d] = shown[d], enabled'[d] = enabled[d],
         loading'[d] = loading[d], write'[d] = write[d], rated'[d] = rated[d]
  PROVE  ControllerOK(d)'
<1>1. ListOK(d)'
  BY DEF ControllerOK, ListOK
<1>2. WaitingOK(d)'
  BY DEF ControllerOK, WaitingOK
<1>3. WriteOK(d)'
  BY DEF ControllerOK, WriteOK
<1>4. ButtonsOK(d)'
  BY DEF ControllerOK, ButtonsOK
<1>5. TaggerOK(d)'
  BY DEF ControllerOK, TaggerOK
<1> QED BY <1>1, <1>2, <1>3, <1>4, <1>5 DEF ControllerOK

\* getNext goes on with documents that have not been rated.
LEMMA NextDocument ==
  ASSUME ScreenInv, NEW c \in Controllers, NEW rest \in Seq(Snapshots),
         NEW waiting \in SUBSET {"tags"}, ~enabled[c],
         getNext(c, rest, waiting), rated' = rated,
         write' \in [Controllers -> Seq(Writes)], write'[c] = <<>>,
         \A d \in Controllers : d # c => write'[d] = write[d],
         \A j, k \in 1 .. Len(rest) : j # k => rest[j].id # rest[k].id,
         \A k \in 1 .. Len(rest) : rest[k].id \notin rated[c],
         c \in Taggers => \A k \in 1 .. Len(rest) : rest[k].id \in Videos
  PROVE  /\ list' \in [Controllers -> Seq(Snapshots)]
         /\ shown' \in [Controllers -> Documents \union {0}]
         /\ enabled' \in [Controllers -> BOOLEAN]
         /\ loading' \in [Controllers -> SUBSET Waits]
         /\ trapped' \in [Controllers -> BOOLEAN]
         /\ \A d \in Controllers : (write'[d] # <<>>) <=> "write" \in loading'[d]
         /\ \A d \in Controllers : ControllerOK(d)'
<1> USE DEF ScreenInv, TypeOK, Waits
<1>1. list' = [list EXCEPT ![c] = rest]
  BY DEF getNext
<1>2. rest # <<>> => rest[1] \in Snapshots /\ rest[1].id \in Documents /\ Head(rest) = rest[1]
                     /\ Len(rest) \in Nat /\ 1 \in 1 .. Len(rest)
  <2>1. Len(rest) \in Nat /\ (rest # <<>> => 1 \in 1 .. Len(rest) /\ Head(rest) = rest[1])
    OBVIOUS
  <2>2. \A k \in 1 .. Len(rest) : rest[k] \in Snapshots
    OBVIOUS
  <2> QED BY <2>1, <2>2 DEF Snapshots
<1>3. list' \in [Controllers -> Seq(Snapshots)] /\ list'[c] = rest
  BY <1>1
<1>4. PICK awaited \in {waiting, waiting \union {"image"}} :
        /\ loading' = [loading EXCEPT ![c] = awaited]
        /\ "image" \in awaited => rest # <<>> /\ c \in ImageProposals
  BY DEF getNext
<1>5. enabled' = [enabled EXCEPT ![c] = rest # <<>> /\ c \notin ImageProposals]
  <2>1. CASE rest # <<>> /\ c \notin ImageProposals
    BY <2>1 DEF getNext
  <2>2. CASE ~ (rest # <<>> /\ c \notin ImageProposals)
    <3>1. enabled' = enabled
      BY <2>2 DEF getNext
    <3>2. enabled \in [Controllers -> BOOLEAN] /\ enabled[c] = FALSE
      OBVIOUS
    <3> QED BY <2>2, <3>1, <3>2
  <2> QED BY <2>1, <2>2
<1>6. shown' \in [Controllers -> Documents \union {0}]
      /\ (rest # <<>> /\ c \notin ImageProposals => shown'[c] = rest[1].id)
      /\ \A d \in Controllers : d # c => shown'[d] = shown[d]
  <2>1. CASE rest # <<>> /\ c \notin ImageProposals
    <3>1. shown' = [shown EXCEPT ![c] = rest[1].id]
      BY <2>1, <1>2 DEF getNext
    <3>2. rest[1].id \in Documents
      BY <2>1, <1>2
    <3> QED BY <2>1, <3>1, <3>2
  <2>2. CASE ~ (rest # <<>> /\ c \notin ImageProposals)
    <3>1. shown' = shown
      BY <2>2 DEF getNext
    <3> QED BY <2>2, <3>1
  <2> QED BY <2>1, <2>2
<1>7. loading' \in [Controllers -> SUBSET Waits] /\ enabled' \in [Controllers -> BOOLEAN]
  BY <1>4, <1>5
<1>8. loading'[c] = awaited
  BY <1>4
<1>9. enabled'[c] = (rest # <<>> /\ c \notin ImageProposals)
  BY <1>5
<1>10. "write" \notin loading'[c] /\ "documents" \notin loading'[c]
  BY <1>4, <1>8
<1>11. \A d \in Controllers : d # c => /\ list'[d] = list[d] /\ loading'[d] = loading[d]
                                       /\ enabled'[d] = enabled[d]
  BY <1>1, <1>4, <1>5
<1>12. ControllerOK(c)'
  <2>1. ListOK(c)'
    <3>1. Len(rest) \in Nat /\ 2 .. Len(rest) \subseteq 1 .. Len(rest)
      OBVIOUS
    <3> QED BY <1>3, <3>1 DEF ListOK
  <2>2. WaitingOK(c)'
    BY <1>2, <1>3, <1>4, <1>8, <1>9, <1>10 DEF WaitingOK
  <2>3. WriteOK(c)'
    BY DEF WriteOK
  <2>4. ButtonsOK(c)'
    BY <1>2, <1>3, <1>4, <1>6, <1>8, <1>9 DEF ButtonsOK
  <2>5. TaggerOK(c)'
    BY <1>3 DEF TaggerOK
  <2> QED BY <2>1, <2>2, <2>3, <2>4, <2>5 DEF ControllerOK
<1>13. \A d \in Controllers : ControllerOK(d)'
  <2> TAKE d \in Controllers
  <2>1. CASE d = c
    BY <2>1, <1>12
  <2>2. CASE d # c
    BY <2>2, <1>6, <1>11, OtherController
  <2> QED BY <2>1, <2>2
<1>14. \A d \in Controllers : (write'[d] # <<>>) <=> "write" \in loading'[d]
  BY <1>10, <1>11
<1>15. trapped' \in [Controllers -> BOOLEAN]
  <2>1. trapped' = trapped \/ trapped' = [trapped EXCEPT ![c] = TRUE]
    BY DEF getNext
  <2> QED BY <2>1
<1> QED BY <1>3, <1>6, <1>7, <1>13, <1>14, <1>15

\* The answer of a query lists different documents, with the popularity they
\* have; the tagger's are popular videos.
LEMMA AnswerIsAList ==
  ASSUME TypeOK, NEW c \in Controllers, NEW s \in {<<>>} \union Answers(c),
         NEW rest,
         rest = [k \in DOMAIN s |-> [id |-> s[k], popularity |-> popularity[s[k]]]]
  PROVE  /\ rest \in Seq(Snapshots)
         /\ \A j, k \in 1 .. Len(rest) : j # k => rest[j].id # rest[k].id
         /\ \A k \in 1 .. Len(rest) : rest[k].popularity = popularity[rest[k].id]
         /\ c \in Taggers => \A k \in 1 .. Len(rest) :
              rest[k].id \in Videos /\ popularity[rest[k].id] >= 10
<1>1. CASE s = <<>>
  <2>1. rest = <<>>
    BY <1>1
  <2> QED BY <2>1
<1>2. CASE s \in Answers(c)
  <2> DEFINE S == CASE c \in ImageProposals -> Images
                    [] c \in VideoProposals -> Videos
                    [] c \in Taggers -> {v \in Videos : Popular(v)}
             n == Cardinality(S)
             Before(v, w) ==
               \/ c \in Taggers /\ popularity[v] < popularity[w]
               \/ v < w /\ (c \in Taggers => popularity[v] = popularity[w])
  <2>1. S \subseteq Documents /\ (c \in Taggers => S = {v \in Videos : Popular(v)})
    BY RatingAssumption DEF Controllers, Documents
  <2>2. IsFiniteSet(S)
    BY <2>1, RatingAssumption, FS_Subset
  <2>3. n \in Nat
    BY <2>2, FS_CardinalityType
  <2>4. s \in [1 .. n -> S] /\ \A j, k \in 1 .. n : j < k => Before(s[j], s[k])
    BY <1>2 DEF Answers
  <2> HIDE DEF S, n
  <2>5. \A k \in 1 .. n : s[k] \in Documents /\ popularity[s[k]] \in Int /\ s[k] \in Nat
    BY <2>1, <2>4, RatingAssumption DEF TypeOK
  <2>6. \A j, k \in 1 .. n : j # k => s[j] # s[k]
    BY <2>3, <2>4, <2>5
  <2>7. rest \in [1 .. n -> Snapshots]
    BY <2>4, <2>5 DEF Snapshots
  <2>8. rest \in Seq(Snapshots) /\ Len(rest) = n
    BY <2>3, <2>7
  <2>9. \A k \in 1 .. n : rest[k] = [id |-> s[k], popularity |-> popularity[s[k]]]
    BY <2>4
  <2>10. \A k \in 1 .. n : rest[k].id = s[k] /\ rest[k].popularity = popularity[s[k]]
    <3> TAKE k \in 1 .. n
    <3>1. rest[k] = [id |-> s[k], popularity |-> popularity[s[k]]]
      BY <2>9
    <3> QED BY <3>1
  <2>11. c \in Taggers => \A k \in 1 .. n : s[k] \in Videos /\ popularity[s[k]] >= 10
    BY <2>1, <2>4 DEF Popular
  <2> QED BY <2>6, <2>8, <2>10, <2>11
<1> QED BY <1>1, <1>2

\* What is left after the first document.
LEMMA TailIsAList ==
  ASSUME TypeOK, NEW c \in Controllers, ControllerOK(c), list[c] # <<>>
  PROVE  /\ Tail(list[c]) \in Seq(Snapshots)
         /\ list[c][1] \in Snapshots /\ Head(list[c]) = list[c][1]
         /\ \A k \in 1 .. Len(Tail(list[c])) :
              Tail(list[c])[k] = list[c][k + 1] /\ k + 1 \in 2 .. Len(list[c])
         /\ \A j, k \in 1 .. Len(Tail(list[c])) :
              j # k => Tail(list[c])[j].id # Tail(list[c])[k].id
         /\ \A k \in 1 .. Len(Tail(list[c])) : Tail(list[c])[k].id \notin rated[c]
         /\ c \in Taggers => \A k \in 1 .. Len(Tail(list[c])) :
              Tail(list[c])[k].id \in Videos
<1> DEFINE l == list[c]
           t == Tail(list[c])
<1>1. l \in Seq(Snapshots) /\ Len(l) \in Nat /\ Len(l) > 0
  BY DEF TypeOK
<1>2. t \in Seq(Snapshots) /\ Len(t) = Len(l) - 1 /\ \A k \in 1 .. Len(t) : t[k] = l[k + 1]
  BY <1>1
<1>3. \A k \in 1 .. Len(t) : k + 1 \in 2 .. Len(l) /\ k + 1 \in 1 .. Len(l)
  BY <1>1, <1>2
<1>4. \A j, k \in 1 .. Len(t) : j # k => j + 1 # k + 1
  BY <1>1, <1>2
<1>5. l[1] \in Snapshots /\ Head(l) = l[1]
  BY <1>1
<1>6. /\ \A j, k \in 1 .. Len(l) : j # k => l[j].id # l[k].id
      /\ \A k \in 2 .. Len(l) : l[k].id \notin rated[c]
      /\ c \in Taggers => \A k \in 1 .. Len(l) : l[k].id \in Videos
  BY DEF ControllerOK, ListOK, TaggerOK
<1> HIDE DEF l, t
<1>7. \A j, k \in 1 .. Len(t) : j # k => t[j].id # t[k].id
  BY <1>2, <1>3, <1>4, <1>6
<1>8. \A k \in 1 .. Len(t) : t[k].id \notin rated[c] /\ (c \in Taggers => t[k].id \in Videos)
  BY <1>2, <1>3, <1>6
<1> QED BY <1>2, <1>3, <1>5, <1>7, <1>8 DEF l, t

-----------------------------------------------------------------------------
(* Every step keeps the invariant.                                         *)

LEMMA ScreenInit == Init => ScreenInv
<1> SUFFICES ASSUME Init PROVE ScreenInv
  OBVIOUS
<1>1. TypeOK
  <2>1. popularity \in [Documents -> Int] /\ errors \in 0 .. MaxErrors
    BY RatingAssumption DEF Init
  <2>2. /\ tagged \in [Videos -> SUBSET Range(Tags)]
        /\ list \in [Controllers -> Seq(Snapshots)]
        /\ shown \in [Controllers -> Documents \union {0}]
        /\ enabled \in [Controllers -> BOOLEAN]
        /\ write \in [Controllers -> Seq(Writes)]
        /\ tags \in [Taggers -> {<<>>, Tags}]
        /\ tag \in [Taggers -> SUBSET Range(Tags)]
        /\ trapped \in [Controllers -> BOOLEAN]
        /\ yes \in [Documents -> Nat] /\ no \in [Documents -> Nat]
        /\ rated \in [Controllers -> SUBSET Documents]
    BY DEF Init
  <2>3. /\ loading \in [Controllers -> SUBSET {"documents", "tags", "image", "write"}]
        /\ \A c \in Controllers : (write[c] # <<>>) <=> "write" \in loading[c]
    BY DEF Init
  <2> QED BY <2>1, <2>2, <2>3 DEF TypeOK
<1>2. ASSUME NEW c \in Controllers PROVE ControllerOK(c)
  BY DEF Init, ControllerOK, ListOK, WaitingOK, WriteOK, ButtonsOK, TaggerOK
<1> QED BY <1>1, <1>2 DEF ScreenInv

LEMMA GetDocumentsStep ==
  ASSUME ScreenInv, NEW c \in Controllers, GetDocumentsDone(c)
  PROVE  ScreenInv'
<1> USE DEF ScreenInv
<1>1. PICK s \in {<<>>} \union Answers(c) :
        getNext(c, [k \in DOMAIN s |-> [id |-> s[k], popularity |-> popularity[s[k]]]],
                loading[c] \ {"documents"})
  BY DEF GetDocumentsDone
<1> DEFINE rest == [k \in DOMAIN s |-> [id |-> s[k], popularity |-> popularity[s[k]]]]
<1>2. /\ rest \in Seq(Snapshots)
      /\ \A j, k \in 1 .. Len(rest) : j # k => rest[j].id # rest[k].id
      /\ c \in Taggers => \A k \in 1 .. Len(rest) : rest[k].id \in Videos
  <2> HIDE DEF rest
  <2>1. rest = [k \in DOMAIN s |-> [id |-> s[k], popularity |-> popularity[s[k]]]]
    BY DEF rest
  <2> QED BY <2>1, AnswerIsAList
<1>3. getNext(c, rest, loading[c] \ {"documents"})
  BY <1>1
<1> HIDE DEF rest
<1>4. /\ "documents" \in loading[c] /\ loading[c] \in SUBSET Waits
      /\ write' = write /\ rated' = rated
      /\ UNCHANGED <<popularity, tagged, tags, tag, errors, yes, no>>
  BY DEF GetDocumentsDone, TypeOK, Waits, history
<1>5. ~enabled[c] /\ rated[c] = {} /\ loading[c] \ {"documents"} \in SUBSET {"tags"}
      /\ write[c] = <<>>
  BY <1>4 DEF ControllerOK, WaitingOK, Waits, TypeOK
<1>6. write' \in [Controllers -> Seq(Writes)] /\ write'[c] = <<>>
      /\ \A d \in Controllers : d # c => write'[d] = write[d]
  BY <1>4, <1>5 DEF TypeOK
<1>7. \A k \in 1 .. Len(rest) : rest[k].id \notin rated[c]
  BY <1>5
<1>8. /\ list' \in [Controllers -> Seq(Snapshots)]
      /\ shown' \in [Controllers -> Documents \union {0}]
      /\ enabled' \in [Controllers -> BOOLEAN]
      /\ loading' \in [Controllers -> SUBSET Waits]
      /\ trapped' \in [Controllers -> BOOLEAN]
      /\ \A d \in Controllers : (write'[d] # <<>>) <=> "write" \in loading'[d]
      /\ \A d \in Controllers : ControllerOK(d)'
  BY <1>2, <1>3, <1>4, <1>5, <1>6, <1>7, NextDocument
<1>9. TypeOK'
  BY <1>4, <1>6, <1>8 DEF TypeOK, Waits
<1> QED BY <1>8, <1>9

LEMMA DownloadStep ==
  ASSUME ScreenInv, NEW c \in Controllers, DownloadDone(c)
  PROVE  ScreenInv'
<1> USE DEF ScreenInv
<1>1. /\ "image" \in loading[c]
      /\ loading' = [loading EXCEPT ![c] = @ \ {"image"}]
      /\ enabled' = [enabled EXCEPT ![c] = TRUE]
      /\ UNCHANGED <<popularity, tagged, list, write, tags, tag, trapped, errors,
                     yes, no, rated>>
  BY DEF DownloadDone, history
<1>2. ControllerOK(c)
  OBVIOUS
<1>3. list[c] # <<>> /\ list[c][1].id \notin rated[c] /\ "write" \notin loading[c]
      /\ "documents" \notin loading[c] /\ c \in ImageProposals
  BY <1>1, <1>2 DEF ControllerOK, WaitingOK
<1>4. Head(list[c]).id = list[c][1].id /\ list[c][1].id \in Documents
  BY <1>2, <1>3, TailIsAList DEF Snapshots
<1> PICK image \in {list[c][1].id, 0} : shown' = [shown EXCEPT ![c] = image]
  BY <1>4 DEF DownloadDone
<1>5. loading'[c] = loading[c] \ {"image"} /\ shown'[c] = image /\ enabled'[c]
      /\ loading[c] \in SUBSET Waits
      /\ loading' \in [Controllers -> SUBSET Waits]
      /\ shown' \in [Controllers -> Documents \union {0}]
      /\ enabled' \in [Controllers -> BOOLEAN]
  BY <1>1, <1>4 DEF TypeOK, Waits
<1>6. ControllerOK(c)'
  BY <1>1, <1>2, <1>3, <1>5
     DEF ControllerOK, ListOK, WaitingOK, WriteOK, ButtonsOK, TaggerOK, Waits
<1>7. ASSUME NEW d \in Controllers, d # c PROVE ControllerOK(d)'
  <2>1. loading'[d] = loading[d] /\ shown'[d] = shown[d] /\ enabled'[d] = enabled[d]
    BY <1>1, <1>7 DEF TypeOK
  <2> QED BY <1>1, <2>1, OtherController
<1>8. \A d \in Controllers : (write'[d] # <<>>) <=> "write" \in loading'[d]
  BY <1>1 DEF TypeOK
<1>9. TypeOK'
  BY <1>1, <1>5, <1>8 DEF TypeOK, Waits
<1> QED BY <1>6, <1>7, <1>9

LEMMA FailedStep ==
  ASSUME ScreenInv, NEW c \in Controllers, Failed(c)
  PROVE  ScreenInv'
<1> USE DEF ScreenInv
<1>1. PICK what \in loading[c] :
        /\ loading' = [loading EXCEPT ![c] = @ \ {what}]
        /\ write' = IF what = "write" THEN [write EXCEPT ![c] = <<>>] ELSE write
  BY DEF Failed
<1>2. /\ errors < MaxErrors /\ errors' = errors + 1
      /\ UNCHANGED <<popularity, tagged, list, shown, enabled, tags, tag, trapped,
                     yes, no, rated>>
  BY DEF Failed, history
<1>3. loading'[c] = loading[c] \ {what} /\ loading[c] \in SUBSET Waits
      /\ loading' \in [Controllers -> SUBSET Waits]
      /\ \A d \in Controllers : d # c => loading'[d] = loading[d]
  BY <1>1 DEF TypeOK, Waits
<1>4. write' \in [Controllers -> Seq(Writes)]
      /\ write'[c] = (IF what = "write" THEN <<>> ELSE write[c])
      /\ \A d \in Controllers : d # c => write'[d] = write[d]
  BY <1>1 DEF TypeOK
<1>5. ControllerOK(c)'
  <2>1. ControllerOK(c)
    OBVIOUS
  <2> QED BY <1>2, <1>3, <1>4, <2>1
       DEF ControllerOK, ListOK, WaitingOK, WriteOK, ButtonsOK, TaggerOK
<1>6. ASSUME NEW d \in Controllers, d # c PROVE ControllerOK(d)'
  BY <1>2, <1>3, <1>4, <1>6, OtherController
<1>7. \A d \in Controllers : (write'[d] # <<>>) <=> "write" \in loading'[d]
  BY <1>3, <1>4 DEF TypeOK
<1>8. errors' \in 0 .. MaxErrors
  BY <1>2, RatingAssumption DEF TypeOK
<1>9. TypeOK'
  BY <1>2, <1>3, <1>4, <1>7, <1>8 DEF TypeOK, Waits
<1> QED BY <1>5, <1>6, <1>9

\* An active button has a document.
LEMMA FirstDocument ==
  ASSUME ScreenInv, NEW c \in Controllers, enabled[c]
  PROVE  /\ list[c] # <<>> /\ 1 \in 1 .. Len(list[c])
         /\ Head(list[c]) = list[c][1] /\ list[c][1] \in Snapshots
         /\ Head(list[c]).id \in Documents /\ Head(list[c]).popularity \in Int
<1>1. ControllerOK(c) /\ list[c] # <<>>
  BY DEF ScreenInv, ControllerOK, ButtonsOK
<1>2. Head(list[c]) = list[c][1] /\ list[c][1] \in Snapshots
  BY <1>1, TailIsAList DEF ScreenInv
<1>3. 1 \in 1 .. Len(list[c])
  BY <1>1 DEF ScreenInv, TypeOK
<1> QED BY <1>1, <1>2, <1>3 DEF Snapshots

\* A button is pressed and w is on its way: the document is rated.
LEMMA RatedStep ==
  ASSUME ScreenInv, NEW c \in Controllers, enabled[c],
         NEW w \in Writes, w.id = list[c][1].id,
         w \in IF c \in Taggers THEN [id: Videos, tags: SUBSET Range(Tags)]
               ELSE [id: Documents, popularity: Int],
         enabled' = [enabled EXCEPT ![c] = FALSE],
         loading' = [loading EXCEPT ![c] = @ \union {"write"}],
         write' = [write EXCEPT ![c] = <<w>>],
         rated' = [rated EXCEPT ![c] = @ \union {list[c][1].id}],
         UNCHANGED <<list, shown>>
  PROVE  /\ enabled' \in [Controllers -> BOOLEAN]
         /\ loading' \in [Controllers -> SUBSET Waits]
         /\ write' \in [Controllers -> Seq(Writes)]
         /\ rated' \in [Controllers -> SUBSET Documents]
         /\ \A d \in Controllers : (write'[d] # <<>>) <=> "write" \in loading'[d]
         /\ \A d \in Controllers : ControllerOK(d)'
<1> USE DEF ScreenInv
<1>1. ControllerOK(c)
  OBVIOUS
<1>2. list[c] # <<>> /\ loading[c] \subseteq {"tags"}
  BY <1>1 DEF ControllerOK, ButtonsOK
<1>3. list[c][1] \in Snapshots /\ list[c][1].id \in Documents
  BY <1>1, <1>2, TailIsAList DEF Snapshots
<1>4. <<w>> \in Seq(Writes) /\ <<w>> # <<>> /\ <<w>>[1] = w
  OBVIOUS
<1>5. /\ enabled' \in [Controllers -> BOOLEAN] /\ enabled'[c] = FALSE
      /\ loading' \in [Controllers -> SUBSET Waits]
      /\ loading'[c] = loading[c] \union {"write"}
      /\ rated' \in [Controllers -> SUBSET Documents]
      /\ rated'[c] = rated[c] \union {list[c][1].id}
  BY <1>3 DEF TypeOK, Waits
<1>6. write' \in [Controllers -> Seq(Writes)] /\ write'[c] = <<w>>
  BY <1>4 DEF TypeOK
<1>7. \A d \in Controllers : d # c =>
        /\ enabled'[d] = enabled[d] /\ loading'[d] = loading[d]
        /\ write'[d] = write[d] /\ rated'[d] = rated[d]
  BY DEF TypeOK
<1>8. ControllerOK(c)'
  <2>1. ListOK(c)'
    <3>1. /\ \A j, k \in 1 .. Len(list[c]) : j # k => list[c][j].id # list[c][k].id
          /\ \A k \in 2 .. Len(list[c]) : list[c][k].id \notin rated[c]
      BY <1>1 DEF ControllerOK, ListOK
    <3>2. Len(list[c]) \in Nat /\ 1 \in 1 .. Len(list[c])
      BY <1>2 DEF TypeOK
    <3>3. \A k \in 2 .. Len(list[c]) : k \in 1 .. Len(list[c]) /\ k # 1
      BY <3>2
    <3>4. \A k \in 2 .. Len(list[c]) : list[c][k].id # list[c][1].id
      BY <3>1, <3>2, <3>3
    <3> QED BY <1>5, <3>1, <3>4 DEF ListOK
  <2>2. WaitingOK(c)'
    BY <1>2, <1>4, <1>5, <1>6 DEF WaitingOK
  <2>3. WriteOK(c)'
    BY <1>4, <1>6 DEF WriteOK
  <2>4. ButtonsOK(c)'
    BY <1>5 DEF ButtonsOK
  <2>5. TaggerOK(c)'
    BY <1>1 DEF ControllerOK, TaggerOK
  <2> QED BY <2>1, <2>2, <2>3, <2>4, <2>5 DEF ControllerOK
<1>9. ASSUME NEW d \in Controllers, d # c PROVE ControllerOK(d)'
  BY <1>7, <1>9, OtherController
<1>10. \A d \in Controllers : (write'[d] # <<>>) <=> "write" \in loading'[d]
  BY <1>4, <1>5, <1>6, <1>7 DEF TypeOK
<1> QED BY <1>5, <1>6, <1>8, <1>9, <1>10

\* A rating: the sign of the change is one of the two.
LEMMA RateStep ==
  ASSUME ScreenInv, NEW c \in Controllers, NEW i \in {-1, 1}, Rate(c, i),
         yes' \in [Documents -> Nat], no' \in [Documents -> Nat]
  PROVE  ScreenInv'
<1> USE DEF ScreenInv
<1>1. /\ enabled[c] /\ c \notin Taggers
      /\ enabled' = [enabled EXCEPT ![c] = FALSE]
      /\ loading' = [loading EXCEPT ![c] = @ \union {"write"}]
      /\ write' = [write EXCEPT ![c] =
           <<[id |-> Head(list[c]).id, popularity |-> Head(list[c]).popularity + i]>>]
      /\ rated' = [rated EXCEPT ![c] = @ \union {Head(list[c]).id}]
      /\ UNCHANGED <<popularity, tagged, list, shown, tags, tag, trapped, errors>>
  BY DEF Rate
<1>2. list[c] # <<>> /\ ControllerOK(c)
  BY <1>1 DEF ControllerOK, ButtonsOK
<1>3. Head(list[c]) = list[c][1] /\ list[c][1] \in Snapshots
  BY <1>2, TailIsAList
<1> DEFINE w == [id |-> list[c][1].id, popularity |-> list[c][1].popularity + i]
<1>4. w \in [id: Documents, popularity: Int] /\ w.id = list[c][1].id
  BY <1>3 DEF Snapshots
<1>5. write' = [write EXCEPT ![c] = <<w>>]
  BY <1>1, <1>3
<1>6. rated' = [rated EXCEPT ![c] = @ \union {list[c][1].id}]
  BY <1>1, <1>3
<1> HIDE DEF w
<1>7. w \in Writes /\ w \in IF c \in Taggers THEN [id: Videos, tags: SUBSET Range(Tags)]
                            ELSE [id: Documents, popularity: Int]
  BY <1>1, <1>4 DEF Writes
<1>8. /\ enabled' \in [Controllers -> BOOLEAN]
      /\ loading' \in [Controllers -> SUBSET Waits]
      /\ write' \in [Controllers -> Seq(Writes)]
      /\ rated' \in [Controllers -> SUBSET Documents]
      /\ \A d \in Controllers : (write'[d] # <<>>) <=> "write" \in loading'[d]
      /\ \A d \in Controllers : ControllerOK(d)'
  BY <1>1, <1>4, <1>5, <1>6, <1>7, RatedStep
<1>9. TypeOK'
  BY <1>1, <1>8 DEF TypeOK, Waits
<1> QED BY <1>8, <1>9

LEMMA OnDoneStep ==
  ASSUME ScreenInv, NEW c \in Taggers, onDone(c)
  PROVE  ScreenInv'
<1> USE DEF ScreenInv
<1>1. /\ enabled[c] /\ c \in Controllers
      /\ enabled' = [enabled EXCEPT ![c] = FALSE]
      /\ UNCHANGED <<popularity, tagged, list, shown, tags, tag, errors, yes, no>>
  BY DEF onDone, Controllers
<1>2. list[c] # <<>> /\ ControllerOK(c)
  BY <1>1 DEF ControllerOK, ButtonsOK
<1>3. Head(list[c]) = list[c][1] /\ list[c][1] \in Snapshots
  BY <1>1, <1>2, TailIsAList
<1>4. CASE tag[c] = {}
  <2>1. /\ trapped' = [trapped EXCEPT ![c] = TRUE]
        /\ UNCHANGED <<loading, write, rated>>
    BY <1>4 DEF onDone
  <2>2. enabled' \in [Controllers -> BOOLEAN] /\ trapped' \in [Controllers -> BOOLEAN]
        /\ enabled'[c] = FALSE
        /\ \A d \in Controllers : d # c => enabled'[d] = enabled[d]
    BY <1>1, <2>1 DEF TypeOK
  <2>3. ControllerOK(c)'
    BY <1>1, <1>2, <2>1, <2>2
       DEF ControllerOK, ListOK, WaitingOK, WriteOK, ButtonsOK, TaggerOK
  <2>4. ASSUME NEW d \in Controllers, d # c PROVE ControllerOK(d)'
    BY <1>1, <2>1, <2>2, <2>4, OtherController
  <2>5. TypeOK'
    BY <1>1, <2>1, <2>2 DEF TypeOK
  <2> QED BY <2>3, <2>4, <2>5
<1>5. CASE tag[c] # {}
  <2> DEFINE w == [id |-> list[c][1].id, tags |-> tag[c]]
  <2>1. /\ loading' = [loading EXCEPT ![c] = @ \union {"write"}]
        /\ write' = [write EXCEPT ![c] = <<w>>]
        /\ rated' = [rated EXCEPT ![c] = @ \union {list[c][1].id}]
        /\ UNCHANGED trapped
    BY <1>3, <1>5 DEF onDone
  <2>2. list[c][1].id \in Videos
    <3>1. Len(list[c]) \in Nat /\ 1 \in 1 .. Len(list[c])
      BY <1>1, <1>2 DEF TypeOK
    <3> QED BY <1>2, <3>1 DEF ControllerOK, TaggerOK
  <2>3. w \in [id: Videos, tags: SUBSET Range(Tags)] /\ w.id = list[c][1].id
    BY <2>2 DEF TypeOK
  <2> HIDE DEF w
  <2>4. w \in Writes /\ w \in IF c \in Taggers THEN [id: Videos, tags: SUBSET Range(Tags)]
                              ELSE [id: Documents, popularity: Int]
    BY <2>3 DEF Writes
  <2>5. /\ enabled' \in [Controllers -> BOOLEAN]
        /\ loading' \in [Controllers -> SUBSET Waits]
        /\ write' \in [Controllers -> Seq(Writes)]
        /\ rated' \in [Controllers -> SUBSET Documents]
        /\ \A d \in Controllers : (write'[d] # <<>>) <=> "write" \in loading'[d]
        /\ \A d \in Controllers : ControllerOK(d)'
    BY <1>1, <2>1, <2>3, <2>4, RatedStep
  <2>6. TypeOK'
    BY <1>1, <2>1, <2>5 DEF TypeOK, Waits
  <2> QED BY <2>5, <2>6
<1> QED BY <1>4, <1>5

\* The tags arrive, or one of them is selected: "tags" is all that changes of
\* what is waited for.
LEMMA TagsStep ==
  ASSUME ScreenInv, NEW c \in Taggers,
         GetTagsDone(c) \/ \E row \in DOMAIN tags[c] : didSelectRow(c, row)
  PROVE  ScreenInv'
<1> USE DEF ScreenInv
<1>1. CASE GetTagsDone(c)
  <2>1. /\ loading' = [loading EXCEPT ![c] = @ \ {"tags"}] /\ c \in Controllers
        /\ UNCHANGED <<popularity, tagged, list, shown, enabled, write, errors,
                       yes, no, rated>>
    BY <1>1 DEF GetTagsDone, history, Controllers
  <2>2. /\ tags' \in [Taggers -> {<<>>, Tags}]
        /\ tag' \in [Taggers -> SUBSET Range(Tags)]
        /\ trapped' \in [Controllers -> BOOLEAN]
    <3>1. Tags # <<>> => Tags[1] \in Range(Tags)
      <4>1. Tags # <<>> => 1 \in DOMAIN Tags
        BY RatingAssumption
      <4> QED BY <4>1 DEF Range
    <3>2. CASE UNCHANGED <<tags, tag, trapped>>
      BY <3>2 DEF TypeOK
    <3>3. CASE /\ Tags # <<>>
               /\ tags' = [tags EXCEPT ![c] = Tags]
               /\ tag' = [tag EXCEPT ![c] = {Tags[1]}]
               /\ UNCHANGED trapped
      <4>1. {Tags[1]} \in SUBSET Range(Tags)
        BY <3>1, <3>3
      <4> QED BY <3>3, <4>1 DEF TypeOK
    <3>4. CASE trapped' = [trapped EXCEPT ![c] = TRUE] /\ UNCHANGED <<tags, tag>>
      BY <3>4 DEF TypeOK
    <3> QED BY <1>1, <3>2, <3>3, <3>4 DEF GetTagsDone
  <2>3. loading' \in [Controllers -> SUBSET Waits] /\ loading'[c] = loading[c] \ {"tags"}
        /\ \A d \in Controllers : d # c => loading'[d] = loading[d]
    BY <2>1 DEF TypeOK, Waits
  <2>4. ControllerOK(c)'
    <3>1. ControllerOK(c)
      BY <2>1
    <3> QED BY <2>1, <2>3, <3>1
         DEF ControllerOK, ListOK, WaitingOK, WriteOK, ButtonsOK, TaggerOK
  <2>5. ASSUME NEW d \in Controllers, d # c PROVE ControllerOK(d)'
    BY <2>1, <2>3, <2>5, OtherController
  <2>6. \A d \in Controllers : (write'[d] # <<>>) <=> "write" \in loading'[d]
    BY <2>1, <2>3 DEF TypeOK
  <2>7. TypeOK'
    BY <2>1, <2>2, <2>3, <2>6 DEF TypeOK, Waits
  <2> QED BY <2>4, <2>5, <2>7
<1>2. ASSUME NEW row \in DOMAIN tags[c], didSelectRow(c, row) PROVE ScreenInv'
  <2>1. /\ tag' = [tag EXCEPT ![c] = {tags[c][row]}]
        /\ UNCHANGED <<popularity, tagged, list, shown, enabled, loading, write, tags,
                       trapped, errors, yes, no, rated>>
    BY <1>2 DEF didSelectRow, history
  <2>2. tags[c] = <<>> \/ tags[c] = Tags
    BY DEF TypeOK
  <2>3. tags[c][row] \in Range(Tags)
    BY <1>2, <2>2 DEF Range
  <2>4. TypeOK'
    BY <2>1, <2>3 DEF TypeOK
  <2>5. ASSUME NEW d \in Controllers PROVE ControllerOK(d)'
    BY <2>1, OtherController
  <2> QED BY <2>4, <2>5
<1> QED BY <1>1, <1>2

LEMMA WriteStep ==
  ASSUME ScreenInv, NEW c \in Controllers, WriteDone(c)
  PROVE  ScreenInv'
<1> USE DEF ScreenInv
<1>1. /\ write[c] # <<>> /\ write' = [write EXCEPT ![c] = <<>>]
      /\ getNext(c, Tail(list[c]), loading[c] \ {"write"})
      /\ UNCHANGED <<tags, tag, errors, yes, no, rated>>
  BY DEF WriteDone, history
<1>2. ControllerOK(c) /\ "write" \in loading[c] /\ loading[c] \in SUBSET Waits
  BY <1>1 DEF TypeOK, Waits
<1>3. list[c] # <<>> /\ ~enabled[c] /\ loading[c] \ {"write"} \in SUBSET {"tags"}
  BY <1>2 DEF ControllerOK, WaitingOK, Waits
<1>4. write' \in [Controllers -> Seq(Writes)] /\ write'[c] = <<>>
      /\ \A d \in Controllers : d # c => write'[d] = write[d]
  BY <1>1 DEF TypeOK
<1>5. popularity' \in [Documents -> Int] /\ tagged' \in [Videos -> SUBSET Range(Tags)]
  <2> DEFINE w == write[c][1]
  <2>1. w \in IF c \in Taggers THEN [id: Videos, tags: SUBSET Range(Tags)]
              ELSE [id: Documents, popularity: Int]
    BY <1>1, <1>2 DEF ControllerOK, WriteOK
  <2>2. CASE c \in Taggers
    <3>1. w.id \in Videos /\ w.tags \in SUBSET Range(Tags)
      BY <2>1, <2>2
    <3>2. popularity' = popularity /\ tagged' = [tagged EXCEPT ![w.id] = @ \union w.tags]
      BY <2>2 DEF WriteDone
    <3> HIDE DEF w
    <3> QED BY <3>1, <3>2 DEF TypeOK
  <2>3. CASE c \notin Taggers
    <3>1. w.id \in Documents /\ w.popularity \in Int
      BY <2>1, <2>3
    <3>2. tagged' = tagged /\ popularity' = [popularity EXCEPT ![w.id] = w.popularity]
      BY <2>3 DEF WriteDone
    <3> HIDE DEF w
    <3> QED BY <3>1, <3>2 DEF TypeOK
  <2> QED BY <2>2, <2>3
<1>6. /\ list' \in [Controllers -> Seq(Snapshots)]
      /\ shown' \in [Controllers -> Documents \union {0}]
      /\ enabled' \in [Controllers -> BOOLEAN]
      /\ loading' \in [Controllers -> SUBSET Waits]
      /\ trapped' \in [Controllers -> BOOLEAN]
      /\ \A d \in Controllers : (write'[d] # <<>>) <=> "write" \in loading'[d]
      /\ \A d \in Controllers : ControllerOK(d)'
  BY <1>1, <1>2, <1>3, <1>4, TailIsAList, NextDocument
<1>7. TypeOK'
  BY <1>1, <1>4, <1>5, <1>6 DEF TypeOK, Waits
<1> QED BY <1>6, <1>7

LEMMA ScreenNext == ScreenInv /\ [Next]_vars => ScreenInv'
<1> SUFFICES ASSUME ScreenInv, [Next]_vars PROVE ScreenInv'
  OBVIOUS
<1>1. ASSUME NEW c \in Controllers, onYes(c) PROVE ScreenInv'
  <2>1. Rate(c, 1) /\ yes' = [yes EXCEPT ![Head(list[c]).id] = @ + 1] /\ no' = no
    BY <1>1 DEF onYes
  <2>2. Head(list[c]).id \in Documents
    BY <2>1, FirstDocument DEF Rate
  <2>3. yes' \in [Documents -> Nat] /\ no' \in [Documents -> Nat]
    BY <2>1, <2>2 DEF ScreenInv, TypeOK
  <2> QED BY <2>1, <2>3, RateStep
<1>2. ASSUME NEW c \in Controllers, onNo(c) PROVE ScreenInv'
  <2>1. Rate(c, -1) /\ no' = [no EXCEPT ![Head(list[c]).id] = @ + 1] /\ yes' = yes
    BY <1>2 DEF onNo
  <2>2. Head(list[c]).id \in Documents
    BY <2>1, FirstDocument DEF Rate
  <2>3. yes' \in [Documents -> Nat] /\ no' \in [Documents -> Nat]
    BY <2>1, <2>2 DEF ScreenInv, TypeOK
  <2> QED BY <2>1, <2>3, RateStep
<1>3. CASE UNCHANGED vars
  <2>1. UNCHANGED <<popularity, tagged, list, shown, enabled, loading, write, tags, tag,
                    trapped, errors, yes, no, rated>>
    BY <1>3 DEF vars, device, history
  <2>2. TypeOK'
    BY <2>1 DEF ScreenInv, TypeOK
  <2>3. ASSUME NEW d \in Controllers PROVE ControllerOK(d)'
    BY <2>1, OtherController DEF ScreenInv
  <2> QED BY <2>2, <2>3 DEF ScreenInv
<1> QED BY <1>1, <1>2, <1>3, GetDocumentsStep, DownloadStep, FailedStep, WriteStep,
          TagsStep, OnDoneStep DEF Next

-----------------------------------------------------------------------------
(* What the ratings add up to.                                             *)

\* A popularity s that y and n, the ratings of each document, allow.
Sound(s, y, n) ==
  s.popularity \in Popularity0[s.id] - n[s.id] .. Popularity0[s.id] + y[s.id]

Popularised(s, y) == Popularity0[s.id] + y[s.id] >= 10

\* What a controller has read or is about to write.
HonestController(c) ==
  /\ \A k \in 1 .. Len(list[c]) :
       /\ Sound(list[c][k], yes, no)
       /\ c \in Taggers => Popularised(list[c][k], yes)
  /\ c \notin Taggers /\ write[c] # <<>> => Sound(write[c][1], yes, no)

Honest ==
  PopularityComesFromRatings /\ \A c \in Controllers : HonestController(c)

\* The history only grows.
Grows ==
  /\ yes' \in [Documents -> Nat] /\ no' \in [Documents -> Nat]
  /\ \A d \in Documents : yes'[d] >= yes[d] /\ no'[d] >= no[d]

\* So what was allowed still is.
LEMMA SoundGrows ==
  ASSUME TypeOK, Grows, NEW s \in Snapshots
  PROVE  /\ Sound(s, yes, no) => Sound(s, yes', no')
         /\ Popularised(s, yes) => Popularised(s, yes')
<1>1. s.id \in Documents /\ s.popularity \in Int
  BY DEF Snapshots
<1>2. /\ Popularity0[s.id] \in Int /\ yes[s.id] \in Nat /\ no[s.id] \in Nat
      /\ yes'[s.id] \in Nat /\ no'[s.id] \in Nat
      /\ yes'[s.id] >= yes[s.id] /\ no'[s.id] >= no[s.id]
  BY <1>1, RatingAssumption DEF TypeOK, Grows
<1>3. Sound(s, yes, no) => Sound(s, yes', no')
  BY <1>1, <1>2 DEF Sound
<1>4. Popularised(s, yes) => Popularised(s, yes')
  BY <1>2 DEF Popularised
<1> QED BY <1>3, <1>4

\* A controller whose list a step leaves alone, and which writes nothing new.
LEMMA KeptController ==
  ASSUME ScreenInv, Grows, NEW c \in Controllers, HonestController(c),
         list'[c] = list[c], write'[c] = write[c] \/ write'[c] = <<>>
  PROVE  HonestController(c)'
<1>1. TypeOK /\ ControllerOK(c)
  BY DEF ScreenInv
<1>2. \A k \in 1 .. Len(list[c]) : /\ Sound(list[c][k], yes', no')
                                   /\ c \in Taggers => Popularised(list[c][k], yes')
  <2> TAKE k \in 1 .. Len(list[c])
  <2>1. list[c][k] \in Snapshots
    BY <1>1 DEF TypeOK
  <2>2. /\ Sound(list[c][k], yes, no)
        /\ c \in Taggers => Popularised(list[c][k], yes)
    BY DEF HonestController
  <2> QED BY <1>1, <2>1, <2>2, SoundGrows
<1>3. c \notin Taggers /\ write[c] # <<>> => Sound(write[c][1], yes', no')
  <2> SUFFICES ASSUME c \notin Taggers, write[c] # <<>>
               PROVE  Sound(write[c][1], yes', no')
    OBVIOUS
  <2>1. write[c][1] \in Snapshots
    BY <1>1 DEF ControllerOK, WriteOK, Snapshots
  <2>2. Sound(write[c][1], yes, no)
    BY DEF HonestController
  <2> QED BY <1>1, <2>1, <2>2, SoundGrows
<1> QED BY <1>2, <1>3 DEF HonestController

\* The documents, as long as nothing is written.
LEMMA KeptDocuments ==
  ASSUME TypeOK, Grows, PopularityComesFromRatings,
         popularity' = popularity, tagged' = tagged
  PROVE  PopularityComesFromRatings'
<1>1. ASSUME NEW d \in Documents
      PROVE  popularity[d] \in Popularity0[d] - no'[d] .. Popularity0[d] + yes'[d]
  <2>1. /\ Popularity0[d] \in Int /\ yes[d] \in Nat /\ no[d] \in Nat
        /\ yes'[d] \in Nat /\ no'[d] \in Nat /\ popularity[d] \in Int
        /\ yes'[d] >= yes[d] /\ no'[d] >= no[d]
    BY RatingAssumption DEF TypeOK, Grows
  <2> QED BY <2>1 DEF PopularityComesFromRatings
<1>2. ASSUME NEW v \in Videos, tagged[v] # {}
      PROVE  Popularity0[v] + yes'[v] >= 10
  <2>1. /\ v \in Documents /\ Popularity0[v] \in Int /\ yes[v] \in Nat
        /\ yes'[v] \in Nat /\ yes'[v] >= yes[v]
    BY RatingAssumption DEF TypeOK, Grows, Documents
  <2> QED BY <1>2, <2>1 DEF PopularityComesFromRatings
<1> QED BY <1>1, <1>2 DEF PopularityComesFromRatings

LEMMA SameHistoryGrows ==
  ASSUME TypeOK, yes' = yes, no' = no
  PROVE  Grows
<1>1. yes \in [Documents -> Nat] /\ no \in [Documents -> Nat]
  BY DEF TypeOK
<1>2. \A d \in Documents : yes[d] >= yes[d] /\ no[d] >= no[d]
  BY <1>1
<1> QED BY <1>1, <1>2 DEF Grows

LEMMA HonestInit == Init => Honest
<1> SUFFICES ASSUME Init PROVE Honest
  OBVIOUS
<1>1. PopularityComesFromRatings
  BY RatingAssumption DEF Init, PopularityComesFromRatings
<1>2. ASSUME NEW c \in Controllers PROVE HonestController(c)
  <2>1. list[c] = <<>> /\ write[c] = <<>>
    BY DEF Init
  <2> QED BY <2>1 DEF HonestController
<1> QED BY <1>1, <1>2 DEF Honest

\* A snapshot of a document is as good as the document.
LEMMA HonestGetDocuments ==
  ASSUME ScreenInv, Honest, NEW c \in Controllers, GetDocumentsDone(c)
  PROVE  Honest'
<1> USE DEF ScreenInv
<1>1. PICK s \in {<<>>} \union Answers(c) :
        getNext(c, [k \in DOMAIN s |-> [id |-> s[k], popularity |-> popularity[s[k]]]],
                loading[c] \ {"documents"})
  BY DEF GetDocumentsDone
<1> DEFINE rest == [k \in DOMAIN s |-> [id |-> s[k], popularity |-> popularity[s[k]]]]
<1>2. rest = [k \in DOMAIN s |-> [id |-> s[k], popularity |-> popularity[s[k]]]]
  OBVIOUS
<1>3. list' = [list EXCEPT ![c] = rest]
  BY <1>1 DEF getNext
<1> HIDE DEF rest
<1>4. /\ rest \in Seq(Snapshots)
      /\ \A k \in 1 .. Len(rest) : rest[k].popularity = popularity[rest[k].id]
      /\ c \in Taggers => \A k \in 1 .. Len(rest) : popularity[rest[k].id] >= 10
  BY <1>2, AnswerIsAList
<1>5. UNCHANGED <<popularity, tagged, write, yes, no>>
  BY DEF GetDocumentsDone, history
<1>6. Grows
  BY <1>5, SameHistoryGrows
<1>7. HonestController(c)'
  <2>1. ASSUME NEW k \in 1 .. Len(rest)
        PROVE  Sound(rest[k], yes, no) /\ (c \in Taggers => Popularised(rest[k], yes))
    <3>1. rest[k] \in Snapshots
      BY <1>4
    <3>2. rest[k].id \in Documents /\ rest[k].popularity = popularity[rest[k].id]
      BY <1>4, <3>1 DEF Snapshots
    <3>3. rest[k].popularity \in Popularity0[rest[k].id] - no[rest[k].id]
                                 .. Popularity0[rest[k].id] + yes[rest[k].id]
      BY <3>2 DEF Honest, PopularityComesFromRatings
    <3>4. /\ Popularity0[rest[k].id] \in Int /\ yes[rest[k].id] \in Nat
          /\ no[rest[k].id] \in Nat /\ popularity[rest[k].id] \in Int
      BY <3>2, RatingAssumption DEF TypeOK
    <3>5. c \in Taggers => popularity[rest[k].id] >= 10
      BY <1>4
    <3> QED BY <3>2, <3>3, <3>4, <3>5 DEF Sound, Popularised
  <2>2. list'[c] = rest /\ write'[c] = write[c]
    BY <1>3, <1>5 DEF TypeOK
  <2>3. c \notin Taggers /\ write[c] # <<>> => Sound(write[c][1], yes, no)
    BY DEF Honest, HonestController
  <2> QED BY <1>5, <2>1, <2>2, <2>3 DEF HonestController
<1>8. ASSUME NEW d \in Controllers, d # c PROVE HonestController(d)'
  <2>1. list'[d] = list[d] /\ write'[d] = write[d]
    BY <1>3, <1>5, <1>8 DEF TypeOK
  <2> QED BY <1>6, <2>1, KeptController DEF Honest
<1>9. PopularityComesFromRatings'
  BY <1>5, <1>6, KeptDocuments DEF Honest
<1> QED BY <1>7, <1>8, <1>9 DEF Honest

\* A rating is one more in the history, and one more or less in the write.
LEMMA HonestRate ==
  ASSUME ScreenInv, Honest, NEW c \in Controllers, onYes(c) \/ onNo(c)
  PROVE  Honest'
<1> USE DEF ScreenInv
<1> DEFINE first == list[c][1]
<1>1. PICK i \in {-1, 1} :
        /\ Rate(c, i)
        /\ i = 1 => yes' = [yes EXCEPT ![Head(list[c]).id] = @ + 1] /\ no' = no
        /\ i = -1 => no' = [no EXCEPT ![Head(list[c]).id] = @ + 1] /\ yes' = yes
  BY DEF onYes, onNo
<1>2. /\ first \in Snapshots /\ Head(list[c]) = first /\ 1 \in 1 .. Len(list[c])
      /\ first.id \in Documents /\ first.popularity \in Int
  BY <1>1, FirstDocument DEF Rate
<1>3. /\ UNCHANGED <<popularity, tagged, list>> /\ c \notin Taggers
      /\ write' = [write EXCEPT ![c] =
           <<[id |-> first.id, popularity |-> first.popularity + i]>>]
  BY <1>1, <1>2 DEF Rate
<1>4. Sound(first, yes, no)
  BY <1>2 DEF Honest, HonestController
<1> HIDE DEF first
<1>5. Grows /\ yes'[first.id] = yes[first.id] + (IF i = 1 THEN 1 ELSE 0)
            /\ no'[first.id] = no[first.id] + (IF i = 1 THEN 0 ELSE 1)
  <2>1. yes \in [Documents -> Nat] /\ no \in [Documents -> Nat]
    BY DEF TypeOK
  <2>2. CASE i = 1
    <3>1. yes' = [yes EXCEPT ![first.id] = @ + 1] /\ no' = no
      BY <1>1, <1>2, <2>2
    <3>2. yes' \in [Documents -> Nat] /\ yes'[first.id] = yes[first.id] + 1
          /\ \A d \in Documents : yes'[d] >= yes[d]
      BY <1>2, <2>1, <3>1
    <3> QED BY <1>2, <2>1, <2>2, <3>1, <3>2 DEF Grows
  <2>3. CASE i = -1
    <3>1. no' = [no EXCEPT ![first.id] = @ + 1] /\ yes' = yes
      BY <1>1, <1>2, <2>3
    <3>2. no' \in [Documents -> Nat] /\ no'[first.id] = no[first.id] + 1
          /\ \A d \in Documents : no'[d] >= no[d]
      BY <1>2, <2>1, <3>1
    <3> QED BY <1>2, <2>1, <2>3, <3>1, <3>2 DEF Grows
  <2> QED BY <2>2, <2>3
<1> DEFINE w == [id |-> first.id, popularity |-> first.popularity + i]
<1>6. Sound(w, yes', no')
  <2>1. w.id = first.id /\ w.popularity = first.popularity + i
    OBVIOUS
  <2>2. Popularity0[first.id] \in Int /\ yes[first.id] \in Nat /\ no[first.id] \in Nat
    BY <1>2, RatingAssumption DEF TypeOK
  <2>3. first.popularity \in Popularity0[first.id] - no[first.id]
                             .. Popularity0[first.id] + yes[first.id]
    BY <1>4 DEF Sound
  <2>4. first.popularity + i \in Popularity0[first.id] - no'[first.id]
                                 .. Popularity0[first.id] + yes'[first.id]
    BY <1>2, <1>5, <2>2, <2>3
  <2> HIDE DEF w
  <2> QED BY <2>1, <2>4 DEF Sound
<1>7. write'[c] = <<w>> /\ <<w>>[1] = w
  BY <1>3 DEF TypeOK
<1> HIDE DEF w
<1>8. HonestController(c)'
  <2>1. ASSUME NEW k \in 1 .. Len(list[c]) PROVE Sound(list[c][k], yes', no')
    <3>1. list[c][k] \in Snapshots /\ Sound(list[c][k], yes, no)
      BY DEF TypeOK, Honest, HonestController
    <3> QED BY <1>5, <3>1, SoundGrows
  <2> QED BY <1>3, <1>6, <1>7, <2>1 DEF HonestController
<1>9. ASSUME NEW d \in Controllers, d # c PROVE HonestController(d)'
  <2>1. list'[d] = list[d] /\ write'[d] = write[d]
    BY <1>3, <1>9 DEF TypeOK
  <2> QED BY <1>5, <2>1, KeptController DEF Honest
<1>10. PopularityComesFromRatings'
  BY <1>3, <1>5, KeptDocuments DEF Honest
<1> QED BY <1>8, <1>9, <1>10 DEF Honest

\* The document becomes what the write was allowed to be.
LEMMA HonestWrite ==
  ASSUME ScreenInv, Honest, NEW c \in Controllers, WriteDone(c)
  PROVE  Honest'
<1> USE DEF ScreenInv
<1> DEFINE w == write[c][1]
<1>1. /\ write[c] # <<>> /\ write' = [write EXCEPT ![c] = <<>>]
      /\ list' = [list EXCEPT ![c] = Tail(list[c])]
      /\ UNCHANGED <<yes, no>>
  BY DEF WriteDone, getNext, history
<1>2. /\ ControllerOK(c) /\ list[c] # <<>> /\ w.id = list[c][1].id
      /\ w \in IF c \in Taggers THEN [id: Videos, tags: SUBSET Range(Tags)]
               ELSE [id: Documents, popularity: Int]
  BY <1>1 DEF TypeOK, ControllerOK, WaitingOK, WriteOK
<1>3. Grows
  BY <1>1, SameHistoryGrows
<1>4. ASSUME NEW d \in Controllers PROVE HonestController(d)'
  <2>1. CASE d # c
    <3>1. list'[d] = list[d] /\ write'[d] = write[d]
      BY <1>1, <2>1 DEF TypeOK
    <3> QED BY <1>3, <3>1, KeptController DEF Honest
  <2>2. CASE d = c
    <3>1. list'[c] = Tail(list[c]) /\ write'[c] = <<>>
      BY <1>1 DEF TypeOK
    <3>2. \A k \in 1 .. Len(Tail(list[c])) :
            Tail(list[c])[k] = list[c][k + 1] /\ k + 1 \in 1 .. Len(list[c])
      <4>1. \A k \in 2 .. Len(list[c]) : k \in 1 .. Len(list[c])
        BY DEF TypeOK
      <4> QED BY <1>2, <4>1, TailIsAList
    <3>3. \A k \in 1 .. Len(list[c]) :
            /\ Sound(list[c][k], yes, no)
            /\ c \in Taggers => Popularised(list[c][k], yes)
      BY DEF Honest, HonestController
    <3> QED BY <1>1, <2>2, <3>1, <3>2, <3>3 DEF HonestController
  <2> QED BY <2>1, <2>2
<1>5. PopularityComesFromRatings'
  <2>1. CASE c \in Taggers
    <3>1. w.id \in Videos /\ w.tags \in SUBSET Range(Tags)
      BY <1>2, <2>1
    <3>2. popularity' = popularity /\ tagged' = [tagged EXCEPT ![w.id] = @ \union w.tags]
      BY <2>1 DEF WriteDone
    <3>3. Popularity0[w.id] + yes[w.id] >= 10
      <4>1. 1 \in 1 .. Len(list[c])
        BY <1>2 DEF TypeOK
      <4>2. Popularised(list[c][1], yes)
        BY <2>1, <4>1 DEF Honest, HonestController
      <4> QED BY <1>2, <4>2 DEF Popularised
    <3> HIDE DEF w
    <3>4. ASSUME NEW v \in Videos, tagged'[v] # {} PROVE Popularity0[v] + yes[v] >= 10
      <4>1. CASE v = w.id
        BY <4>1, <3>3
      <4>2. CASE v # w.id
        <5>1. tagged'[v] = tagged[v]
          BY <3>1, <3>2, <4>2 DEF TypeOK
        <5> QED BY <3>4, <5>1 DEF Honest, PopularityComesFromRatings
      <4> QED BY <4>1, <4>2
    <3>5. \A d \in Documents : popularity[d] \in Popularity0[d] - no[d]
                                                 .. Popularity0[d] + yes[d]
      BY DEF Honest, PopularityComesFromRatings
    <3> QED BY <1>1, <3>2, <3>4, <3>5 DEF PopularityComesFromRatings
  <2>2. CASE c \notin Taggers
    <3>1. w.id \in Documents /\ w.popularity \in Int
      BY <1>2, <2>2
    <3>2. tagged' = tagged /\ popularity' = [popularity EXCEPT ![w.id] = w.popularity]
      BY <2>2 DEF WriteDone
    <3>3. Sound(w, yes, no)
      BY <1>1, <2>2 DEF Honest, HonestController
    <3> HIDE DEF w
    <3>4. ASSUME NEW d \in Documents
          PROVE  popularity'[d] \in Popularity0[d] - no[d] .. Popularity0[d] + yes[d]
      <4>1. CASE d = w.id
        <5>1. popularity'[d] = w.popularity
          BY <3>1, <3>2, <4>1 DEF TypeOK
        <5> QED BY <3>3, <4>1, <5>1 DEF Sound
      <4>2. CASE d # w.id
        <5>1. popularity'[d] = popularity[d]
          BY <3>1, <3>2, <4>2 DEF TypeOK
        <5> QED BY <5>1 DEF Honest, PopularityComesFromRatings
      <4> QED BY <4>1, <4>2
    <3>5. \A v \in Videos : tagged[v] # {} => Popularity0[v] + yes[v] >= 10
      BY DEF Honest, PopularityComesFromRatings
    <3> QED BY <1>1, <3>2, <3>4, <3>5 DEF PopularityComesFromRatings
  <2> QED BY <2>1, <2>2
<1> QED BY <1>4, <1>5 DEF Honest

LEMMA HonestNext == ScreenInv /\ Honest /\ [Next]_vars => Honest'
<1> SUFFICES ASSUME ScreenInv, Honest, [Next]_vars PROVE Honest'
  OBVIOUS
\* The steps that write nothing and list nothing new.
<1>1. ASSUME UNCHANGED <<popularity, tagged, list, yes, no>>,
             \A d \in Controllers : \/ write'[d] = write[d] \/ write'[d] = <<>>
      PROVE  Honest'
  <2>1. Grows
    BY <1>1, SameHistoryGrows DEF ScreenInv
  <2>2. ASSUME NEW d \in Controllers PROVE HonestController(d)'
    BY <1>1, <2>1, KeptController DEF Honest
  <2>3. PopularityComesFromRatings'
    BY <1>1, <2>1, KeptDocuments DEF Honest, ScreenInv
  <2> QED BY <2>2, <2>3 DEF Honest
<1>2. ASSUME NEW c \in Controllers, DownloadDone(c) PROVE Honest'
  BY <1>1, <1>2 DEF DownloadDone, history
<1>3. ASSUME NEW c \in Controllers, Failed(c) PROVE Honest'
  <2>1. UNCHANGED <<popularity, tagged, list, yes, no>>
    BY <1>3 DEF Failed, history
  <2>2. write' = write \/ write' = [write EXCEPT ![c] = <<>>]
    BY <1>3 DEF Failed
  <2>3. \A d \in Controllers : \/ write'[d] = write[d] \/ write'[d] = <<>>
    BY <2>2 DEF ScreenInv, TypeOK
  <2> QED BY <1>1, <2>1, <2>3
<1>4. ASSUME NEW c \in Taggers, GetTagsDone(c) PROVE Honest'
  BY <1>1, <1>4 DEF GetTagsDone, history
<1>5. ASSUME NEW c \in Taggers, NEW row \in DOMAIN tags[c], didSelectRow(c, row)
      PROVE  Honest'
  BY <1>1, <1>5 DEF didSelectRow, history
\* Nothing is said of what a tagger writes.
<1>6. ASSUME NEW c \in Taggers, onDone(c) PROVE Honest'
  <2>1. /\ UNCHANGED <<popularity, tagged, list, yes, no>> /\ c \in Controllers
        /\ \A d \in Controllers : d # c => write'[d] = write[d]
    BY <1>6 DEF onDone, ScreenInv, TypeOK, Controllers
  <2>2. Grows
    BY <2>1, SameHistoryGrows DEF ScreenInv
  <2>3. ASSUME NEW d \in Controllers PROVE HonestController(d)'
    <3>1. CASE d = c
      BY <1>6, <2>1, <3>1 DEF Honest, HonestController
    <3>2. CASE d # c
      BY <2>1, <2>2, <3>2, KeptController DEF Honest
    <3> QED BY <3>1, <3>2
  <2>4. PopularityComesFromRatings'
    BY <2>1, <2>2, KeptDocuments DEF Honest, ScreenInv
  <2> QED BY <2>3, <2>4 DEF Honest
<1>7. CASE UNCHANGED vars
  BY <1>1, <1>7 DEF vars, device, history
<1> QED BY <1>2, <1>3, <1>4, <1>5, <1>6, <1>7, HonestGetDocuments, HonestRate,
          HonestWrite DEF Next

-----------------------------------------------------------------------------
(* The theorems.                                                           *)

\* The handlers of the proposals and the tagger keep the types of their
\* fields and of the documents, and wait for a write exactly while there is one
\* (getImage, getVideo, nextImage, nextVideo).
THEOREM RatingTypes == Spec => []TypeOK
<1>1. ScreenInv => TypeOK
  BY DEF ScreenInv
<1> QED BY <1>1, ScreenInit, ScreenNext, PTL DEF Spec

\* A button rates the document on the screen, once, or the image that should be
\* on the blank screen; never another one (nextImage, nextVideo, downloadImage).
THEOREM RatingCorrect == Spec => []NeverRatesAnother
<1>1. ScreenInv => NeverRatesAnother
  <2> SUFFICES ASSUME ScreenInv, NEW c \in Controllers, enabled[c]
               PROVE  /\ list[c] # <<>> /\ Head(list[c]).id \notin rated[c]
                      /\ shown[c] \in {Head(list[c]).id}
                           \union (IF c \in ImageProposals THEN {0} ELSE {})
                      /\ loading[c] \subseteq {"tags"}
    BY DEF NeverRatesAnother
  <2>1. Head(list[c]) = list[c][1]
    BY FirstDocument
  <2> QED BY <2>1 DEF ScreenInv, ControllerOK, ButtonsOK
<1> QED BY <1>1, ScreenInit, ScreenNext, PTL DEF Spec

\* The popularity stays within what the ratings add up to, and only a video
\* they have made popular is tagged (nextImage, nextVideo, getVideos).
THEOREM PopularityCorrect == Spec => []PopularityComesFromRatings
<1>1. ScreenInv /\ Honest => PopularityComesFromRatings
  BY DEF Honest
<1>2. Init => ScreenInv /\ Honest
  BY ScreenInit, HonestInit
<1>3. ScreenInv /\ Honest /\ [Next]_vars => (ScreenInv /\ Honest)'
  BY ScreenNext, HonestNext
<1> QED BY <1>1, <1>2, <1>3, PTL DEF Spec
=============================================================================
