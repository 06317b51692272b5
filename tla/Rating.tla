------------------------------- MODULE Rating -------------------------------
(***************************************************************************)
(* Rating and tagging: ImageProposalViewController,                        *)
(* VideoProposalViewController and VideoTaggerViewController, each on a    *)
(* device of its own, over the documents of images and videos.             *)
(*                                                                         *)
(* A proposal writes the popularity of its snapshot plus or minus one.  An *)
(* image can only be rated when its download has finished, and is then on  *)
(* the screen unless what was downloaded is no image.  The tagger lists    *)
(* the videos that are popular when it asks, and has a second query for    *)
(* the tags.                                                               *)
(***************************************************************************)
EXTENDS Integers, Sequences, FiniteSets, Functions

CONSTANTS
  ImageProposals, VideoProposals, Taggers, \* controllers
  Images, Videos, \* documents, numbered in the order of their ids
  Tags,           \* the subject's tags, in their order
  Popularity0,    \* the popularity of each document at first
  MaxErrors       \* bound: calls and downloads that fail

Controllers == ImageProposals \union VideoProposals \union Taggers

Documents == Images \union Videos

ASSUME RatingAssumption ==
  /\ ImageProposals \intersect VideoProposals = {}
  /\ Taggers \intersect (ImageProposals \union VideoProposals) = {}
  /\ Documents \subseteq Nat \ {0} /\ IsFiniteSet(Documents)
  /\ Images \intersect Videos = {}
  /\ Tags \in Seq(Range(Tags))
  /\ Popularity0 \in [Documents -> Int]
  /\ MaxErrors \in Nat

VARIABLES
  popularity,  \* server: of each document
  tagged,      \* server: the tags of "Tags Popularity" of each video
  list,        \* imagesUrls, videos: snapshots still to be rated
  shown,       \* the document on the screen or in the player, 0 if none
  enabled,     \* the buttons
  loading,     \* what the controller waits for: "documents", "tags",
               \* "image" and "write"
  write,       \* the write it waits for, if any
  tags, tag,   \* tagger: the tags, and the one selected (a set of one)
  trapped,     \* an index or a forced unwrap has ended the app
  errors,      \* calls that have failed
  yes, no,     \* history: ratings of each document
  rated        \* history: what each controller has rated

device == <<list, shown, enabled, loading, write, tags, tag, trapped>>
history == <<yes, no, rated>>
vars == <<popularity, tagged, device, errors, history>>

Snapshots == [id: Documents, popularity: Int]

\* "Popularity" of a document, and a tag in "Tags Popularity" of a video.
Writes == [id: Documents, popularity: Int]
            \union [id: Videos, tags: SUBSET Range(Tags)]

Init ==
  /\ popularity = Popularity0
  /\ tagged = [v \in Videos |-> {}]
  /\ list = [c \in Controllers |-> <<>>]
  /\ shown = [c \in Controllers |-> 0]
  /\ enabled = [c \in Controllers |-> FALSE]
  /\ loading = [c \in Controllers |-> IF c \in Taggers THEN {"documents", "tags"}
                                      ELSE {"documents"}]
  /\ write = [c \in Controllers |-> <<>>]
  /\ tags = [c \in Taggers |-> <<>>]
  /\ tag = [c \in Taggers |-> {}]
  /\ trapped = [c \in Controllers |-> FALSE]
  /\ errors = 0
  /\ yes = [d \in Documents |-> 0]
  /\ no = [d \in Documents |-> 0]
  /\ rated = [c \in Controllers |-> {}]

-----------------------------------------------------------------------------
(* Documents.                                                              *)

Popular(v) == popularity[v] >= 10

\* The order of an answer: by id, under a condition on a field by that field
\* first (the only member).
Answers(c) ==
  LET S == CASE c \in ImageProposals -> Images
             [] c \in VideoProposals -> Videos
             [] c \in Taggers -> {v \in Videos : Popular(v)}
      Before(v, w) == \/ c \in Taggers /\ popularity[v] < popularity[w]
                      \/ v < w /\ (c \in Taggers => popularity[v] = popularity[w])
  IN {s \in [1 .. Cardinality(S) -> S] :
        \A j, k \in DOMAIN s : j < k => Before(s[j], s[k])}

\* Mutant: the buttons come on with the download.
getNext_ButtonsFirst(c, rest, waiting) ==
  /\ list' = [list EXCEPT ![c] = rest]
  /\ loading' = [loading EXCEPT ![c] =
       waiting \union (IF rest # <<>> /\ c \in ImageProposals THEN {"image"} ELSE {})]
  /\ enabled' = [enabled EXCEPT ![c] = rest # <<>>]
  /\ shown' = [shown EXCEPT ![c] = IF rest = <<>> \/ c \in ImageProposals THEN @
                                   ELSE Head(rest).id]
  /\ UNCHANGED trapped

\* getImage and getVideo: an image is downloaded, unless its link is no URL
\* and imageUrl! traps; a video is given to the player at once.
getNext(c, rest, waiting) ==
  /\ list' = [list EXCEPT ![c] = rest]
  /\ \/ /\ rest = <<>>
        /\ loading' = [loading EXCEPT ![c] = waiting]
        /\ UNCHANGED <<enabled, shown, trapped>>
     \/ /\ rest # <<>> /\ c \in ImageProposals
        /\ loading' = [loading EXCEPT ![c] = waiting \union {"image"}]
        /\ UNCHANGED <<enabled, shown, trapped>>
     \/ /\ rest # <<>> /\ c \in ImageProposals
        /\ trapped' = [trapped EXCEPT ![c] = TRUE]
        /\ loading' = [loading EXCEPT ![c] = waiting]
        /\ UNCHANGED <<enabled, shown>>
     \/ /\ rest # <<>> /\ c \notin ImageProposals
        /\ loading' = [loading EXCEPT ![c] = waiting]
        /\ enabled' = [enabled EXCEPT ![c] = TRUE]
        /\ shown' = [shown EXCEPT ![c] = Head(rest).id]
        /\ UNCHANGED trapped

\* Offline with nothing cached there are no documents.
GetDocumentsDone(c) ==
  /\ ~trapped[c] /\ "documents" \in loading[c]
  /\ \E s \in {<<>>} \union Answers(c) :
       getNext(c, [k \in DOMAIN s |-> [id |-> s[k], popularity |-> popularity[s[k]]]],
               loading[c] \ {"documents"})
  /\ UNCHANGED <<popularity, tagged, write, tags, tag, errors, history>>

\* The image on the screen is replaced and the buttons come on.  UIImage(data:)
\* of anything but an image, the page of an HTTP error say, is nil: the screen
\* goes blank, and the buttons come on all the same.
DownloadDone(c) ==
  /\ "image" \in loading[c]
  /\ loading' = [loading EXCEPT ![c] = @ \ {"image"}]
  /\ \E image \in {Head(list[c]).id, 0} : shown' = [shown EXCEPT ![c] = image]
  /\ enabled' = [enabled EXCEPT ![c] = TRUE]
  /\ UNCHANGED <<popularity, tagged, list, write, tags, tag, trapped, errors,
                 history>>

\* A query, a download or a write fails; the buttons stay off.
Failed(c) ==
  /\ ~trapped[c]
  /\ errors < MaxErrors
  /\ errors' = errors + 1
  /\ \E what \in loading[c] :
       /\ loading' = [loading EXCEPT ![c] = @ \ {what}]
       /\ write' = IF what = "write" THEN [write EXCEPT ![c] = <<>>] ELSE write
  /\ UNCHANGED <<popularity, tagged, list, shown, enabled, tags, tag, trapped,
                 history>>

-----------------------------------------------------------------------------
(* Proposals.                                                              *)

\* nextImage and nextVideo of a proposal.
Rate(c, popularityChange) ==
  LET first == Head(list[c]) IN
  /\ enabled[c] /\ c \notin Taggers
  /\ enabled' = [enabled EXCEPT ![c] = FALSE]
  /\ loading' = [loading EXCEPT ![c] = @ \union {"write"}]
  /\ write' = [write EXCEPT ![c] =
       <<[id |-> first.id, popularity |-> first.popularity + popularityChange]>>]
  /\ rated' = [rated EXCEPT ![c] = @ \union {first.id}]
  /\ UNCHANGED <<popularity, tagged, list, shown, tags, tag, trapped, errors>>

onYes(c) ==
  /\ Rate(c, 1)
  /\ yes' = [yes EXCEPT ![Head(list[c]).id] = @ + 1]
  /\ UNCHANGED no

\* Mutant: the sign is forgotten.
onNo_Plus(c) ==
  /\ Rate(c, 1)
  /\ no' = [no EXCEPT ![Head(list[c]).id] = @ + 1]
  /\ UNCHANGED yes

onNo(c) ==
  /\ Rate(c, -1)
  /\ no' = [no EXCEPT ![Head(list[c]).id] = @ + 1]
  /\ UNCHANGED yes

-----------------------------------------------------------------------------
(* The tagger.                                                             *)

\* The tags arrive, unless the document does not exist; tags[0] of none traps.
GetTagsDone(c) ==
  /\ ~trapped[c] /\ "tags" \in loading[c]
  /\ loading' = [loading EXCEPT ![c] = @ \ {"tags"}]
  /\ \/ UNCHANGED <<tags, tag, trapped>>
     \/ /\ Tags # <<>>
        /\ tags' = [tags EXCEPT ![c] = Tags]
        /\ tag' = [tag EXCEPT ![c] = {Tags[1]}]
        /\ UNCHANGED trapped
     \/ /\ trapped' = [trapped EXCEPT ![c] = TRUE]
        /\ UNCHANGED <<tags, tag>>
  /\ UNCHANGED <<popularity, tagged, list, shown, enabled, write, errors, history>>

\* Mutant: the row is taken for the tag.
didSelectRow_Row(c, row) ==
  /\ ~trapped[c]
  /\ row \in DOMAIN tags[c]
  /\ tag' = [tag EXCEPT ![c] = {row}]
  /\ UNCHANGED <<popularity, tagged, list, shown, enabled, loading, write, tags,
                 trapped, errors, history>>

didSelectRow(c, row) ==
  /\ ~trapped[c]
  /\ row \in DOMAIN tags[c]
  /\ tag' = [tag EXCEPT ![c] = {tags[c][row]}]
  /\ UNCHANGED <<popularity, tagged, list, shown, enabled, loading, write, tags,
                 trapped, errors, history>>

\* nextVideo of the tagger: before the tags have arrived tag["Name"]! is nil.
\* The field read is not the field written: the value is always 1.
onDone(c) ==
  /\ ~trapped[c] /\ enabled[c]
  /\ enabled' = [enabled EXCEPT ![c] = FALSE]
  /\ \/ /\ tag[c] = {}
        /\ trapped' = [trapped EXCEPT ![c] = TRUE]
        /\ UNCHANGED <<loading, write, rated>>
     \/ /\ tag[c] # {}
        /\ loading' = [loading EXCEPT ![c] = @ \union {"write"}]
        /\ write' = [write EXCEPT ![c] =
                       <<[id |-> Head(list[c]).id, tags |-> tag[c]]>>]
        /\ rated' = [rated EXCEPT ![c] = @ \union {Head(list[c]).id}]
        /\ UNCHANGED trapped
  /\ UNCHANGED <<popularity, tagged, list, shown, tags, tag, errors, yes, no>>

-----------------------------------------------------------------------------
\* The server takes the write; the first document is removed and the next
\* one is shown.
WriteDone(c) ==
  /\ write[c] # <<>>
  /\ LET w == write[c][1] IN
     \/ /\ c \notin Taggers
        /\ popularity' = [popularity EXCEPT ![w.id] = w.popularity]
        /\ UNCHANGED tagged
     \/ /\ c \in Taggers
        /\ tagged' = [tagged EXCEPT ![w.id] = @ \union w.tags]
        /\ UNCHANGED popularity
  /\ write' = [write EXCEPT ![c] = <<>>]
  /\ getNext(c, Tail(list[c]), loading[c] \ {"write"})
  /\ UNCHANGED <<tags, tag, errors, history>>

Next ==
  \E c \in Controllers :
    \/ GetDocumentsDone(c)
    \/ DownloadDone(c)
    \/ Failed(c)
    \/ onYes(c)
    \/ onNo(c)
    \/ WriteDone(c)
    \/ /\ c \in Taggers
       /\ \/ GetTagsDone(c)
          \/ \E row \in DOMAIN tags[c] : didSelectRow(c, row)
          \/ onDone(c)

Spec == Init /\ [][Next]_vars

-----------------------------------------------------------------------------
TypeOK ==
  /\ popularity \in [Documents -> Int]
  /\ tagged \in [Videos -> SUBSET Range(Tags)]
  /\ list \in [Controllers -> Seq(Snapshots)]
  /\ shown \in [Controllers -> Documents \union {0}]
  /\ enabled \in [Controllers -> BOOLEAN]
  /\ loading \in [Controllers -> SUBSET {"documents", "tags", "image", "write"}]
  /\ write \in [Controllers -> Seq(Writes)]
  /\ \A c \in Controllers : (write[c] # <<>>) <=> "write" \in loading[c]
  /\ tags \in [Taggers -> {<<>>, Tags}]
  /\ tag \in [Taggers -> SUBSET Range(Tags)]
  /\ trapped \in [Controllers -> BOOLEAN]
  /\ errors \in 0 .. MaxErrors
  /\ yes \in [Documents -> Nat] /\ no \in [Documents -> Nat]
  /\ rated \in [Controllers -> SUBSET Documents]

\* A button never rates or tags another document than the one on the screen,
\* nor one the controller has rated before, although the image before stays on
\* the screen while the next one is downloaded.  It may rate a document that is
\* not there to be seen: an image whose download was no image leaves the screen
\* blank with the buttons on (nextImage, downloadImage, nextVideo).
NeverRatesAnother ==
  \A c \in Controllers : enabled[c] =>
    /\ list[c] # <<>> /\ Head(list[c]).id \notin rated[c]
    /\ shown[c] \in {Head(list[c]).id} \union (IF c \in ImageProposals THEN {0} ELSE {})
    /\ loading[c] \subseteq {"tags"}

\* Ratings from snapshots of any age may lose each other, but the popularity
\* never goes beyond what they add up to, and a tag is only on a video that
\* enough of them have made popular (nextImage, nextVideo, whereField).
PopularityComesFromRatings ==
  /\ \A d \in Documents : popularity[d] \in Popularity0[d] - no[d]
                                            .. Popularity0[d] + yes[d]
  /\ \A v \in Videos : tagged[v] # {} => Popularity0[v] + yes[v] >= 10
=============================================================================
