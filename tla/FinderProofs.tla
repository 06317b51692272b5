---------------------------- MODULE FinderProofs ----------------------------
(***************************************************************************)
(* Proofs about Finder, for any pages, videos and bounds.                  *)
(***************************************************************************)
EXTENDS Finder, SequenceTheorems, FiniteSetTheorems, TLAPS

-----------------------------------------------------------------------------
(* The sum of durationInSeconds over at most three numbers and units.      *)

Term(v, k) == listTime(v)[2 * k - 1] * timeValueInSeconds[listTime(v)[2 * k]]

FoldOf(v, S, h) ==
  h = [s \in SUBSET S |->
         IF s = {} THEN 0 ELSE LET x == CHOOSE y \in s : TRUE IN Term(v, x) + h[s \ {x}]]

\* A sum over one to three parts.
LEMMA SumOfParts ==
  ASSUME NEW v, NEW n \in 1 .. 3, \A k \in 1 .. n : Term(v, k) \in Int
  PROVE  (CHOOSE h : FoldOf(v, 1 .. n, h))[1 .. n]
           = Term(v, 1) + (IF n >= 2 THEN Term(v, 2) ELSE 0) + (IF n = 3 THEN Term(v, 3) ELSE 0)
<1> DEFINE S == 1 .. n
           g == [s \in SUBSET S |-> (IF 1 \in s THEN Term(v, 1) ELSE 0)
                                      + (IF 2 \in s THEN Term(v, 2) ELSE 0)
                                      + (IF 3 \in s THEN Term(v, 3) ELSE 0)]
<1>1. FoldOf(v, S, g)
  <2>1. g[{}] = 0
    OBVIOUS
  <2>2. ASSUME NEW s \in SUBSET S, NEW x \in s PROVE g[s] = Term(v, x) + g[s \ {x}]
    <3>1. s \ {x} \in SUBSET S /\ x \in {1, 2, 3}
      OBVIOUS
    <3>2. /\ 1 \in s => Term(v, 1) \in Int
          /\ 2 \in s => Term(v, 2) \in Int
          /\ 3 \in s => Term(v, 3) \in Int
      OBVIOUS
    <3>3. CASE x = 1
      BY <3>1, <3>2, <3>3
    <3>4. CASE x = 2
      BY <3>1, <3>2, <3>4
    <3>5. CASE x = 3
      BY <3>1, <3>2, <3>5
    <3> QED BY <3>1, <3>3, <3>4, <3>5
  <2>3. DOMAIN g = SUBSET S /\ g = [s \in SUBSET S |-> g[s]]
    OBVIOUS
  <2> HIDE DEF g
  <2>4. ASSUME NEW s \in SUBSET S, s # {}
        PROVE  g[s] = LET x == CHOOSE y \in s : TRUE IN Term(v, x) + g[s \ {x}]
    BY <2>2, <2>4
  <2> QED BY <2>1, <2>3, <2>4 DEF FoldOf
<1>2. PICK h : h = (CHOOSE k : FoldOf(v, S, k)) /\ FoldOf(v, S, h)
  BY <1>1
<1>3. h[{}] = 0 /\ \A s \in SUBSET S : s # {} => \E x \in s : h[s] = Term(v, x) + h[s \ {x}]
  BY <1>2 DEF FoldOf
<1>4. \A a \in S : h[{a}] = Term(v, a)
  <2> TAKE a \in S
  <2>1. {a} \in SUBSET S /\ {a} # {} /\ {a} \ {a} = {} /\ Term(v, a) \in Int
    OBVIOUS
  <2> HIDE DEF S, g
  <2>2. PICK x \in {a} : h[{a}] = Term(v, x) + h[{a} \ {x}]
    BY <1>3, <2>1
  <2>3. h[{a}] = Term(v, a) + 0
    BY <1>3, <2>1, <2>2
  <2> QED BY <2>1, <2>3
<1>5. \A a, b \in S : a # b => h[{a, b}] = Term(v, a) + Term(v, b)
  <2> SUFFICES ASSUME NEW a \in S, NEW b \in S, a # b PROVE h[{a, b}] = Term(v, a) + Term(v, b)
    OBVIOUS
  <2>1. {a, b} \in SUBSET S /\ {a, b} \ {a} = {b} /\ {a, b} \ {b} = {a}
        /\ {a, b} # {} /\ Term(v, a) \in Int /\ Term(v, b) \in Int
    OBVIOUS
  <2> HIDE DEF S, g
  <2>2. PICK x \in {a, b} : h[{a, b}] = Term(v, x) + h[{a, b} \ {x}]
    BY <1>3, <2>1
  <2>3. h[{a}] = Term(v, a) /\ h[{b}] = Term(v, b)
    BY <1>4
  <2>4. x = a => h[{a, b}] = Term(v, a) + Term(v, b)
    BY <2>1, <2>2, <2>3
  <2>5. x = b => h[{a, b}] = Term(v, b) + Term(v, a)
    BY <2>1, <2>2, <2>3
  <2> QED BY <2>1, <2>4, <2>5
<1>6. CASE n = 1
  <2>1. S = {1}
    BY <1>6
  <2> QED BY <1>2, <1>4, <1>6, <2>1
<1>7. CASE n = 2
  <2>1. S = {1, 2}
    BY <1>7
  <2> QED BY <1>2, <1>5, <1>7, <2>1
<1>8. CASE n = 3
  <2>1. S = {1, 2, 3} /\ S \ {1} = {2, 3} /\ S \ {2} = {1, 3} /\ S \ {3} = {1, 2}
    BY <1>8
  <2>2. Term(v, 1) \in Int /\ Term(v, 2) \in Int /\ Term(v, 3) \in Int
    BY <1>8
  <2>3. PICK x \in S : h[S] = Term(v, x) + h[S \ {x}]
    BY <1>3, <2>1
  <2>4. PICK a \in S, b \in S :
          /\ a # b /\ S \ {x} = {a, b}
          /\ Term(v, x) + (Term(v, a) + Term(v, b)) = Term(v, 1) + Term(v, 2) + Term(v, 3)
    <3>1. CASE x = 1
      <4> WITNESS 2 \in S, 3 \in S
      <4> QED BY <2>1, <2>2, <3>1
    <3>2. CASE x = 2
      <4> WITNESS 1 \in S, 3 \in S
      <4> QED BY <2>1, <2>2, <3>2
    <3>3. CASE x = 3
      <4> WITNESS 1 \in S, 2 \in S
      <4> QED BY <2>1, <2>2, <3>3
    <3> QED BY <2>1, <3>1, <3>2, <3>3
  <2> HIDE DEF S, g
  <2>5. h[{a, b}] = Term(v, a) + Term(v, b)
    BY <1>5, <2>4
  <2>6. h[S] = Term(v, 1) + Term(v, 2) + Term(v, 3)
    BY <2>3, <2>4, <2>5
  <2> QED BY <1>2, <1>8, <2>6 DEF S
<1> QED BY <1>6, <1>7, <1>8

-----------------------------------------------------------------------------
(* The pairs of a duration.                                                *)

LEMMA TwoPairs ==
  ASSUME NEW S, NEW a \in S, NEW b \in S, NEW c \in S, NEW d \in S
  PROVE  <<a, b>> \o <<c, d>> = <<a, b, c, d>>
<1> DEFINE s == <<a, b>>
           t == <<c, d>>
           u == <<a, b, c, d>>
<1>1. /\ s \in Seq(S) /\ Len(s) = 2 /\ t \in Seq(S) /\ Len(t) = 2
      /\ u \in Seq(S) /\ Len(u) = 4
  OBVIOUS
<1>2. s \o t \in Seq(S) /\ Len(s \o t) = 4
  BY <1>1
<1>3. (s \o t)[1] = a /\ (s \o t)[2] = b /\ (s \o t)[3] = c /\ (s \o t)[4] = d
  BY <1>1
<1>4. u[1] = a /\ u[2] = b /\ u[3] = c /\ u[4] = d
  OBVIOUS
<1> HIDE DEF s, t, u
<1>5. \A i \in 1 .. 4 : (s \o t)[i] = u[i]
  <2> TAKE i \in 1 .. 4
  <2>1. i = 1 \/ i = 2 \/ i = 3 \/ i = 4
    OBVIOUS
  <2> QED BY <1>3, <1>4, <2>1
<1>6. s \o t = u
  <2>1. Len(s \o t) = Len(u) /\ \A i \in 1 .. Len(s \o t) : (s \o t)[i] = u[i]
    BY <1>1, <1>2, <1>5
  <2> QED BY <1>1, <1>2, <2>1, SeqEqual
<1> QED BY <1>6 DEF s, t, u

LEMMA ThreePairs ==
  ASSUME NEW S, NEW a \in S, NEW b \in S, NEW c \in S, NEW d \in S, NEW e \in S, NEW f \in S
  PROVE  <<a, b, c, d>> \o <<e, f>> = <<a, b, c, d, e, f>>
<1> DEFINE s == <<a, b, c, d>>
           t == <<e, f>>
           u == <<a, b, c, d, e, f>>
<1>1. /\ s \in Seq(S) /\ Len(s) = 4 /\ t \in Seq(S) /\ Len(t) = 2
      /\ u \in Seq(S) /\ Len(u) = 6
  OBVIOUS
<1>2. s \o t \in Seq(S) /\ Len(s \o t) = 6
  BY <1>1
<1>3. /\ (s \o t)[1] = a /\ (s \o t)[2] = b /\ (s \o t)[3] = c /\ (s \o t)[4] = d
      /\ (s \o t)[5] = e /\ (s \o t)[6] = f
  BY <1>1
<1>4. u[1] = a /\ u[2] = b /\ u[3] = c /\ u[4] = d /\ u[5] = e /\ u[6] = f
  OBVIOUS
<1> HIDE DEF s, t, u
<1>5. \A i \in 1 .. 6 : (s \o t)[i] = u[i]
  <2> TAKE i \in 1 .. 6
  <2>1. i = 1 \/ i = 2 \/ i = 3 \/ i = 4 \/ i = 5 \/ i = 6
    OBVIOUS
  <2> QED BY <1>3, <1>4, <2>1
<1>6. s \o t = u
  <2>1. Len(s \o t) = Len(u) /\ \A i \in 1 .. Len(s \o t) : (s \o t)[i] = u[i]
    BY <1>1, <1>2, <1>5
  <2> QED BY <1>1, <1>2, <2>1, SeqEqual
<1> QED BY <1>6 DEF s, t, u

LEMMA NoPairs == ASSUME NEW S, NEW s \in Seq(S) PROVE <<>> \o s = s /\ s \o <<>> = s
OBVIOUS

LEMMA OneBefore == ASSUME NEW S, NEW a \in S, NEW s \in Seq(S) PROVE Tail(<<a>> \o s) = s
OBVIOUS

LEMMA ThreeBefore ==
  ASSUME NEW S, NEW a \in S, NEW b \in S, NEW c \in S, NEW s \in Seq(S)
  PROVE  LET t == Tail(<<a, b, c>> \o s) IN Len(t) >= 2 /\ t[2] = c /\ t \in Seq(S)
OBVIOUS

Part(n, unit) == IF n = 0 THEN <<>> ELSE <<n, unit>>

\* A list of three parts without its zero parts.
TimeCases(l, a, H, b, M, c, S) ==
  /\ a = 0 /\ b = 0 /\ c = 0 => l = <<>>
  /\ a = 0 /\ b = 0 /\ c # 0 => l = <<c, S>>
  /\ a = 0 /\ b # 0 /\ c = 0 => l = <<b, M>>
  /\ a = 0 /\ b # 0 /\ c # 0 => l = <<b, M, c, S>>
  /\ a # 0 /\ b = 0 /\ c = 0 => l = <<a, H>>
  /\ a # 0 /\ b = 0 /\ c # 0 => l = <<a, H, c, S>>
  /\ a # 0 /\ b # 0 /\ c = 0 => l = <<a, H, b, M>>
  /\ a # 0 /\ b # 0 /\ c # 0 => l = <<a, H, b, M, c, S>>

LEMMA TimeIs ==
  ASSUME NEW T, NEW a \in T, NEW b \in T, NEW c \in T, NEW H \in T, NEW M \in T, NEW S \in T,
         NEW l, l = Part(a, H) \o Part(b, M) \o Part(c, S)
  PROVE  TimeCases(l, a, H, b, M, c, S)
<1>0. <<a, H>> \in Seq(T) /\ <<b, M>> \in Seq(T) /\ <<c, S>> \in Seq(T)
      /\ <<>> \in Seq(T) /\ <<a, H, b, M>> \in Seq(T)
  OBVIOUS
<1>1. /\ <<a, H>> \o <<b, M>> = <<a, H, b, M>> /\ <<a, H>> \o <<c, S>> = <<a, H, c, S>>
      /\ <<b, M>> \o <<c, S>> = <<b, M, c, S>>
      /\ <<a, H, b, M>> \o <<c, S>> = <<a, H, b, M, c, S>>
  BY TwoPairs, ThreePairs
<1>2. /\ <<>> \o <<>> = <<>>
      /\ <<>> \o <<b, M>> = <<b, M>> /\ <<>> \o <<c, S>> = <<c, S>>
      /\ <<a, H>> \o <<>> = <<a, H>> /\ <<b, M>> \o <<>> = <<b, M>>
      /\ <<a, H, b, M>> \o <<>> = <<a, H, b, M>>
  BY <1>0, NoPairs
<1>3. /\ Part(a, H) = IF a = 0 THEN <<>> ELSE <<a, H>>
      /\ Part(b, M) = IF b = 0 THEN <<>> ELSE <<b, M>>
      /\ Part(c, S) = IF c = 0 THEN <<>> ELSE <<c, S>>
  BY DEF Part
<1> QED BY <1>1, <1>2, <1>3, Zenon DEF TimeCases

-----------------------------------------------------------------------------
(* What durationInSeconds makes of a duration in ISO 8601.                 *)

Tokens == Nat \union {"P", "PT", "D", "DT", "H", "M", "S"}

LEMMA ISO8601Parts ==
  ASSUME NEW t
  PROVE  ISO8601(t) =
           LET time == Part(t.hours, "H") \o Part(t.minutes, "M") \o Part(t.seconds, "S")
           IN  IF time = <<>> THEN <<"P", t.days, "D">>
               ELSE IF t.days = 0 THEN <<"PT">> \o time
               ELSE <<"P", t.days, "DT">> \o time
BY DEF ISO8601, Part

LEMMA KnownUnits ==
  ASSUME NEW v \in Videos, NEW t, t = Length[v], UnitsKnown(v)
  PROVE  /\ t.days = 0
         /\ listTime(v) = Part(t.hours, "H") \o Part(t.minutes, "M") \o Part(t.seconds, "S")
         /\ listTime(v) # <<>>
<1>1. t \in Times
  BY FinderAssumption
<1>2. t.days \in Tokens /\ t.hours \in Tokens /\ t.minutes \in Tokens /\ t.seconds \in Tokens
      /\ "H" \in Tokens /\ "M" \in Tokens /\ "S" \in Tokens
      /\ "P" \in Tokens /\ "PT" \in Tokens /\ "DT" \in Tokens
  BY <1>1 DEF Times, Tokens
<1> DEFINE time == Part(t.hours, "H") \o Part(t.minutes, "M") \o Part(t.seconds, "S")
<1>3. time \in Seq(Tokens)
  <2>1. ASSUME NEW n \in Tokens, NEW unit \in Tokens PROVE Part(n, unit) \in Seq(Tokens)
    BY DEF Part
  <2>2. PICK A \in Seq(Tokens), B \in Seq(Tokens), C \in Seq(Tokens) :
          A = Part(t.hours, "H") /\ B = Part(t.minutes, "M") /\ C = Part(t.seconds, "S")
    BY <1>2, <2>1
  <2>3. A \o B \o C \in Seq(Tokens)
    OBVIOUS
  <2> QED BY <2>2, <2>3
<1>4. ISO8601(t) = IF time = <<>> THEN <<"P", t.days, "D">>
                   ELSE IF t.days = 0 THEN <<"PT">> \o time
                   ELSE <<"P", t.days, "DT">> \o time
  BY ISO8601Parts
<1> HIDE DEF time
<1>5. listTime(v) = Tail(ISO8601(t))
  BY DEF listTime
<1>6. DOMAIN timeValueInSeconds = {"H", "M", "S"}
  BY DEF timeValueInSeconds
<1>7. ~(Len(listTime(v)) >= 2 /\ listTime(v)[2] \in {"D", "DT"})
  <2> SUFFICES ASSUME Len(listTime(v)) >= 2, listTime(v)[2] \in {"D", "DT"} PROVE FALSE
    OBVIOUS
  <2>1. listTime(v)[2] \in DOMAIN timeValueInSeconds
    BY DEF UnitsKnown
  <2> QED BY <1>6, <2>1
<1>8. time # <<>>
  <2> SUFFICES ASSUME time = <<>> PROVE FALSE
    OBVIOUS
  <2>1. listTime(v) = Tail(<<"P", t.days, "D">>)
    BY <1>4, <1>5
  <2> QED BY <1>7, <2>1
<1>9. t.days = 0
  <2> SUFFICES ASSUME t.days # 0 PROVE FALSE
    OBVIOUS
  <2>1. listTime(v) = Tail(<<"P", t.days, "DT">> \o time)
    BY <1>4, <1>5, <1>8
  <2>2. Len(listTime(v)) >= 2 /\ listTime(v)[2] = "DT"
    BY <1>2, <1>3, <2>1, ThreeBefore
  <2> QED BY <1>7, <2>2
<1>10. listTime(v) = time
  BY <1>2, <1>3, <1>4, <1>5, <1>8, <1>9, OneBefore
<1> QED BY <1>8, <1>9, <1>10 DEF time

\* The sum a list of one to three numbers and units comes to.
LEMMA DurationOfParts ==
  ASSUME NEW v, NEW n \in 1 .. 3, n = Len(listTime(v)) \div 2,
         \A k \in 1 .. n : Term(v, k) \in Int
  PROVE  durationInSeconds(v) = Term(v, 1) + (IF n >= 2 THEN Term(v, 2) ELSE 0)
                                           + (IF n = 3 THEN Term(v, 3) ELSE 0)
<1>1. durationInSeconds(v) = (CHOOSE h : FoldOf(v, 1 .. n, h))[1 .. n]
  BY DEF durationInSeconds, MapThenSumSet, MapThenFoldSet, FoldOf, Term
<1> QED BY <1>1, SumOfParts

LEMMA DurationOfOne ==
  ASSUME NEW v, Len(listTime(v)) \div 2 = 1, Term(v, 1) \in Int
  PROVE  durationInSeconds(v) = Term(v, 1)
<1>1. \A k \in 1 .. 1 : Term(v, k) \in Int
  OBVIOUS
<1>2. durationInSeconds(v) = Term(v, 1) + (IF 1 >= 2 THEN Term(v, 2) ELSE 0)
                                        + (IF 1 = 3 THEN Term(v, 3) ELSE 0)
  BY <1>1, DurationOfParts
<1> QED BY <1>2

LEMMA DurationOfTwo ==
  ASSUME NEW v, Len(listTime(v)) \div 2 = 2, Term(v, 1) \in Int, Term(v, 2) \in Int
  PROVE  durationInSeconds(v) = Term(v, 1) + Term(v, 2)
<1>1. \A k \in 1 .. 2 : Term(v, k) \in Int
  OBVIOUS
<1>2. durationInSeconds(v) = Term(v, 1) + (IF 2 >= 2 THEN Term(v, 2) ELSE 0)
                                        + (IF 2 = 3 THEN Term(v, 3) ELSE 0)
  BY <1>1, DurationOfParts
<1> QED BY <1>2

LEMMA DurationOfThree ==
  ASSUME NEW v, Len(listTime(v)) \div 2 = 3, Term(v, 1) \in Int, Term(v, 2) \in Int,
         Term(v, 3) \in Int
  PROVE  durationInSeconds(v) = Term(v, 1) + Term(v, 2) + Term(v, 3)
<1>1. \A k \in 1 .. 3 : Term(v, k) \in Int
  OBVIOUS
<1>2. durationInSeconds(v) = Term(v, 1) + (IF 3 >= 2 THEN Term(v, 2) ELSE 0)
                                        + (IF 3 = 3 THEN Term(v, 3) ELSE 0)
  BY <1>1, DurationOfParts
<1> QED BY <1>2

LEMMA OnePart ==
  ASSUME NEW v, NEW a \in Nat, NEW A, NEW x \in Nat, timeValueInSeconds[A] = x,
         listTime(v) = <<a, A>>
  PROVE  durationInSeconds(v) = x * a
<1>1. Len(listTime(v)) \div 2 = 1 /\ listTime(v)[1] = a /\ listTime(v)[2] = A
  OBVIOUS
<1>2. Term(v, 1) = a * x
  BY <1>1 DEF Term
<1>3. durationInSeconds(v) = Term(v, 1)
  <2>1. Term(v, 1) \in Int
    BY <1>2
  <2> QED BY <1>1, <2>1, DurationOfOne, Zenon
<1> QED BY <1>2, <1>3

TwoOf(v, a, A, x, b, B, y) ==
  /\ a \in Nat /\ x \in Nat /\ timeValueInSeconds[A] = x
  /\ b \in Nat /\ y \in Nat /\ timeValueInSeconds[B] = y
  /\ listTime(v) = <<a, A, b, B>>

LEMMA TwoParts ==
  ASSUME NEW v, NEW a, NEW A, NEW x, NEW b, NEW B, NEW y, TwoOf(v, a, A, x, b, B, y)
  PROVE  durationInSeconds(v) = x * a + y * b
<1> USE DEF TwoOf
<1>1. /\ Len(listTime(v)) \div 2 = 2 /\ listTime(v)[1] = a /\ listTime(v)[2] = A
      /\ listTime(v)[3] = b /\ listTime(v)[4] = B
  OBVIOUS
<1>2. Term(v, 1) = a * x /\ Term(v, 2) = b * y
  BY <1>1 DEF Term
<1>3. Term(v, 1) \in Int /\ Term(v, 2) \in Int
  BY <1>2
<1>4. durationInSeconds(v) = Term(v, 1) + Term(v, 2)
  BY <1>1, <1>3, DurationOfTwo, Zenon
<1> QED BY <1>2, <1>4

ThreeOf(v, a, A, x, b, B, y, c, C, z) ==
  /\ a \in Nat /\ x \in Nat /\ timeValueInSeconds[A] = x
  /\ b \in Nat /\ y \in Nat /\ timeValueInSeconds[B] = y
  /\ c \in Nat /\ z \in Nat /\ timeValueInSeconds[C] = z
  /\ listTime(v) = <<a, A, b, B, c, C>>

LEMMA ThreeParts ==
  ASSUME NEW v, NEW a, NEW A, NEW x, NEW b, NEW B, NEW y, NEW c, NEW C, NEW z,
         ThreeOf(v, a, A, x, b, B, y, c, C, z)
  PROVE  durationInSeconds(v) = x * a + y * b + z * c
<1> USE DEF ThreeOf
<1>1. /\ Len(listTime(v)) \div 2 = 3 /\ listTime(v)[1] = a /\ listTime(v)[2] = A
      /\ listTime(v)[3] = b /\ listTime(v)[4] = B
      /\ listTime(v)[5] = c /\ listTime(v)[6] = C
  OBVIOUS
<1>2. Term(v, 1) = a * x /\ Term(v, 2) = b * y /\ Term(v, 3) = c * z
  BY <1>1 DEF Term
<1>3. Term(v, 1) \in Int /\ Term(v, 2) \in Int /\ Term(v, 3) \in Int
  BY <1>2
<1>4. durationInSeconds(v) = Term(v, 1) + Term(v, 2) + Term(v, 3)
  BY <1>1, <1>3, DurationOfThree, Zenon
<1> QED BY <1>2, <1>4

\* The duration the script computes is the one the video has.
LEMMA Duration ==
  ASSUME NEW v \in Videos, NEW t, t = Length[v], UnitsKnown(v)
  PROVE  /\ t.days = 0 /\ durationInSeconds(v) \in Nat
         /\ durationInSeconds(v) = 3600 * t.hours + 60 * t.minutes + t.seconds
<1>1. t.hours \in Nat /\ t.minutes \in Nat /\ t.seconds \in Nat
  <2>1. t \in Times
    BY FinderAssumption
  <2> QED BY <2>1 DEF Times
<1>2. PICK a \in Nat, b \in Nat, c \in Nat : a = t.hours /\ b = t.minutes /\ c = t.seconds
  BY <1>1
<1>3. PICK H \in Tokens, M \in Tokens, S \in Tokens : H = "H" /\ M = "M" /\ S = "S"
  BY DEF Tokens
<1>4. /\ t.days = 0 /\ listTime(v) # <<>>
      /\ listTime(v) = Part(a, H) \o Part(b, M) \o Part(c, S)
  BY <1>2, <1>3, KnownUnits
<1>5. a \in Tokens /\ b \in Tokens /\ c \in Tokens
  BY DEF Tokens
<1>6. PICK x \in Nat, y \in Nat, z \in Nat :
        /\ x = 3600 /\ y = 60 /\ z = 1
        /\ timeValueInSeconds[H] = x /\ timeValueInSeconds[M] = y
        /\ timeValueInSeconds[S] = z
  BY <1>3 DEF timeValueInSeconds
<1>7. PICK l : l = listTime(v)
  OBVIOUS
<1>8. l = Part(a, H) \o Part(b, M) \o Part(c, S)
  BY <1>4, <1>7
<1>9. TimeCases(l, a, H, b, M, c, S)
  BY <1>3, <1>5, <1>8, TimeIs
<1>10. durationInSeconds(v) = x * a + y * b + z * c
  <2>1. CASE a = 0 /\ b = 0 /\ c = 0
    <3>1. l = <<>>
      BY <1>9, <2>1, Zenon DEF TimeCases
    <3> QED BY <1>4, <1>7, <3>1, Zenon
  <2>2. CASE a = 0 /\ b = 0 /\ c # 0
    <3>1. l = <<c, S>>
      BY <1>9, <2>2, Zenon DEF TimeCases
    <3>2. listTime(v) = <<c, S>>
      BY <1>7, <3>1
    <3>3. durationInSeconds(v) = z * c
      BY <1>6, <3>2, OnePart
    <3> QED BY <2>2, <3>3
  <2>3. CASE a = 0 /\ b # 0 /\ c = 0
    <3>1. l = <<b, M>>
      BY <1>9, <2>3, Zenon DEF TimeCases
    <3>2. listTime(v) = <<b, M>>
      BY <1>7, <3>1
    <3>3. durationInSeconds(v) = y * b
      BY <1>6, <3>2, OnePart
    <3> QED BY <2>3, <3>3
  <2>4. CASE a = 0 /\ b # 0 /\ c # 0
    <3>1. l = <<b, M, c, S>>
      BY <1>9, <2>4, Zenon DEF TimeCases
    <3>2. TwoOf(v, b, M, y, c, S, z)
      BY <1>6, <1>7, <3>1 DEF TwoOf
    <3>3. durationInSeconds(v) = y * b + z * c
      BY <3>2, TwoParts, Zenon
    <3> QED BY <2>4, <3>3
  <2>5. CASE a # 0 /\ b = 0 /\ c = 0
    <3>1. l = <<a, H>>
      BY <1>9, <2>5, Zenon DEF TimeCases
    <3>2. listTime(v) = <<a, H>>
      BY <1>7, <3>1
    <3>3. durationInSeconds(v) = x * a
      BY <1>6, <3>2, OnePart
    <3> QED BY <2>5, <3>3
  <2>6. CASE a # 0 /\ b = 0 /\ c # 0
    <3>1. l = <<a, H, c, S>>
      BY <1>9, <2>6, Zenon DEF TimeCases
    <3>2. TwoOf(v, a, H, x, c, S, z)
      BY <1>6, <1>7, <3>1 DEF TwoOf
    <3>3. durationInSeconds(v) = x * a + z * c
      BY <3>2, TwoParts, Zenon
    <3> QED BY <2>6, <3>3
  <2>7. CASE a # 0 /\ b # 0 /\ c = 0
    <3>1. l = <<a, H, b, M>>
      BY <1>9, <2>7, Zenon DEF TimeCases
    <3>2. TwoOf(v, a, H, x, b, M, y)
      BY <1>6, <1>7, <3>1 DEF TwoOf
    <3>3. durationInSeconds(v) = x * a + y * b
      BY <3>2, TwoParts, Zenon
    <3> QED BY <2>7, <3>3
  <2>8. CASE a # 0 /\ b # 0 /\ c # 0
    <3>1. l = <<a, H, b, M, c, S>>
      BY <1>9, <2>8, Zenon DEF TimeCases
    <3>2. ThreeOf(v, a, H, x, b, M, y, c, S, z)
      BY <1>6, <1>7, <3>1 DEF ThreeOf
    <3>3. durationInSeconds(v) = x * a + y * b + z * c
      BY <3>2, ThreeParts, SMT
    <3> QED BY <2>8, <3>3
  <2> QED BY <2>1, <2>2, <2>3, <2>4, <2>5, <2>6, <2>7, <2>8, Zenon
<1>11. durationInSeconds(v) = 3600 * a + 60 * b + 1 * c
  BY <1>6, <1>10
<1>12. 3600 * a + 60 * b + 1 * c \in Nat /\ 1 * c = c
  OBVIOUS
<1>13. durationInSeconds(v) \in Nat
  BY <1>11, <1>12
<1>14. durationInSeconds(v) = 3600 * t.hours + 60 * t.minutes + t.seconds
  BY <1>2, <1>11, <1>12
<1> QED BY <1>4, <1>13, <1>14

-----------------------------------------------------------------------------
(* The inductive invariant.                                                *)

\* What paths are made of.
Parts == {subject, grade} \union Names \union Videos

InRow == {"videos", "category", "lesson", "video"}
Uploading == {"category", "lesson", "video"}

\* Where the script is on the page, and what it knows of the video it uploads.
PlaceInv ==
  /\ pc = "rows" => categoryNumber <= row - 2 /\ lessonNumber <= row - 1
  /\ pc \in InRow => /\ row <= Len(table)
                     /\ Len(table[row]) = 2
                     /\ previousCategory = category
                     /\ categoryNumber <= row - 1
                     /\ lessonNumber <= row - 1
  /\ pc \in Uploading => /\ items # <<>>
                         /\ UnitsKnown(Head(items))
                         /\ durationInSeconds(Head(items)) <= 600

\* The documents above the one written next are there.
TreeInv ==
  /\ \A p \in DOMAIN docs : p \in Seq(Parts) /\ Len(p) \in 1 .. 5
  /\ pc # "idle" => <<subject>> \in DOMAIN docs
  /\ pc \in {"rows"} \union InRow => <<subject, grade>> \in DOMAIN docs
  /\ pc \in {"lesson", "video"} => categoryRef \in DOMAIN docs
  /\ pc = "video" => lessonRef \in DOMAIN docs

\* While no run has raised, only the lesson being uploaded has no video.
LessonsInv ==
  ~crashed =>
    \A p \in DOMAIN docs :
      docs[p].type = "Lesson" =>
        \/ \E v \in Videos : Append(p, v) \in DOMAIN docs
        \/ pc = "video" /\ p = lessonRef

Short(p) ==
  LET t == Length[Last(p)]
  IN  t.days = 0 /\ t.hours = 0 /\ 60 * t.minutes + t.seconds <= 600

\* What was offered and is short is in the database or still to look at.
OfferedInv ==
  /\ pc = "grade" => answered = {}
  /\ pc \in {"rows", "done"} => \A p \in answered : Short(p) => p \in DOMAIN docs
  /\ pc \in InRow =>
       \A p \in answered :
         Short(p) => \/ p \in DOMAIN docs
                     \/ \E k \in DOMAIN items : p = Append(lessonRef, items[k])

\* The numbers are those of the place the script has come to.
CategoriesBefore(i) == {table[j][2] : j \in 1 .. i - 1}
Above(i) == CategoriesBefore(i) \ {table[i][2]}
Before(i) == {j \in 1 .. i - 1 : table[j][2] = table[i][2]}

NumbersInv ==
  WellFormed(table) =>
    /\ pc = "rows" =>
         /\ IsFiniteSet(CategoriesBefore(row))
         /\ categoryNumber + 1 = Cardinality(CategoriesBefore(row))
         /\ previousCategory = IF row = 1 THEN None ELSE table[row - 1][2]
         /\ lessonNumber = Cardinality({j \in 1 .. row - 1 : table[j][2] = previousCategory})
    /\ pc \in InRow =>
         /\ IsFiniteSet(Above(row))
         /\ categoryNumber = Cardinality(Above(row))
         /\ lessonNumber = Cardinality(Before(row))

IInv ==
  /\ TypeOK /\ PlaceInv
  /\ DocumentsAreATree /\ TreeInv
  /\ OnlyShortVideos /\ LessonsInv /\ OfferedInv
  /\ NumbersFollowThePage /\ NumbersInv

-----------------------------------------------------------------------------
(* Paths and documents.                                                    *)

LEMMA FrontOfPath ==
  ASSUME NEW S, NEW p \in Seq(S), p # <<>>
  PROVE  /\ Front(p) \in Seq(S) /\ Len(Front(p)) = Len(p) - 1
         /\ Last(p) \in S /\ Append(Front(p), Last(p)) = p
<1>1. Len(p) \in Nat \ {0} /\ DOMAIN p = 1 .. Len(p) /\ p[Len(p)] \in S
  BY EmptySeq, LenProperties
<1>2. /\ Front(p) \in Seq(S) /\ Len(Front(p)) = Len(p) - 1
      /\ \A i \in 1 .. Len(p) - 1 : Front(p)[i] = p[i]
  BY <1>1 DEF Front
<1>3. \A i \in 1 .. Len(p) : Append(Front(p), p[Len(p)])[i] = p[i]
  BY <1>1, <1>2
<1>4. Append(Front(p), p[Len(p)]) \in Seq(S) /\ Len(Append(Front(p), p[Len(p)])) = Len(p)
  <2>1. PICK f \in Seq(S), e \in S : f = Front(p) /\ e = p[Len(p)] /\ Len(f) = Len(p) - 1
    BY <1>1, <1>2
  <2>2. Append(f, e) \in Seq(S) /\ Len(Append(f, e)) = Len(f) + 1
    BY AppendProperties
  <2>3. Len(Append(f, e)) = Len(p)
    BY <1>1, <2>1, <2>2
  <2> QED BY <2>1, <2>2, <2>3
<1>5. Append(Front(p), p[Len(p)]) = p
  BY <1>3, <1>4, SeqEqual
<1> QED BY <1>1, <1>2, <1>5 DEF Last

LEMMA FrontOfAppend ==
  ASSUME NEW S, NEW p \in Seq(S), NEW n \in S
  PROVE  /\ Append(p, n) \in Seq(S) /\ Len(Append(p, n)) = Len(p) + 1
         /\ Append(p, n) # <<>> /\ Front(Append(p, n)) = p
<1>1. Append(p, n) \in Seq(S) /\ Len(Append(p, n)) = Len(p) + 1 /\ Len(p) \in Nat
  OBVIOUS
<1>2. Append(p, n) # <<>>
  BY <1>1
<1>3. /\ Front(Append(p, n)) \in Seq(S) /\ Len(Front(Append(p, n))) = Len(p)
  <2>1. /\ Front(Append(p, n)) \in Seq(S)
        /\ Len(Front(Append(p, n))) = Len(Append(p, n)) - 1
    BY <1>1, <1>2, FrontOfPath
  <2> QED BY <1>1, <2>1
<1>4. \A i \in 1 .. Len(p) : Front(Append(p, n))[i] = p[i]
  BY <1>1 DEF Front
<1> QED BY <1>1, <1>2, <1>3, <1>4, SeqEqual

LEMMA AppendOne ==
  ASSUME NEW P, NEW s \in P, NEW g \in P
  PROVE  Append(<<s>>, g) = <<s, g>>
<1> DEFINE p == <<s>>
           q == <<s, g>>
<1>1. p \in Seq(P) /\ Len(p) = 1 /\ q \in Seq(P) /\ Len(q) = 2
  OBVIOUS
<1>2. p[1] = s /\ q[1] = s /\ q[2] = g
  OBVIOUS
<1> HIDE DEF p, q
<1>3. Append(p, g) \in Seq(P) /\ Len(Append(p, g)) = 2 /\ Append(p, g)[2] = g
      /\ \A i \in 1 .. 1 : Append(p, g)[i] = p[i]
  <2>0. p \in Seq(P)
    BY <1>1
  <2>1. /\ Append(p, g) \in Seq(P) /\ Len(Append(p, g)) = Len(p) + 1
        /\ Append(p, g)[Len(p) + 1] = g
        /\ \A i \in 1 .. Len(p) : Append(p, g)[i] = p[i]
    BY <2>0, AppendProperties
  <2> QED BY <1>1, <2>1
<1>4. \A i \in 1 .. 2 : Append(p, g)[i] = q[i]
  <2> TAKE i \in 1 .. 2
  <2>1. i = 1 \/ i = 2
    OBVIOUS
  <2> QED BY <1>2, <1>3, <2>1
<1>5. Append(p, g) = q
  BY <1>1, <1>3, <1>4, SeqEqual
<1> QED BY <1>5 DEF p, q

LEMMA AppendTwo ==
  ASSUME NEW P, NEW s \in P, NEW g \in P, NEW c \in P
  PROVE  Append(<<s, g>>, c) = <<s, g, c>>
<1> DEFINE p == <<s, g>>
           q == <<s, g, c>>
<1>1. p \in Seq(P) /\ Len(p) = 2 /\ q \in Seq(P) /\ Len(q) = 3
  OBVIOUS
<1>2. p[1] = s /\ q[1] = s /\ p[2] = g /\ q[2] = g /\ q[3] = c
  OBVIOUS
<1> HIDE DEF p, q
<1>3. Append(p, c) \in Seq(P) /\ Len(Append(p, c)) = 3 /\ Append(p, c)[3] = c
      /\ \A i \in 1 .. 2 : Append(p, c)[i] = p[i]
  <2>0. p \in Seq(P)
    BY <1>1
  <2>1. /\ Append(p, c) \in Seq(P) /\ Len(Append(p, c)) = Len(p) + 1
        /\ Append(p, c)[Len(p) + 1] = c
        /\ \A i \in 1 .. Len(p) : Append(p, c)[i] = p[i]
    BY <2>0, AppendProperties
  <2> QED BY <1>1, <2>1
<1>4. \A i \in 1 .. 3 : Append(p, c)[i] = q[i]
  <2> TAKE i \in 1 .. 3
  <2>1. i = 1 \/ i = 2 \/ i = 3
    OBVIOUS
  <2> QED BY <1>2, <1>3, <2>1
<1>5. Append(p, c) = q
  BY <1>1, <1>3, <1>4, SeqEqual
<1> QED BY <1>5 DEF p, q

LEMMA AppendThree ==
  ASSUME NEW P, NEW s \in P, NEW g \in P, NEW c \in P, NEW l \in P
  PROVE  Append(<<s, g, c>>, l) = <<s, g, c, l>>
<1> DEFINE p == <<s, g, c>>
           q == <<s, g, c, l>>
<1>1. p \in Seq(P) /\ Len(p) = 3 /\ q \in Seq(P) /\ Len(q) = 4
  OBVIOUS
<1>2. p[1] = s /\ q[1] = s /\ p[2] = g /\ q[2] = g /\ p[3] = c /\ q[3] = c /\ q[4] = l
  OBVIOUS
<1> HIDE DEF p, q
<1>3. Append(p, l) \in Seq(P) /\ Len(Append(p, l)) = 4 /\ Append(p, l)[4] = l
      /\ \A i \in 1 .. 3 : Append(p, l)[i] = p[i]
  <2>0. p \in Seq(P)
    BY <1>1
  <2>1. /\ Append(p, l) \in Seq(P) /\ Len(Append(p, l)) = Len(p) + 1
        /\ Append(p, l)[Len(p) + 1] = l
        /\ \A i \in 1 .. Len(p) : Append(p, l)[i] = p[i]
    BY <2>0, AppendProperties
  <2> QED BY <1>1, <2>1
<1>4. \A i \in 1 .. 4 : Append(p, l)[i] = q[i]
  <2> TAKE i \in 1 .. 4
  <2>1. i = 1 \/ i = 2 \/ i = 3 \/ i = 4
    OBVIOUS
  <2> QED BY <1>2, <1>3, <2>1
<1>5. Append(p, l) = q
  BY <1>1, <1>3, <1>4, SeqEqual
<1> QED BY <1>5 DEF p, q

LEMMA AppendFour ==
  ASSUME NEW P, NEW s \in P, NEW g \in P, NEW c \in P, NEW l \in P, NEW v \in P
  PROVE  Append(<<s, g, c, l>>, v) = <<s, g, c, l, v>>
<1> DEFINE p == <<s, g, c, l>>
           q == <<s, g, c, l, v>>
<1>1. p \in Seq(P) /\ Len(p) = 4 /\ q \in Seq(P) /\ Len(q) = 5
  OBVIOUS
<1>2. /\ p[1] = s /\ q[1] = s /\ p[2] = g /\ q[2] = g /\ p[3] = c /\ q[3] = c
      /\ p[4] = l /\ q[4] = l /\ q[5] = v
  OBVIOUS
<1> HIDE DEF p, q
<1>3. Append(p, v) \in Seq(P) /\ Len(Append(p, v)) = 5 /\ Append(p, v)[5] = v
      /\ \A i \in 1 .. 4 : Append(p, v)[i] = p[i]
  <2>0. p \in Seq(P)
    BY <1>1
  <2>1. /\ Append(p, v) \in Seq(P) /\ Len(Append(p, v)) = Len(p) + 1
        /\ Append(p, v)[Len(p) + 1] = v
        /\ \A i \in 1 .. Len(p) : Append(p, v)[i] = p[i]
    BY <2>0, AppendProperties
  <2> QED BY <1>1, <2>1
<1>4. \A i \in 1 .. 5 : Append(p, v)[i] = q[i]
  <2> TAKE i \in 1 .. 5
  <2>1. i = 1 \/ i = 2 \/ i = 3 \/ i = 4 \/ i = 5
    OBVIOUS
  <2> QED BY <1>2, <1>3, <2>1
<1>5. Append(p, v) = q
  BY <1>1, <1>3, <1>4, SeqEqual
<1> QED BY <1>5 DEF p, q


\* The path above one the script writes to.
LEMMA FrontOfTwo ==
  ASSUME NEW P, NEW s \in P, NEW g \in P
  PROVE  <<s, g>> \in Seq(P) /\ Front(<<s, g>>) = <<s>>
<1>1. <<s, g>> \in Seq(P) /\ <<s>> \in Seq(P)
  OBVIOUS
<1>2. Front(Append(<<s>>, g)) = <<s>>
  BY <1>1, FrontOfAppend
<1> QED BY <1>1, <1>2, AppendOne

LEMMA FrontOfThree ==
  ASSUME NEW P, NEW s \in P, NEW g \in P, NEW c \in P
  PROVE  <<s, g, c>> \in Seq(P) /\ Front(<<s, g, c>>) = <<s, g>>
<1>1. <<s, g>> \in Seq(P) /\ <<s, g, c>> \in Seq(P)
  OBVIOUS
<1>2. Front(Append(<<s, g>>, c)) = <<s, g>>
  BY <1>1, FrontOfAppend
<1> QED BY <1>1, <1>2, AppendTwo

LEMMA FrontOfFour ==
  ASSUME NEW P, NEW s \in P, NEW g \in P, NEW c \in P, NEW l \in P
  PROVE  <<s, g, c, l>> \in Seq(P) /\ Front(<<s, g, c, l>>) = <<s, g, c>>
<1>1. <<s, g, c>> \in Seq(P) /\ <<s, g, c, l>> \in Seq(P)
  OBVIOUS
<1>2. Front(Append(<<s, g, c>>, l)) = <<s, g, c>>
  BY <1>1, FrontOfAppend
<1> QED BY <1>1, <1>2, AppendThree

LEMMA FrontOfFive ==
  ASSUME NEW P, NEW s \in P, NEW g \in P, NEW c \in P, NEW l \in P, NEW v \in P
  PROVE  /\ <<s, g, c, l, v>> \in Seq(P)
         /\ Front(<<s, g, c, l, v>>) = <<s, g, c, l>> /\ Last(<<s, g, c, l, v>>) = v
<1>1. <<s, g, c, l, v>> \in Seq(P) /\ <<s, g, c, l>> \in Seq(P)
  OBVIOUS
<1>2. Front(Append(<<s, g, c, l>>, v)) = <<s, g, c, l>>
  BY <1>1, FrontOfAppend
<1>3. Last(<<s, g, c, l, v>>) = v
  BY DEF Last
<1>4. Append(<<s, g, c, l>>, v) = <<s, g, c, l, v>>
  BY AppendFour
<1>5. Front(<<s, g, c, l, v>>) = <<s, g, c, l>>
  BY <1>2, <1>4, Zenon
<1> QED BY <1>1, <1>3, <1>5

\* What Set does to the documents.
LEMMA SetIs ==
  ASSUME NEW path, NEW value, Set(path, value)
  PROVE  /\ DOMAIN docs' = DOMAIN docs \union {path}
         /\ docs'[path] = value
         /\ \A p \in DOMAIN docs : p # path => docs'[p] = docs[p]
BY DEF Set

\* The parts of the row the script is at.
LEMMA RowParts ==
  ASSUME TypeOK, row <= Len(table), Len(table[row]) = 2
  PROVE  /\ row \in DOMAIN table /\ table \in Seq(Seq(Names)) /\ table[row] \in Seq(Names)
         /\ table[row] \in Range(table)
         /\ lesson \in Names /\ category \in Names
         /\ lesson \in Parts /\ category \in Parts /\ subject \in Parts /\ grade \in Parts
<1>1. table \in Seq(Seq(Names))
  BY FinderAssumption DEF TypeOK
<1>2. row \in DOMAIN table /\ table[row] \in Seq(Names)
  BY <1>1 DEF TypeOK
<1>3. lesson \in Names /\ category \in Names
  BY <1>2 DEF lesson, category
<1>4. table[row] \in Range(table)
  BY <1>2 DEF Range
<1> QED BY <1>1, <1>2, <1>3, <1>4 DEF Parts

LEMMA RowPaths ==
  ASSUME TypeOK, row <= Len(table), Len(table[row]) = 2
  PROVE  /\ categoryRef \in Seq(Parts) /\ Len(categoryRef) = 3
         /\ Front(categoryRef) = <<subject, grade>>
         /\ lessonRef = <<subject, grade, category, lesson>>
         /\ lessonRef \in Seq(Parts) /\ Len(lessonRef) = 4
         /\ Front(lessonRef) = categoryRef
         /\ \A v \in Videos :
              /\ Append(lessonRef, v) = <<subject, grade, category, lesson, v>>
              /\ Append(lessonRef, v) \in Seq(Parts) /\ Len(Append(lessonRef, v)) = 5
              /\ Front(Append(lessonRef, v)) = lessonRef
              /\ Last(Append(lessonRef, v)) = v
<1>1. PICK s \in Parts, g \in Parts, c \in Parts, l \in Parts :
        s = subject /\ g = grade /\ c = category /\ l = lesson
  BY RowParts
<1>2. categoryRef = <<s, g, c>> /\ lessonRef = <<s, g, c, l>>
  BY <1>1, AppendThree DEF categoryRef, lessonRef
<1>3. categoryRef \in Seq(Parts) /\ Len(categoryRef) = 3
      /\ lessonRef \in Seq(Parts) /\ Len(lessonRef) = 4
  BY <1>2
<1>4. Front(categoryRef) = <<s, g>> /\ Front(lessonRef) = categoryRef
  BY <1>2, FrontOfThree, FrontOfFour
<1>5. ASSUME NEW v \in Videos
      PROVE  /\ Append(lessonRef, v) = <<s, g, c, l, v>>
             /\ Append(lessonRef, v) \in Seq(Parts) /\ Len(Append(lessonRef, v)) = 5
             /\ Front(Append(lessonRef, v)) = lessonRef
             /\ Last(Append(lessonRef, v)) = v
  <2>1. v \in Parts
    BY DEF Parts
  <2>2. Append(lessonRef, v) = <<s, g, c, l, v>> /\ <<s, g, c, l, v>> \in Seq(Parts)
    BY <1>2, <2>1, AppendFour, FrontOfFive
  <2>3. Front(<<s, g, c, l, v>>) = <<s, g, c, l>> /\ Last(<<s, g, c, l, v>>) = v
    BY <2>1, FrontOfFive
  <2>4. Len(<<s, g, c, l, v>>) = 5
    OBVIOUS
  <2> QED BY <1>2, <2>2, <2>3, <2>4
<1> QED BY <1>1, <1>2, <1>3, <1>4, <1>5
-----------------------------------------------------------------------------
(* Every step keeps the types and the place on the page.                   *)

LEMMA SetTyped ==
  ASSUME NEW path, NEW value \in Documents, Set(path, value),
         \A p \in DOMAIN docs : docs[p] \in Documents
  PROVE  (\A p \in DOMAIN docs : docs[p] \in Documents)'
<1> SUFFICES ASSUME NEW p \in DOMAIN docs' PROVE docs'[p] \in Documents
  OBVIOUS
<1>1. /\ DOMAIN docs' = DOMAIN docs \union {path} /\ docs'[path] = value
      /\ \A q \in DOMAIN docs : q # path => docs'[q] = docs[q]
  BY SetIs
<1> QED BY <1>1

LEMMA TableLength == ASSUME TypeOK PROVE table \in Seq(Seq(Names)) /\ Len(table) \in Nat
BY FinderAssumption DEF TypeOK

\* The answers of the search are sequences of videos without repetition.
LEMMA AnswersAre ==
  ASSUME NEW found \in Answers
  PROVE  found \in Seq(Videos) /\ IsInjective(found) /\ Range(found) \subseteq Videos
<1>1. PICK n \in 0 .. MaxFound : found \in [1 .. n -> Videos]
  BY DEF Answers
<1>2. IsInjective(found)
  BY DEF Answers
<1>3. n \in Nat
  BY FinderAssumption
<1>4. found \in Seq(Videos)
  BY <1>1, <1>3
<1> QED BY <1>1, <1>2, <1>4 DEF Range

LEMMA TailOfItems ==
  ASSUME items \in Seq(Videos), IsInjective(items), items # <<>>
  PROVE  /\ Tail(items) \in Seq(Videos) /\ IsInjective(Tail(items))
         /\ Head(items) \in Videos
<1>1. /\ Tail(items) \in Seq(Videos) /\ Head(items) \in Videos
      /\ Len(items) \in Nat \ {0} /\ Len(Tail(items)) = Len(items) - 1
      /\ \A i \in 1 .. Len(items) - 1 : Tail(items)[i] = items[i + 1]
  OBVIOUS
<1>2. DOMAIN items = 1 .. Len(items) /\ DOMAIN Tail(items) = 1 .. Len(items) - 1
  BY <1>1
<1>3. ASSUME NEW i \in DOMAIN Tail(items), NEW j \in DOMAIN Tail(items),
             Tail(items)[i] = Tail(items)[j]
      PROVE  i = j
  <2>1. items[i + 1] = items[j + 1] /\ i + 1 \in DOMAIN items /\ j + 1 \in DOMAIN items
    BY <1>1, <1>2, <1>3
  <2>2. i + 1 = j + 1
    BY <2>1 DEF IsInjective
  <2> QED BY <1>1, <1>2, <2>2
<1> QED BY <1>1, <1>3 DEF IsInjective

LEMMA TypeInit == Init => TypeOK /\ PlaceInv
<1> SUFFICES ASSUME Init PROVE TypeOK /\ PlaceInv
  OBVIOUS
<1>1. table \in Seq(Seq(Names))
  BY FinderAssumption DEF Init
<1>2. items \in Seq(Videos) /\ IsInjective(items) /\ DOMAIN docs = {}
  BY DEF Init, IsInjective
<1>3. crashed \in BOOLEAN /\ runs \in Nat
  BY DEF Init
<1> QED BY <1>1, <1>2, <1>3 DEF Init, TypeOK, PlaceInv, Labels, InRow, Uploading

LEMMA TypeNext ==
  ASSUME TypeOK, PlaceInv, [Next]_vars
  PROVE  TypeOK' /\ PlaceInv'
<1>0. table \in Seq(Seq(Names)) /\ Len(table) \in Nat
  BY TableLength
<1>1. CASE Start
  <2>1. [type |-> "Subject"] \in Documents
    BY DEF Documents
  <2>2. (\A p \in DOMAIN docs : docs[p] \in Documents)'
    BY <1>1, <2>1, SetTyped DEF Start, TypeOK
  <2>3. items' \in Seq(Videos) /\ IsInjective(items')
    BY <1>1 DEF Start, IsInjective
  <2> QED BY <1>0, <1>1, <2>2, <2>3 DEF Start, TypeOK, PlaceInv, Labels, InRow, Uploading
<1>2. CASE SetGrade
  <2>1. [type |-> "Grade"] \in Documents
    BY DEF Documents
  <2>2. (\A p \in DOMAIN docs : docs[p] \in Documents)'
    BY <1>2, <2>1, SetTyped DEF SetGrade, TypeOK
  <2> QED BY <1>0, <1>2, <2>2 DEF SetGrade, TypeOK, PlaceInv, Labels, InRow, Uploading
<1>3. CASE NextRow /\ Len(table[row]) = 2
  <2>1. row \in DOMAIN table /\ category \in Names /\ table[row] \in Range(table)
    BY <1>3, RowParts DEF NextRow
  <2>2. /\ categoryNumber' \in Int /\ categoryNumber' >= -1 /\ categoryNumber' <= row - 1
        /\ lessonNumber' \in Nat /\ lessonNumber' <= row - 1
        /\ previousCategory' = category
    BY <1>0, <1>3 DEF NextRow, Numbering, TypeOK, PlaceInv
  <2>3. PICK found \in Answers :
          /\ items' = found
          /\ answered' = answered \union {Append(lessonRef, v) : v \in Range(found)}
    BY <1>3 DEF NextRow
  <2>4. items' \in Seq(Videos) /\ IsInjective(items') /\ Range(found) \subseteq Videos
    BY <2>3, AnswersAre
  <2>5. ASSUME NEW v \in Videos
        PROVE  Append(lessonRef, v) = <<subject, grade, table[row][2], table[row][1], v>>
    BY <1>3, RowPaths DEF NextRow, category, lesson
  <2>6. answered' \subseteq {<<subject, grade, r[2], r[1], v>> :
                               r \in {s \in Range(table) : Len(s) = 2}, v \in Videos}
    <3> DEFINE Offers == {<<subject, grade, r[2], r[1], v>> :
                            r \in {s \in Range(table) : Len(s) = 2}, v \in Videos}
    <3>1. ASSUME NEW v \in Range(found) PROVE Append(lessonRef, v) \in Offers
      BY <1>3, <2>1, <2>4, <2>5
    <3>2. answered \subseteq Offers
      BY DEF TypeOK
    <3> HIDE DEF Offers
    <3>3. answered' \subseteq Offers
      BY <2>3, <3>1, <3>2
    <3> QED BY <3>3 DEF Offers
  <2>7. /\ pc' = "videos" /\ table' = table /\ row' = row /\ docs' = docs /\ runs' = runs
        /\ crashed' = crashed /\ row <= Len(table) /\ row \in 1 .. Len(table) + 1
    BY <1>3 DEF NextRow, TypeOK
  <2>8. TypeOK'
    BY <1>0, <2>1, <2>2, <2>4, <2>6, <2>7 DEF TypeOK, Labels
  <2>9. category' = category
    BY <2>7 DEF category
  <2>10. PlaceInv'
    BY <1>3, <2>2, <2>7, <2>9 DEF PlaceInv, InRow, Uploading
  <2> QED BY <2>8, <2>10
<1>4. CASE NextRow /\ Len(table[row]) # 2
  <2>1. /\ pc' = "raised" /\ crashed' = TRUE
        /\ UNCHANGED <<categoryNumber, lessonNumber, previousCategory, items, answered, table,
                       row, docs, runs>>
    BY <1>4, Zenon DEF NextRow, Raise
  <2>2. crashed' \in BOOLEAN
    BY <2>1
  <2> QED BY <1>0, <2>1, <2>2 DEF TypeOK, PlaceInv, Labels, InRow, Uploading
<1>5. CASE videosListById
  <2>1. items' \in Seq(Videos) /\ IsInjective(items')
    <3>1. items' = items \/ items' = Tail(items)
      BY <1>5 DEF videosListById
    <3>2. items \in Seq(Videos) /\ IsInjective(items) /\ items # <<>>
      BY <1>5 DEF videosListById, TypeOK
    <3> QED BY <3>1, <3>2, TailOfItems
  <2>2. pc' \in {"videos", "category", "raised"} /\ crashed' \in BOOLEAN
    <3>1. crashed \in BOOLEAN
      BY DEF TypeOK
    <3> QED BY <1>5, <3>1, Zenon DEF videosListById, Raise
  <2>3. UNCHANGED <<table, row, categoryNumber, lessonNumber, previousCategory, docs, runs,
                    answered>>
    BY <1>5 DEF videosListById
  <2>4. TypeOK'
    BY <2>1, <2>2, <2>3 DEF TypeOK, Labels
  <2>5. pc' = "category" => /\ items' = items /\ items # <<>> /\ UnitsKnown(Head(items))
                            /\ durationInSeconds(Head(items)) <= 600
    BY <1>5 DEF videosListById, Raise
  <2>6. pc = "videos" /\ category' = category
    BY <1>5, <2>3 DEF videosListById, category
  <2>7. PlaceInv'
    BY <2>2, <2>3, <2>5, <2>6 DEF PlaceInv, InRow, Uploading
  <2> QED BY <2>4, <2>7
<1>6. CASE SetCategory
  <2>1. [type |-> "Category", id |-> categoryNumber] \in Documents
    BY DEF Documents, TypeOK
  <2>2. (\A p \in DOMAIN docs : docs[p] \in Documents)'
    BY <1>6, <2>1, SetTyped DEF SetCategory, TypeOK
  <2>3. TypeOK'
    BY <1>6, <2>2 DEF SetCategory, TypeOK, Labels
  <2> QED BY <1>6, <2>3 DEF SetCategory, PlaceInv, InRow, Uploading, category
<1>7. CASE SetLesson
  <2>1. [type |-> "Lesson", id |-> lessonNumber] \in Documents
    BY DEF Documents, TypeOK
  <2>2. (\A p \in DOMAIN docs : docs[p] \in Documents)'
    BY <1>7, <2>1, SetTyped DEF SetLesson, TypeOK
  <2>3. TypeOK'
    BY <1>7, <2>2 DEF SetLesson, TypeOK, Labels
  <2> QED BY <1>7, <2>3 DEF SetLesson, PlaceInv, InRow, Uploading, category
<1>8. CASE SetVideo
  <2>1. /\ Tail(items) \in Seq(Videos) /\ IsInjective(Tail(items)) /\ Head(items) \in Videos
        /\ UnitsKnown(Head(items))
    BY <1>8, TailOfItems DEF SetVideo, TypeOK, PlaceInv, Uploading
  <2>2. durationInSeconds(Head(items)) \in Nat
    BY <2>1, Duration
  <2>3. [type |-> "Video", duration |-> durationInSeconds(Head(items))] \in Documents
    BY <2>2 DEF Documents
  <2>4. (\A p \in DOMAIN docs : docs[p] \in Documents)'
    BY <1>8, <2>3, SetTyped DEF SetVideo, TypeOK
  <2>5. TypeOK'
    BY <1>8, <2>1, <2>4 DEF SetVideo, TypeOK, Labels
  <2> QED BY <1>8, <2>5 DEF SetVideo, PlaceInv, InRow, Uploading, category
<1>9. CASE RowDone
  <2>1. TypeOK'
    BY <1>0, <1>9 DEF RowDone, TypeOK, PlaceInv, Labels, InRow
  <2> QED BY <1>0, <1>9, <2>1 DEF RowDone, TypeOK, PlaceInv, InRow, Uploading
<1>10. CASE Finish
  BY <1>0, <1>10 DEF Finish, TypeOK, PlaceInv, Labels, InRow, Uploading
<1>11. CASE Crash
  BY <1>0, <1>11 DEF Crash, Raise, TypeOK, PlaceInv, Labels, InRow, Uploading
<1>12. CASE UNCHANGED vars
  BY <1>12 DEF vars, TypeOK, PlaceInv, category
<1> QED BY <1>1, <1>2, <1>3, <1>4, <1>5, <1>6, <1>7, <1>8, <1>9, <1>10, <1>11, <1>12 DEF Next
-----------------------------------------------------------------------------
(* The documents stay a tree.                                              *)

LEMMA RefsKept ==
  ASSUME UNCHANGED <<table, row>>
  PROVE  /\ category' = category /\ lesson' = lesson
         /\ categoryRef' = categoryRef /\ lessonRef' = lessonRef
<1>1. category' = category /\ lesson' = lesson
  BY DEF category, lesson
<1>2. categoryRef' = categoryRef
  BY <1>1 DEF categoryRef
<1> QED BY <1>1, <1>2 DEF lessonRef

Kinds == <<"Subject", "Grade", "Category", "Lesson", "Video">>

LEMMA TreeGrows ==
  ASSUME NEW path \in Seq(Parts), Len(path) \in 1 .. 5,
         Len(path) > 1 => Front(path) \in DOMAIN docs,
         NEW value, value.type = Kinds[Len(path)], Set(path, value),
         DocumentsAreATree, \A p \in DOMAIN docs : p \in Seq(Parts) /\ Len(p) \in 1 .. 5
  PROVE  /\ DocumentsAreATree'
         /\ (\A p \in DOMAIN docs : p \in Seq(Parts) /\ Len(p) \in 1 .. 5)'
         /\ DOMAIN docs \subseteq DOMAIN docs' /\ path \in DOMAIN docs'
<1>1. /\ DOMAIN docs' = DOMAIN docs \union {path} /\ docs'[path] = value
      /\ \A q \in DOMAIN docs : q # path => docs'[q] = docs[q]
  BY SetIs
<1>2. ASSUME NEW p \in DOMAIN docs'
      PROVE  /\ Len(p) > 1 => Front(p) \in DOMAIN docs'
             /\ docs'[p].type = Kinds[Len(p)]
  BY <1>1 DEF DocumentsAreATree, Kinds
<1>3. DocumentsAreATree'
  BY <1>2 DEF DocumentsAreATree, Kinds
<1> QED BY <1>1, <1>3

LEMMA TreeInit == Init => DocumentsAreATree /\ TreeInv
<1> SUFFICES ASSUME Init PROVE DocumentsAreATree /\ TreeInv
  OBVIOUS
<1>1. DOMAIN docs = {} /\ pc = "idle"
  BY DEF Init
<1> QED BY <1>1 DEF DocumentsAreATree, TreeInv, InRow

\* The three kinds a video's upload writes, the first two documents, and
\* where the upload stands.
LEMMA TreeNext ==
  ASSUME TypeOK, PlaceInv, DocumentsAreATree, TreeInv, [Next]_vars
  PROVE  DocumentsAreATree' /\ TreeInv'
<1>0. /\ subject \in Parts /\ grade \in Parts
      /\ \A p \in DOMAIN docs : p \in Seq(Parts) /\ Len(p) \in 1 .. 5
      /\ Kinds[1] = "Subject" /\ Kinds[2] = "Grade" /\ Kinds[3] = "Category"
      /\ Kinds[4] = "Lesson" /\ Kinds[5] = "Video"
  BY DEF Parts, TreeInv, Kinds
<1>1. CASE Start
  <2>1. <<subject>> \in Seq(Parts) /\ Len(<<subject>>) = 1
    BY <1>0
  <2>2. PICK value : value = [type |-> "Subject"] /\ value.type = "Subject"
    <3>1. [type |-> "Subject"].type = "Subject"
      OBVIOUS
    <3> QED BY <3>1, Zenon
  <2>3. Set(<<subject>>, value) /\ pc' = "grade"
    BY <1>1, <2>2 DEF Start
  <2>4. /\ DocumentsAreATree'
        /\ (\A p \in DOMAIN docs : p \in Seq(Parts) /\ Len(p) \in 1 .. 5)'
        /\ <<subject>> \in DOMAIN docs'
    <3>1. Len(<<subject>>) \in 1 .. 5 /\ ~(Len(<<subject>>) > 1)
          /\ value.type = Kinds[Len(<<subject>>)]
      BY <1>0, <2>1, <2>2
    <3> QED BY <1>0, <2>1, <2>3, <3>1, TreeGrows
  <2> QED BY <2>3, <2>4 DEF TreeInv, InRow
<1>2. CASE SetGrade
  <2>1. <<subject, grade>> \in Seq(Parts) /\ Len(<<subject, grade>>) = 2
        /\ Front(<<subject, grade>>) = <<subject>>
    BY <1>0, FrontOfTwo
  <2>2. PICK value : value = [type |-> "Grade"] /\ value.type = "Grade"
    <3>1. [type |-> "Grade"].type = "Grade"
      OBVIOUS
    <3> QED BY <3>1, Zenon
  <2>3. Set(<<subject, grade>>, value) /\ pc' = "rows" /\ <<subject>> \in DOMAIN docs
    BY <1>2, <2>2 DEF SetGrade, TreeInv
  <2>4. /\ DocumentsAreATree'
        /\ (\A p \in DOMAIN docs : p \in Seq(Parts) /\ Len(p) \in 1 .. 5)'
        /\ <<subject, grade>> \in DOMAIN docs' /\ <<subject>> \in DOMAIN docs'
    <3>1. Len(<<subject, grade>>) \in 1 .. 5 /\ value.type = Kinds[Len(<<subject, grade>>)]
          /\ Front(<<subject, grade>>) \in DOMAIN docs
      BY <1>0, <2>1, <2>2, <2>3
    <3> QED BY <1>0, <2>1, <2>3, <3>1, TreeGrows
  <2> QED BY <2>3, <2>4 DEF TreeInv, InRow
<1>3. CASE SetCategory
  <2>1. row <= Len(table) /\ Len(table[row]) = 2 /\ <<subject>> \in DOMAIN docs
        /\ <<subject, grade>> \in DOMAIN docs
    BY <1>3 DEF SetCategory, PlaceInv, TreeInv, InRow
  <2>2. categoryRef \in Seq(Parts) /\ Len(categoryRef) = 3
        /\ Front(categoryRef) = <<subject, grade>>
    BY <2>1, RowPaths
  <2>3. PICK value : value = [type |-> "Category", id |-> categoryNumber] /\ value.type = "Category"
    <3>1. [type |-> "Category", id |-> categoryNumber].type = "Category"
      OBVIOUS
    <3> QED BY <3>1, Zenon
  <2>4. Set(categoryRef, value) /\ pc' = "lesson" /\ UNCHANGED <<table, row>>
    BY <1>3, <2>3 DEF SetCategory
  <2>5. /\ DocumentsAreATree'
        /\ (\A p \in DOMAIN docs : p \in Seq(Parts) /\ Len(p) \in 1 .. 5)'
        /\ DOMAIN docs \subseteq DOMAIN docs' /\ categoryRef \in DOMAIN docs'
    <3>1. Len(categoryRef) \in 1 .. 5 /\ value.type = Kinds[Len(categoryRef)]
          /\ Front(categoryRef) \in DOMAIN docs
      BY <1>0, <2>1, <2>2, <2>3
    <3> QED BY <1>0, <2>2, <2>4, <3>1, TreeGrows
  <2>6. categoryRef' = categoryRef
    BY <2>4, RefsKept
  <2> QED BY <2>1, <2>4, <2>5, <2>6 DEF TreeInv, InRow
<1>4. CASE SetLesson
  <2>1. row <= Len(table) /\ Len(table[row]) = 2 /\ <<subject>> \in DOMAIN docs
        /\ <<subject, grade>> \in DOMAIN docs /\ categoryRef \in DOMAIN docs
    BY <1>4 DEF SetLesson, PlaceInv, TreeInv, InRow
  <2>2. lessonRef \in Seq(Parts) /\ Len(lessonRef) = 4 /\ Front(lessonRef) = categoryRef
    BY <2>1, RowPaths
  <2>3. PICK value : value = [type |-> "Lesson", id |-> lessonNumber] /\ value.type = "Lesson"
    <3>1. [type |-> "Lesson", id |-> lessonNumber].type = "Lesson"
      OBVIOUS
    <3> QED BY <3>1, Zenon
  <2>4. Set(lessonRef, value) /\ pc' = "video" /\ UNCHANGED <<table, row>>
    BY <1>4, <2>3 DEF SetLesson
  <2>5. /\ DocumentsAreATree'
        /\ (\A p \in DOMAIN docs : p \in Seq(Parts) /\ Len(p) \in 1 .. 5)'
        /\ DOMAIN docs \subseteq DOMAIN docs' /\ lessonRef \in DOMAIN docs'
    <3>1. Len(lessonRef) \in 1 .. 5 /\ value.type = Kinds[Len(lessonRef)]
          /\ Front(lessonRef) \in DOMAIN docs
      BY <1>0, <2>1, <2>2, <2>3
    <3> QED BY <1>0, <2>2, <2>4, <3>1, TreeGrows
  <2>6. categoryRef' = categoryRef /\ lessonRef' = lessonRef
    BY <2>4, RefsKept
  <2> QED BY <2>1, <2>4, <2>5, <2>6 DEF TreeInv, InRow
<1>5. CASE SetVideo
  <2>1. row <= Len(table) /\ Len(table[row]) = 2 /\ <<subject>> \in DOMAIN docs
        /\ <<subject, grade>> \in DOMAIN docs /\ lessonRef \in DOMAIN docs
        /\ Head(items) \in Videos
    BY <1>5, TailOfItems DEF SetVideo, PlaceInv, TreeInv, InRow, Uploading, TypeOK
  <2>2. PICK path : path = Append(lessonRef, Head(items))
    OBVIOUS
  <2>3. path \in Seq(Parts) /\ Len(path) = 5 /\ Front(path) = lessonRef
    BY <2>1, <2>2, RowPaths
  <2>4. PICK value : value = [type |-> "Video", duration |-> durationInSeconds(Head(items))]
                     /\ value.type = "Video"
    <3>1. [type |-> "Video", duration |-> durationInSeconds(Head(items))].type = "Video"
      OBVIOUS
    <3> QED BY <3>1, Zenon
  <2>5. Set(path, value) /\ pc' = "videos"
    BY <1>5, <2>2, <2>4 DEF SetVideo
  <2>6. /\ DocumentsAreATree'
        /\ (\A p \in DOMAIN docs : p \in Seq(Parts) /\ Len(p) \in 1 .. 5)'
        /\ DOMAIN docs \subseteq DOMAIN docs'
    <3>1. Len(path) \in 1 .. 5 /\ value.type = Kinds[Len(path)]
          /\ Front(path) \in DOMAIN docs
      BY <1>0, <2>1, <2>3, <2>4
    <3> QED BY <1>0, <2>3, <2>5, <3>1, TreeGrows
  <2> QED BY <2>1, <2>5, <2>6 DEF TreeInv, InRow
<1>6. CASE /\ docs' = docs /\ pc \notin {"idle", "grade", "lesson", "video"}
           /\ pc' \in {"videos", "category", "rows", "done", "raised"}
           /\ (pc' \in {"videos", "category", "rows"} => pc \in {"rows"} \union InRow)
  BY <1>6 DEF DocumentsAreATree, TreeInv, InRow
<1>7. CASE NextRow \/ videosListById \/ RowDone \/ Finish
  BY <1>6, <1>7 DEF NextRow, videosListById, RowDone, Finish, Raise, InRow
<1>8. CASE Crash
  BY <1>8 DEF Crash, Raise, DocumentsAreATree, TreeInv, InRow
<1>9. CASE UNCHANGED vars
  <2>1. UNCHANGED <<table, row, docs, pc>>
    BY <1>9 DEF vars
  <2>2. categoryRef' = categoryRef /\ lessonRef' = lessonRef
    BY <2>1, RefsKept
  <2> QED BY <2>1, <2>2 DEF DocumentsAreATree, TreeInv
<1> QED BY <1>1, <1>2, <1>3, <1>4, <1>5, <1>7, <1>8, <1>9 DEF Next
-----------------------------------------------------------------------------
(* The videos of the database.                                             *)

LEMMA ShortInit == Init => OnlyShortVideos
BY DEF Init, OnlyShortVideos

LEMMA NoNewVideo ==
  ASSUME NEW path, NEW value, value.type # "Video", Set(path, value), OnlyShortVideos
  PROVE  OnlyShortVideos'
<1>1. /\ DOMAIN docs' = DOMAIN docs \union {path} /\ docs'[path] = value
      /\ \A q \in DOMAIN docs : q # path => docs'[q] = docs[q]
  BY SetIs
<1>2. \A p \in DOMAIN docs' : docs'[p].type = "Video" => p \in DOMAIN docs /\ docs'[p] = docs[p]
  BY <1>1
<1> QED BY <1>2 DEF OnlyShortVideos

LEMMA ShortNext ==
  ASSUME TypeOK, PlaceInv, OnlyShortVideos, [Next]_vars
  PROVE  OnlyShortVideos'
<1>1. CASE Start
  <2>1. [type |-> "Subject"].type # "Video"
    OBVIOUS
  <2> QED BY <1>1, <2>1, NoNewVideo DEF Start
<1>2. CASE SetGrade
  <2>1. [type |-> "Grade"].type # "Video"
    OBVIOUS
  <2> QED BY <1>2, <2>1, NoNewVideo DEF SetGrade
<1>3. CASE SetCategory
  <2>1. [type |-> "Category", id |-> categoryNumber].type # "Video"
    OBVIOUS
  <2> QED BY <1>3, <2>1, NoNewVideo DEF SetCategory
<1>4. CASE SetLesson
  <2>1. [type |-> "Lesson", id |-> lessonNumber].type # "Video"
    OBVIOUS
  <2> QED BY <1>4, <2>1, NoNewVideo DEF SetLesson
<1>5. CASE SetVideo
  <2>1. /\ row <= Len(table) /\ Len(table[row]) = 2 /\ Head(items) \in Videos
        /\ UnitsKnown(Head(items)) /\ durationInSeconds(Head(items)) <= 600
    BY <1>5, TailOfItems DEF SetVideo, PlaceInv, InRow, Uploading, TypeOK
  <2>2. PICK v, path : v \in Videos /\ v = Head(items) /\ path = Append(lessonRef, v)
    BY <2>1
  <2>3. Last(path) = v
    BY <2>1, <2>2, RowPaths
  <2>4. PICK t : t = Length[v]
    OBVIOUS
  <2>5. t.hours \in Nat /\ t.minutes \in Nat /\ t.seconds \in Nat
    <3>1. t \in Times
      BY <2>2, <2>4, FinderAssumption
    <3> QED BY <3>1 DEF Times
  <2>6. t.days = 0 /\ durationInSeconds(v) = 3600 * t.hours + 60 * t.minutes + t.seconds
    BY <2>1, <2>2, <2>4, Duration
  <2>7. durationInSeconds(v) = 3600 * (24 * t.days + t.hours) + 60 * t.minutes + t.seconds
    BY <2>5, <2>6
  <2>8. PICK value : value = [type |-> "Video", duration |-> durationInSeconds(v)]
    OBVIOUS
  <2>9. Set(path, value)
    BY <1>5, <2>2, <2>8 DEF SetVideo
  <2>10. /\ DOMAIN docs' = DOMAIN docs \union {path} /\ docs'[path] = value
         /\ \A q \in DOMAIN docs : q # path => docs'[q] = docs[q]
    BY <2>9, SetIs
  <2>11. value.duration = durationInSeconds(v)
    BY <2>8
  <2>12. ASSUME NEW p \in DOMAIN docs', docs'[p].type = "Video"
         PROVE  LET u == Length[Last(p)]
                IN  /\ docs'[p].duration = 3600 * (24 * u.days + u.hours)
                                             + 60 * u.minutes + u.seconds
                    /\ docs'[p].duration <= 600
    <3>1. CASE p = path
      BY <2>1, <2>2, <2>3, <2>4, <2>7, <2>10, <2>11, <3>1
    <3>2. CASE p # path
      BY <2>10, <2>12, <3>2 DEF OnlyShortVideos
    <3> QED BY <3>1, <3>2
  <2> QED BY <2>12 DEF OnlyShortVideos
<1>6. CASE docs' = docs
  BY <1>6 DEF OnlyShortVideos
<1>7. CASE NextRow \/ videosListById \/ RowDone \/ Finish \/ Crash \/ UNCHANGED vars
  BY <1>6, <1>7 DEF NextRow, videosListById, RowDone, Finish, Crash, vars
<1> QED BY <1>1, <1>2, <1>3, <1>4, <1>5, <1>7 DEF Next

-----------------------------------------------------------------------------
(* The lessons of the database have videos.                                *)

LEMMA LessonsInit == Init => LessonsInv
BY DEF Init, LessonsInv

\* Another document, while no lesson waits for its first video.
LEMMA NoNewLesson ==
  ASSUME NEW path, NEW value, value.type # "Lesson", Set(path, value), LessonsInv,
         pc # "video", crashed' = crashed
  PROVE  LessonsInv'
<1>1. /\ DOMAIN docs' = DOMAIN docs \union {path} /\ docs'[path] = value
      /\ \A q \in DOMAIN docs : q # path => docs'[q] = docs[q]
  BY SetIs
<1>2. ASSUME ~crashed, NEW p \in DOMAIN docs', docs'[p].type = "Lesson"
      PROVE  \E v \in Videos : Append(p, v) \in DOMAIN docs'
  <2>1. p \in DOMAIN docs /\ docs[p].type = "Lesson"
    BY <1>1, <1>2
  <2> QED BY <1>1, <1>2, <2>1 DEF LessonsInv
<1> QED BY <1>2 DEF LessonsInv

LEMMA LessonsNext ==
  ASSUME TypeOK, PlaceInv, LessonsInv, [Next]_vars
  PROVE  LessonsInv'
<1>1. CASE Start
  <2>1. [type |-> "Subject"].type # "Lesson"
    OBVIOUS
  <2> QED BY <1>1, <2>1, NoNewLesson DEF Start
<1>2. CASE SetGrade
  <2>1. [type |-> "Grade"].type # "Lesson"
    OBVIOUS
  <2> QED BY <1>2, <2>1, NoNewLesson DEF SetGrade
<1>3. CASE SetCategory
  <2>1. [type |-> "Category", id |-> categoryNumber].type # "Lesson"
    OBVIOUS
  <2> QED BY <1>3, <2>1, NoNewLesson DEF SetCategory
<1>4. CASE SetLesson
  <2>1. PICK value : value = [type |-> "Lesson", id |-> lessonNumber]
    OBVIOUS
  <2>2. Set(lessonRef, value) /\ pc = "lesson" /\ pc' = "video" /\ crashed' = crashed
        /\ UNCHANGED <<table, row>>
    BY <1>4, <2>1 DEF SetLesson
  <2>3. /\ DOMAIN docs' = DOMAIN docs \union {lessonRef}
        /\ \A q \in DOMAIN docs : q # lessonRef => docs'[q] = docs[q]
    BY <2>2, SetIs
  <2>4. lessonRef' = lessonRef
    BY <2>2, RefsKept
  <2>5. ASSUME ~crashed, NEW p \in DOMAIN docs', docs'[p].type = "Lesson", p # lessonRef
        PROVE  \E v \in Videos : Append(p, v) \in DOMAIN docs'
    <3>1. p \in DOMAIN docs /\ docs[p].type = "Lesson"
      BY <2>3, <2>5
    <3> QED BY <2>2, <2>3, <2>5, <3>1 DEF LessonsInv
  <2> QED BY <2>2, <2>4, <2>5 DEF LessonsInv
<1>5. CASE SetVideo
  <2>1. Head(items) \in Videos
    BY <1>5, TailOfItems DEF SetVideo, PlaceInv, Uploading, TypeOK
  <2>2. PICK v, path : v \in Videos /\ v = Head(items) /\ path = Append(lessonRef, v)
    BY <2>1
  <2>3. PICK value : value = [type |-> "Video", duration |-> durationInSeconds(v)]
    OBVIOUS
  <2>4. Set(path, value) /\ pc = "video" /\ pc' = "videos" /\ crashed' = crashed
    BY <1>5, <2>2, <2>3 DEF SetVideo
  <2>5. value.type # "Lesson"
    BY <2>3
  <2>6. /\ DOMAIN docs' = DOMAIN docs \union {path} /\ docs'[path] = value
        /\ \A q \in DOMAIN docs : q # path => docs'[q] = docs[q]
    BY <2>4, SetIs
  <2>7. ASSUME ~crashed, NEW p \in DOMAIN docs', docs'[p].type = "Lesson"
        PROVE  \E w \in Videos : Append(p, w) \in DOMAIN docs'
    <3>1. p \in DOMAIN docs /\ docs[p].type = "Lesson"
      BY <2>5, <2>6, <2>7
    <3>2. CASE p = lessonRef
      BY <2>2, <2>6, <3>2
    <3>3. CASE p # lessonRef
      BY <2>6, <2>7, <3>1, <3>3 DEF LessonsInv
    <3> QED BY <3>2, <3>3
  <2> QED BY <2>4, <2>7 DEF LessonsInv
<1>6. CASE docs' = docs /\ pc # "video" /\ crashed' = crashed
  BY <1>6 DEF LessonsInv
<1>7. CASE crashed' = TRUE
  BY <1>7 DEF LessonsInv
<1>8. CASE NextRow \/ videosListById \/ RowDone \/ Finish
  BY <1>6, <1>7, <1>8, Zenon DEF NextRow, videosListById, RowDone, Finish, Raise
<1>9. CASE Crash
  BY <1>7, <1>9 DEF Crash, Raise
<1>10. CASE UNCHANGED vars
  <2>1. UNCHANGED <<table, row, docs, pc, crashed>>
    BY <1>10 DEF vars
  <2>2. lessonRef' = lessonRef
    BY <2>1, RefsKept
  <2> QED BY <2>1, <2>2 DEF LessonsInv
<1> QED BY <1>1, <1>2, <1>3, <1>4, <1>5, <1>8, <1>9, <1>10 DEF Next
-----------------------------------------------------------------------------
(* Nothing short that was offered is lost on the way.                      *)

LEMMA OfferedInit == Init => OfferedInv
BY DEF Init, OfferedInv, InRow

\* A video the script passes over is not a short one.
LEMMA PassedOver ==
  ASSUME NEW v \in Videos, UnitsKnown(v), durationInSeconds(v) > 600, NEW p, Last(p) = v
  PROVE  ~Short(p)
<1>1. PICK t : t = Length[v]
  OBVIOUS
<1>2. t.hours \in Nat /\ t.minutes \in Nat /\ t.seconds \in Nat
  <2>1. t \in Times
    BY <1>1, FinderAssumption
  <2> QED BY <2>1 DEF Times
<1>3. durationInSeconds(v) = 3600 * t.hours + 60 * t.minutes + t.seconds
  BY <1>1, Duration
<1>4. ~(t.hours = 0 /\ 60 * t.minutes + t.seconds <= 600)
  BY <1>2, <1>3
<1> QED BY <1>1, <1>4 DEF Short

LEMMA IndexOfTail ==
  ASSUME items \in Seq(Videos), items # <<>>, NEW k \in DOMAIN items
  PROVE  items[k] = Head(items) \/ \E j \in DOMAIN Tail(items) : items[k] = Tail(items)[j]
<1>1. /\ Len(items) \in Nat \ {0} /\ DOMAIN items = 1 .. Len(items)
      /\ DOMAIN Tail(items) = 1 .. Len(items) - 1
      /\ \A i \in 1 .. Len(items) - 1 : Tail(items)[i] = items[i + 1]
      /\ Head(items) = items[1]
  OBVIOUS
<1>2. CASE k = 1
  BY <1>1, <1>2
<1>3. CASE k # 1
  <2>1. k - 1 \in DOMAIN Tail(items) /\ Tail(items)[k - 1] = items[k]
    BY <1>1, <1>3
  <2> QED BY <2>1
<1> QED BY <1>2, <1>3

LEMMA OfferedNext ==
  ASSUME TypeOK, PlaceInv, OfferedInv, [Next]_vars
  PROVE  OfferedInv'
<1>1. CASE Start
  BY <1>1 DEF Start, OfferedInv, InRow
<1>2. CASE SetGrade
  <2>1. pc' = "rows" /\ answered' = {}
    BY <1>2 DEF SetGrade, OfferedInv
  <2> QED BY <2>1 DEF OfferedInv, InRow
<1>3. CASE NextRow /\ Len(table[row]) = 2
  <2>1. PICK found \in Answers :
          /\ items' = found
          /\ answered' = answered \union {Append(lessonRef, v) : v \in Range(found)}
    BY <1>3 DEF NextRow
  <2>2. pc = "rows" /\ pc' = "videos" /\ docs' = docs /\ UNCHANGED <<table, row>>
    BY <1>3 DEF NextRow
  <2>3. lessonRef' = lessonRef
    BY <2>2, RefsKept
  <2>4. ASSUME NEW p \in answered', Short(p)
        PROVE  p \in DOMAIN docs' \/ \E k \in DOMAIN items' : p = Append(lessonRef', items'[k])
    BY <2>1, <2>2, <2>3, <2>4 DEF OfferedInv, Range
  <2> QED BY <2>2, <2>4 DEF OfferedInv, InRow, Short
<1>4. CASE NextRow /\ Len(table[row]) # 2
  <2>1. pc' = "raised"
    BY <1>4, Zenon DEF NextRow, Raise
  <2> QED BY <2>1 DEF OfferedInv, InRow
<1>5. CASE videosListById
  <2>1. /\ pc = "videos" /\ UNCHANGED <<table, row, docs, answered>>
        /\ items \in Seq(Videos) /\ items # <<>> /\ Head(items) \in Videos
    BY <1>5, TailOfItems DEF videosListById, TypeOK
  <2>2. lessonRef' = lessonRef
    BY <2>1, RefsKept
  <2>3. CASE pc' = "raised"
    BY <2>3 DEF OfferedInv, InRow
  <2>4. CASE pc' = "category" /\ items' = items
    BY <2>1, <2>2, <2>4 DEF OfferedInv, InRow, Short
  <2>5. CASE /\ pc' = "videos" /\ items' = Tail(items) /\ UnitsKnown(Head(items))
             /\ durationInSeconds(Head(items)) > 600
    <3>1. ASSUME NEW p \in answered, Short(p)
          PROVE  \/ p \in DOMAIN docs
                 \/ \E j \in DOMAIN Tail(items) : p = Append(lessonRef, Tail(items)[j])
      <4>1. CASE p \in DOMAIN docs
        BY <4>1
      <4>2. CASE p \notin DOMAIN docs
        <5>1. PICK k \in DOMAIN items : p = Append(lessonRef, items[k])
          BY <2>1, <3>1, <4>2 DEF OfferedInv, InRow
        <5>2. items[k] # Head(items)
          <6>1. ASSUME items[k] = Head(items) PROVE FALSE
            <7>1. Last(p) = Head(items)
              BY <2>1, <5>1, <6>1, RowPaths DEF PlaceInv, InRow
            <7> QED BY <2>1, <2>5, <3>1, <7>1, PassedOver
          <6> QED BY <6>1
        <5> QED BY <2>1, <5>1, <5>2, IndexOfTail
      <4> QED BY <4>1, <4>2
    <3> QED BY <2>1, <2>2, <2>5, <3>1 DEF OfferedInv, InRow, Short
  <2> QED BY <1>5, <2>1, <2>3, <2>4, <2>5 DEF videosListById, Raise
<1>6. CASE SetCategory
  <2>1. /\ pc = "category" /\ pc' = "lesson" /\ UNCHANGED <<table, row, items, answered>>
        /\ Set(categoryRef, [type |-> "Category", id |-> categoryNumber])
    BY <1>6 DEF SetCategory
  <2>2. DOMAIN docs \subseteq DOMAIN docs' /\ lessonRef' = lessonRef
    BY <2>1, SetIs, RefsKept
  <2> QED BY <2>1, <2>2 DEF OfferedInv, InRow, Short
<1>7. CASE SetLesson
  <2>1. /\ pc = "lesson" /\ pc' = "video" /\ UNCHANGED <<table, row, items, answered>>
        /\ Set(lessonRef, [type |-> "Lesson", id |-> lessonNumber])
    BY <1>7 DEF SetLesson
  <2>2. DOMAIN docs \subseteq DOMAIN docs' /\ lessonRef' = lessonRef
    BY <2>1, SetIs, RefsKept
  <2> QED BY <2>1, <2>2 DEF OfferedInv, InRow, Short
<1>8. CASE SetVideo
  <2>1. /\ pc = "video" /\ pc' = "videos" /\ UNCHANGED <<table, row, answered>>
        /\ items' = Tail(items) /\ items \in Seq(Videos) /\ items # <<>>
        /\ Set(Append(lessonRef, Head(items)),
               [type |-> "Video", duration |-> durationInSeconds(Head(items))])
    BY <1>8 DEF SetVideo, PlaceInv, Uploading, TypeOK
  <2>2. DOMAIN docs' = DOMAIN docs \union {Append(lessonRef, Head(items))}
        /\ lessonRef' = lessonRef
    BY <2>1, SetIs, RefsKept
  <2>3. ASSUME NEW p \in answered, Short(p)
        PROVE  \/ p \in DOMAIN docs'
               \/ \E j \in DOMAIN Tail(items) : p = Append(lessonRef, Tail(items)[j])
    <3>1. CASE p \in DOMAIN docs'
      BY <3>1
    <3>2. CASE p \notin DOMAIN docs'
      <4>1. PICK k \in DOMAIN items : p = Append(lessonRef, items[k])
        BY <2>1, <2>2, <2>3, <3>2 DEF OfferedInv, InRow
      <4>2. items[k] # Head(items)
        BY <2>2, <3>2, <4>1
      <4> QED BY <2>1, <4>1, <4>2, IndexOfTail
    <3> QED BY <3>1, <3>2
  <2> QED BY <2>1, <2>2, <2>3 DEF OfferedInv, InRow, Short
<1>9. CASE RowDone
  <2>1. pc = "videos" /\ pc' = "rows" /\ UNCHANGED <<docs, answered>> /\ DOMAIN items = {}
    BY <1>9 DEF RowDone
  <2> QED BY <2>1 DEF OfferedInv, InRow, Short
<1>10. CASE Finish
  BY <1>10 DEF Finish, OfferedInv, InRow, Short
<1>11. CASE Crash
  BY <1>11 DEF Crash, Raise, OfferedInv, InRow
<1>12. CASE UNCHANGED vars
  <2>1. UNCHANGED <<table, row, docs, pc, items, answered>>
    BY <1>12 DEF vars
  <2>2. lessonRef' = lessonRef
    BY <2>1, RefsKept
  <2> QED BY <2>1, <2>2 DEF OfferedInv, Short
<1> QED BY <1>1, <1>2, <1>3, <1>4, <1>5, <1>6, <1>7, <1>8, <1>9, <1>10, <1>11, <1>12 DEF Next
-----------------------------------------------------------------------------
(* The numbers on a page whose categories are not mixed.                   *)

CatRef(i) == <<subject, grade, table[i][2]>>
LesRef(i) == Append(CatRef(i), table[i][1])

\* Rows of a category come after the same other categories.
LEMMA SameAbove ==
  ASSUME table \in Seq(Seq(Names)), WellFormed(table),
         NEW i \in DOMAIN table, NEW k \in DOMAIN table, table[i][2] = table[k][2]
  PROVE  Above(i) = Above(k)
<1>0. DOMAIN table = 1 .. Len(table) /\ Len(table) \in Nat
  OBVIOUS
<1>1. ASSUME NEW m \in DOMAIN table, NEW n \in DOMAIN table, m < n, table[m][2] = table[n][2]
      PROVE  Above(m) = Above(n)
  <2>1. \A j \in m .. n : table[j][2] = table[m][2]
    BY <1>1 DEF WellFormed
  <2>2. 1 .. m - 1 \subseteq 1 .. n - 1
    BY <1>0, <1>1
  <2>3. Above(m) \subseteq Above(n)
    BY <1>1, <2>2 DEF Above, CategoriesBefore
  <2>4. ASSUME NEW x \in Above(n) PROVE x \in Above(m)
    <3>1. PICK j \in 1 .. n - 1 : x = table[j][2] /\ x # table[n][2]
      BY DEF Above, CategoriesBefore
    <3>2. j \notin m .. n
      BY <1>1, <2>1, <3>1
    <3>3. j \in 1 .. m - 1
      BY <1>0, <1>1, <3>2
    <3> QED BY <1>1, <3>1, <3>3 DEF Above, CategoriesBefore
  <2> QED BY <2>3, <2>4
<1>2. i < k \/ i = k \/ k < i
  BY <1>0
<1> QED BY <1>1, <1>2

\* No lesson is listed twice in a category.
LEMMA SameLesson ==
  ASSUME table \in Seq(Seq(Names)), WellFormed(table),
         NEW i \in DOMAIN table, NEW k \in DOMAIN table,
         table[i][1] = table[k][1], table[i][2] = table[k][2]
  PROVE  i = k
<1>1. /\ table[i] \in Seq(Names) /\ table[k] \in Seq(Names)
      /\ Len(table[i]) = 2 /\ Len(table[k]) = 2
  BY DEF WellFormed
<1>2. table[i] = table[k]
  <2>1. \A j \in 1 .. Len(table[i]) : table[i][j] = table[k][j]
    <3> SUFFICES ASSUME NEW j \in 1 .. 2 PROVE table[i][j] = table[k][j]
      BY <1>1
    <3>1. j = 1 \/ j = 2
      OBVIOUS
    <3> QED BY <3>1
  <2> QED BY <1>1, <2>1, SeqEqual
<1>3. i \in Int /\ k \in Int
  OBVIOUS
<1>4. ~(i < k) /\ ~(k < i)
  BY <1>2 DEF WellFormed
<1> QED BY <1>3, <1>4

LEMMA PairParts ==
  ASSUME NEW r \in Seq(Names), Len(r) = 2 PROVE r[1] \in Names /\ r[2] \in Names
<1>1. r \in [1 .. 2 -> Names]
  BY LenProperties
<1>2. 1 \in 1 .. 2 /\ 2 \in 1 .. 2
  OBVIOUS
<1> QED BY <1>1, <1>2

LEMMA RefsOfRow ==
  ASSUME table \in Seq(Seq(Names)), WellFormed(table), NEW i \in DOMAIN table
  PROVE  /\ LesRef(i) = <<subject, grade, table[i][2], table[i][1]>>
         /\ Len(CatRef(i)) = 3 /\ Len(LesRef(i)) = 4
         /\ table[i][1] \in Names /\ table[i][2] \in Names
<1>1. table[i][1] \in Names /\ table[i][2] \in Names
  <2>1. PICK r \in Seq(Names) : r = table[i] /\ Len(r) = 2
    BY DEF WellFormed
  <2>2. r[1] \in Names /\ r[2] \in Names
    BY <2>1, PairParts
  <2> QED BY <2>1, <2>2
<1>2. /\ subject \in Parts /\ grade \in Parts
      /\ table[i][1] \in Parts /\ table[i][2] \in Parts
  BY <1>1 DEF Parts
<1>3. LesRef(i) = <<subject, grade, table[i][2], table[i][1]>>
  BY <1>2, AppendThree DEF LesRef, CatRef
<1>4. Len(CatRef(i)) = 3
  BY DEF CatRef
<1>5. Len(LesRef(i)) = 4
  BY <1>3
<1> QED BY <1>1, <1>3, <1>4, <1>5

\* The numbers of a row, as they stand in the documents.
Numbered(i) ==
  /\ CatRef(i) \in DOMAIN docs => docs[CatRef(i)].id = Cardinality(Above(i))
  /\ LesRef(i) \in DOMAIN docs => docs[LesRef(i)].id = Cardinality(Before(i))

LEMMA Follows == NumbersFollowThePage <=> (WellFormed(table) => \A i \in DOMAIN table : Numbered(i))
BY DEF NumbersFollowThePage, Numbered, CatRef, LesRef, Above, Before, CategoriesBefore

LEMMA FollowsNext ==
  NumbersFollowThePage' <=> (WellFormed(table') => \A i \in DOMAIN table' : Numbered(i)')
BY DEF NumbersFollowThePage, Numbered, CatRef, LesRef, Above, Before, CategoriesBefore

\* The places of a row depend on the page alone.
LEMMA RowsKept ==
  ASSUME table' = table, NEW i
  PROVE  CatRef(i)' = CatRef(i) /\ LesRef(i)' = LesRef(i) /\ Above(i)' = Above(i)
         /\ Before(i)' = Before(i) /\ CategoriesBefore(i)' = CategoriesBefore(i)
<1>1. CatRef(i)' = CatRef(i)
  BY DEF CatRef
<1>2. LesRef(i)' = LesRef(i)
  BY <1>1 DEF LesRef
<1>3. CategoriesBefore(i)' = CategoriesBefore(i) /\ Before(i)' = Before(i)
  BY DEF CategoriesBefore, Before
<1>4. Above(i)' = Above(i)
  BY <1>3 DEF Above
<1> QED BY <1>1, <1>2, <1>3, <1>4
LEMMA NumbersInit == Init => NumbersFollowThePage /\ NumbersInv
<1> SUFFICES ASSUME Init PROVE NumbersFollowThePage /\ NumbersInv
  OBVIOUS
<1>1. DOMAIN docs = {} /\ pc = "idle"
  BY DEF Init
<1>2. NumbersFollowThePage
  BY <1>1, Follows DEF Numbered
<1> QED BY <1>1, <1>2 DEF NumbersInv, InRow

\* A document that is no category or lesson carries no number.
LEMMA NumbersKept ==
  ASSUME TypeOK, NEW path, NEW value, Len(path) \notin {3, 4}, Set(path, value),
         table' = table, NumbersFollowThePage
  PROVE  NumbersFollowThePage'
<1>1. /\ DOMAIN docs' = DOMAIN docs \union {path}
      /\ \A q \in DOMAIN docs : q # path => docs'[q] = docs[q]
  BY SetIs
<1>2. ASSUME WellFormed(table), NEW i \in DOMAIN table PROVE Numbered(i)'
  <2>1. CatRef(i) # path /\ LesRef(i) # path
    BY <1>2, RefsOfRow, TableLength
  <2>2. Numbered(i)
    BY <1>2, Follows
  <2>3. CatRef(i)' = CatRef(i) /\ LesRef(i)' = LesRef(i) /\ Above(i)' = Above(i)
        /\ Before(i)' = Before(i)
    BY RowsKept
  <2> QED BY <1>1, <2>1, <2>2, <2>3 DEF Numbered
<1> QED BY <1>2, FollowsNext

LEMMA NumbersKept2 ==
  ASSUME docs' = docs, table' = table, NumbersFollowThePage
  PROVE  NumbersFollowThePage'
<1>1. ASSUME WellFormed(table), NEW i \in DOMAIN table PROVE Numbered(i)'
  <2>1. Numbered(i)
    BY <1>1, Follows
  <2>2. CatRef(i)' = CatRef(i) /\ LesRef(i)' = LesRef(i) /\ Above(i)' = Above(i)
        /\ Before(i)' = Before(i)
    BY RowsKept
  <2> QED BY <2>1, <2>2 DEF Numbered
<1> QED BY <1>1, FollowsNext

\* A new category after the ones before, or the one of the row before.
LEMMA NewCategory ==
  ASSUME table \in Seq(Seq(Names)), WellFormed(table), NEW i \in DOMAIN table,
         NEW previous, previous = IF i = 1 THEN None ELSE table[i - 1][2],
         previous # table[i][2]
  PROVE  Above(i) = CategoriesBefore(i) /\ Before(i) = {}
<1>0. DOMAIN table = 1 .. Len(table) /\ Len(table) \in Nat
  OBVIOUS
<1>1. ASSUME NEW j \in 1 .. i - 1 PROVE table[j][2] # table[i][2]
  <2>1. i # 1 /\ j \in DOMAIN table /\ j < i /\ i - 1 \in j .. i
    BY <1>0
  <2>2. table[j][2] = table[i][2] => table[i - 1][2] = table[j][2]
    BY <2>1 DEF WellFormed
  <2>3. table[i - 1][2] # table[i][2]
    BY <2>1
  <2> QED BY <2>2, <2>3
<1> QED BY <1>1 DEF Above, Before, CategoriesBefore

LEMMA SameCategory ==
  ASSUME table \in Seq(Seq(Names)), WellFormed(table), NEW i \in DOMAIN table,
         NEW previous, previous = IF i = 1 THEN None ELSE table[i - 1][2],
         previous = table[i][2], IsFiniteSet(CategoriesBefore(i))
  PROVE  /\ IsFiniteSet(Above(i))
         /\ Cardinality(CategoriesBefore(i)) = Cardinality(Above(i)) + 1
         /\ Before(i) = {j \in 1 .. i - 1 : table[j][2] = previous}
<1>0. DOMAIN table = 1 .. Len(table) /\ Len(table) \in Nat
  OBVIOUS
<1>1. i # 1
  BY RefsOfRow, FinderAssumption
<1>2. i - 1 \in 1 .. i - 1 /\ table[i - 1][2] = table[i][2]
  BY <1>0, <1>1
<1>3. table[i][2] \in CategoriesBefore(i)
  BY <1>2 DEF CategoriesBefore
<1>4. Before(i) = {j \in 1 .. i - 1 : table[j][2] = previous}
  BY DEF Before
<1>5. IsFiniteSet(Above(i)) /\ Cardinality(Above(i)) = Cardinality(CategoriesBefore(i)) - 1
  BY <1>3, FS_RemoveElement DEF Above
<1>6. Cardinality(CategoriesBefore(i)) \in Nat
  BY FS_CardinalityType
<1>7. Cardinality(CategoriesBefore(i)) = Cardinality(Above(i)) + 1
  BY <1>5, <1>6
<1> QED BY <1>4, <1>5, <1>7

\* The row after.
LEMMA NextPlace ==
  ASSUME table \in Seq(Seq(Names)), NEW i \in DOMAIN table, IsFiniteSet(Above(i))
  PROVE  /\ IsFiniteSet(CategoriesBefore(i + 1))
         /\ Cardinality(CategoriesBefore(i + 1)) = Cardinality(Above(i)) + 1
         /\ Cardinality({j \in 1 .. (i + 1) - 1 : table[j][2] = table[i][2]})
              = Cardinality(Before(i)) + 1
<1>0. i \in Nat \ {0} /\ (i + 1) - 1 = i /\ 1 .. i = (1 .. i - 1) \union {i}
  OBVIOUS
<1>1. CategoriesBefore(i + 1) = Above(i) \union {table[i][2]} /\ table[i][2] \notin Above(i)
  BY <1>0 DEF Above, CategoriesBefore
<1>2. {j \in 1 .. (i + 1) - 1 : table[j][2] = table[i][2]} = Before(i) \union {i}
      /\ i \notin Before(i)
  BY <1>0 DEF Before
<1>3. IsFiniteSet(Before(i))
  <2>1. IsFiniteSet(1 .. i - 1) /\ Before(i) \in SUBSET (1 .. i - 1)
    <3>1. 1 \in Int /\ i - 1 \in Int
      BY <1>0
    <3>2. IsFiniteSet(1 .. i - 1)
      BY <3>1, FS_Interval
    <3> QED BY <3>2 DEF Before
  <2> QED BY <2>1, FS_Subset
<1>4. /\ IsFiniteSet(Above(i) \union {table[i][2]})
      /\ Cardinality(Above(i) \union {table[i][2]}) = Cardinality(Above(i)) + 1
  BY <1>1, FS_AddElement
<1>5. Cardinality(Before(i) \union {i}) = Cardinality(Before(i)) + 1
  BY <1>2, <1>3, FS_AddElement
<1> QED BY <1>1, <1>2, <1>4, <1>5
LEMMA FollowsStep ==
  ASSUME TypeOK, PlaceInv, NumbersFollowThePage, NumbersInv, [Next]_vars
  PROVE  NumbersFollowThePage'
<1>0. table \in Seq(Seq(Names))
  BY TableLength
<1>1. CASE Start
  <2>1. Len(<<subject>>) \notin {3, 4}
    OBVIOUS
  <2> QED BY <1>1, <2>1, NumbersKept DEF Start
<1>2. CASE SetGrade
  <2>1. Len(<<subject, grade>>) \notin {3, 4}
    OBVIOUS
  <2> QED BY <1>2, <2>1, NumbersKept DEF SetGrade
<1>3. CASE SetCategory
  <2>1. PICK value : value = [type |-> "Category", id |-> categoryNumber]
    OBVIOUS
  <2>2. /\ Set(categoryRef, value) /\ table' = table /\ value.id = categoryNumber
        /\ row <= Len(table) /\ row \in DOMAIN table
    BY <1>0, <1>3, <2>1 DEF SetCategory, PlaceInv, InRow, TypeOK
  <2>3. /\ DOMAIN docs' = DOMAIN docs \union {categoryRef} /\ docs'[categoryRef] = value
        /\ \A q \in DOMAIN docs : q # categoryRef => docs'[q] = docs[q]
    BY <2>2, SetIs
  <2>4. ASSUME WellFormed(table), NEW i \in DOMAIN table PROVE Numbered(i)'
    <3>1. Numbered(i) /\ categoryNumber = Cardinality(Above(row))
      BY <1>3, <2>4, Follows DEF NumbersInv, InRow, SetCategory
    <3>2. CatRef(i)' = CatRef(i) /\ LesRef(i)' = LesRef(i) /\ Above(i)' = Above(i)
          /\ Before(i)' = Before(i)
      BY <2>2, RowsKept
    <3>3. categoryRef = CatRef(row)
      BY DEF categoryRef, category, CatRef
    <3>4. LesRef(i) # categoryRef
      <4>1. Len(LesRef(i)) = 4 /\ Len(CatRef(row)) = 3
        BY <1>0, <2>2, <2>4, RefsOfRow
      <4> QED BY <3>3, <4>1
    <3>5. CatRef(i) = categoryRef => Above(i) = Above(row)
      <4>1. CatRef(i) = CatRef(row) => table[i][2] = table[row][2]
        BY DEF CatRef
      <4> QED BY <1>0, <2>2, <2>4, <3>3, <4>1, SameAbove
    <3> QED BY <2>2, <2>3, <3>1, <3>2, <3>4, <3>5 DEF Numbered
  <2> QED BY <2>2, <2>4, FollowsNext
<1>4. CASE SetLesson
  <2>1. PICK value : value = [type |-> "Lesson", id |-> lessonNumber]
    OBVIOUS
  <2>2. /\ Set(lessonRef, value) /\ table' = table /\ value.id = lessonNumber
        /\ row <= Len(table) /\ row \in DOMAIN table
    BY <1>0, <1>4, <2>1 DEF SetLesson, PlaceInv, InRow, TypeOK
  <2>3. /\ DOMAIN docs' = DOMAIN docs \union {lessonRef} /\ docs'[lessonRef] = value
        /\ \A q \in DOMAIN docs : q # lessonRef => docs'[q] = docs[q]
    BY <2>2, SetIs
  <2>4. ASSUME WellFormed(table), NEW i \in DOMAIN table PROVE Numbered(i)'
    <3>1. Numbered(i) /\ lessonNumber = Cardinality(Before(row))
      BY <1>4, <2>4, Follows DEF NumbersInv, InRow, SetLesson
    <3>2. CatRef(i)' = CatRef(i) /\ LesRef(i)' = LesRef(i) /\ Above(i)' = Above(i)
          /\ Before(i)' = Before(i)
      BY <2>2, RowsKept
    <3>3. lessonRef = LesRef(row)
      BY DEF lessonRef, lesson, categoryRef, category, CatRef, LesRef
    <3>4. CatRef(i) # lessonRef
      <4>1. Len(CatRef(i)) = 3 /\ Len(LesRef(row)) = 4
        BY <1>0, <2>2, <2>4, RefsOfRow
      <4> QED BY <3>3, <4>1
    <3>5. LesRef(i) = lessonRef => i = row
      <4>1. /\ LesRef(i) = <<subject, grade, table[i][2], table[i][1]>>
            /\ LesRef(row) = <<subject, grade, table[row][2], table[row][1]>>
        BY <1>0, <2>2, <2>4, RefsOfRow
      <4>2. LesRef(i) = LesRef(row) => table[i][2] = table[row][2] /\ table[i][1] = table[row][1]
        BY <4>1
      <4> QED BY <1>0, <2>2, <2>4, <3>3, <4>2, SameLesson
    <3> QED BY <2>2, <2>3, <3>1, <3>2, <3>4, <3>5 DEF Numbered
  <2> QED BY <2>2, <2>4, FollowsNext
<1>5. CASE SetVideo
  <2>1. PICK path, value :
          /\ path = Append(lessonRef, Head(items)) /\ Len(path) = 5
          /\ value = [type |-> "Video", duration |-> durationInSeconds(Head(items))]
    <3>1. row <= Len(table) /\ Len(table[row]) = 2 /\ Head(items) \in Videos
      BY <1>5, TailOfItems DEF SetVideo, PlaceInv, InRow, Uploading, TypeOK
    <3> QED BY <3>1, RowPaths
  <2>2. Set(path, value) /\ table' = table /\ Len(path) \notin {3, 4}
    BY <1>5, <2>1 DEF SetVideo
  <2> QED BY <2>2, NumbersKept
<1>6. CASE NextRow \/ videosListById \/ RowDone \/ Finish \/ Crash \/ UNCHANGED vars
  BY <1>6, NumbersKept2 DEF NextRow, videosListById, RowDone, Finish, Crash, vars
<1> QED BY <1>1, <1>2, <1>3, <1>4, <1>5, <1>6 DEF Next

LEMMA NumbersStep ==
  ASSUME TypeOK, PlaceInv, NumbersInv, [Next]_vars
  PROVE  NumbersInv'
<1>0. table \in Seq(Seq(Names)) /\ Len(table) \in Nat /\ DOMAIN table = 1 .. Len(table)
  BY TableLength
<1>1. table' = table
  BY DEF Next, Start, SetGrade, NextRow, videosListById, SetCategory, SetLesson, SetVideo,
         RowDone, Finish, Crash, vars
<1> SUFFICES ASSUME WellFormed(table) PROVE NumbersInv'
  BY <1>1 DEF NumbersInv
<1>2. CASE SetGrade
  <2>1. /\ pc' = "rows" /\ row' = 1 /\ categoryNumber' = -1 /\ lessonNumber' = 0
        /\ previousCategory' = None
    BY <1>2 DEF SetGrade
  <2>2. CategoriesBefore(row)' = {}
    BY <2>1 DEF CategoriesBefore
  <2>3. {j \in 1 .. row' - 1 : table'[j][2] = previousCategory'} = {}
    BY <2>1
  <2> QED BY <2>1, <2>2, <2>3, FS_EmptySet DEF NumbersInv, InRow
<1>3. CASE NextRow /\ Len(table[row]) = 2
  <2>1. /\ pc = "rows" /\ pc' = "videos" /\ row' = row /\ row \in DOMAIN table
        /\ IsFiniteSet(CategoriesBefore(row))
        /\ categoryNumber + 1 = Cardinality(CategoriesBefore(row))
        /\ previousCategory = IF row = 1 THEN None ELSE table[row - 1][2]
        /\ lessonNumber = Cardinality({j \in 1 .. row - 1 : table[j][2] = previousCategory})
    BY <1>0, <1>3 DEF NextRow, NumbersInv, TypeOK
  <2>2. Above(row)' = Above(row) /\ Before(row)' = Before(row)
    <3>1. ASSUME NEW i PROVE Above(i)' = Above(i) /\ Before(i)' = Before(i)
      BY <1>1, RowsKept
    <3> QED BY <1>1, <2>1 DEF Above, Before, CategoriesBefore
  <2>3. CASE previousCategory # category
    <3>1. Above(row) = CategoriesBefore(row) /\ Before(row) = {}
      BY <1>0, <2>1, <2>3, NewCategory DEF category
    <3>2. categoryNumber' = categoryNumber + 1 /\ lessonNumber' = 0
      BY <1>3, <2>3 DEF NextRow, Numbering
    <3>3. /\ IsFiniteSet(Above(row)) /\ categoryNumber' = Cardinality(Above(row))
          /\ lessonNumber' = Cardinality(Before(row))
      BY <2>1, <3>1, <3>2, FS_EmptySet
    <3> QED BY <2>1, <2>2, <3>3 DEF NumbersInv, InRow
  <2>4. CASE previousCategory = category
    <3>1. /\ IsFiniteSet(Above(row))
          /\ Cardinality(CategoriesBefore(row)) = Cardinality(Above(row)) + 1
          /\ Before(row) = {j \in 1 .. row - 1 : table[j][2] = previousCategory}
      BY <1>0, <2>1, <2>4, SameCategory DEF category
    <3>2. categoryNumber' = categoryNumber /\ lessonNumber' = lessonNumber
      BY <1>3, <2>4 DEF NextRow, Numbering
    <3>3. Cardinality(Above(row)) \in Nat /\ categoryNumber \in Int
      BY <3>1, FS_CardinalityType DEF TypeOK
    <3>4. categoryNumber' = Cardinality(Above(row))
      BY <2>1, <3>1, <3>2, <3>3
    <3> QED BY <2>1, <2>2, <3>1, <3>2, <3>4 DEF NumbersInv, InRow
  <2> QED BY <2>3, <2>4
<1>4. CASE RowDone
  <2>1. /\ pc = "videos" /\ pc' = "rows" /\ row' = row + 1 /\ row \in DOMAIN table
        /\ previousCategory' = table[row][2] /\ row \in Nat \ {0}
        /\ categoryNumber' = categoryNumber /\ lessonNumber' = lessonNumber + 1
        /\ IsFiniteSet(Above(row)) /\ categoryNumber = Cardinality(Above(row))
        /\ lessonNumber = Cardinality(Before(row))
    BY <1>0, <1>4 DEF RowDone, NumbersInv, PlaceInv, InRow, TypeOK, category
  <2>2. CategoriesBefore(row)' = CategoriesBefore(row + 1)
    BY <1>1, <2>1 DEF CategoriesBefore
  <2>3. /\ IsFiniteSet(CategoriesBefore(row + 1))
        /\ Cardinality(CategoriesBefore(row + 1)) = Cardinality(Above(row)) + 1
        /\ Cardinality({j \in 1 .. (row + 1) - 1 : table[j][2] = table[row][2]})
             = Cardinality(Before(row)) + 1
    BY <1>0, <2>1, NextPlace
  <2>4. {j \in 1 .. row' - 1 : table'[j][2] = previousCategory'}
          = {j \in 1 .. (row + 1) - 1 : table[j][2] = table[row][2]}
    BY <1>1, <2>1
  <2>5. previousCategory' = IF row' = 1 THEN None ELSE table'[row' - 1][2]
    BY <1>1, <2>1
  <2>6. lessonNumber' = Cardinality({j \in 1 .. row' - 1 : table'[j][2] = previousCategory'})
    BY <2>1, <2>3, <2>4
  <2>7. IsFiniteSet(CategoriesBefore(row)')
        /\ categoryNumber' + 1 = Cardinality(CategoriesBefore(row)')
    BY <2>1, <2>2, <2>3
  <2> QED BY <2>1, <2>5, <2>6, <2>7 DEF NumbersInv, InRow
<1>5. CASE /\ UNCHANGED <<table, row, categoryNumber, lessonNumber, previousCategory>>
           /\ pc' = pc \/ (pc \in InRow /\ pc' \in InRow)
  <2>1. Above(row)' = Above(row) /\ Before(row)' = Before(row)
        /\ CategoriesBefore(row)' = CategoriesBefore(row)
    BY <1>5 DEF Above, Before, CategoriesBefore
  <2> QED BY <1>5, <2>1 DEF NumbersInv, InRow
<1>6. CASE pc' \in {"grade", "done", "raised"}
  BY <1>6 DEF NumbersInv, InRow
<1>7. CASE NextRow /\ Len(table[row]) # 2
  BY <1>6, <1>7, Zenon DEF NextRow, Raise
<1>8. CASE videosListById
  <2>1. /\ UNCHANGED <<table, row, categoryNumber, lessonNumber, previousCategory>>
        /\ pc = "videos" /\ pc' \in {"videos", "category", "raised"}
    BY <1>8, Zenon DEF videosListById, Raise
  <2> QED BY <1>5, <1>6, <2>1 DEF InRow
<1>9. CASE SetCategory \/ SetLesson \/ SetVideo
  BY <1>5, <1>9 DEF SetCategory, SetLesson, SetVideo, InRow
<1>10. CASE Start \/ Finish \/ Crash
  BY <1>6, <1>10 DEF Start, Finish, Crash, Raise
<1>11. CASE UNCHANGED vars
  BY <1>5, <1>11 DEF vars
<1> QED BY <1>2, <1>3, <1>4, <1>7, <1>8, <1>9, <1>10, <1>11 DEF Next

-----------------------------------------------------------------------------
(* The theorems.                                                           *)

\* The inductive invariant: the place on the page and what is known of the
\* video being uploaded, besides the six properties (Education Network
\* Finder.py, the loop over the rows with getVideos and uploadToFirestore).
THEOREM Invariant == Spec => []IInv
<1>1. Init => IInv
  BY TypeInit, TreeInit, ShortInit, LessonsInit, OfferedInit, NumbersInit DEF IInv
<1>2. IInv /\ [Next]_vars => IInv'
  BY TypeNext, TreeNext, ShortNext, LessonsNext, OfferedNext, FollowsStep, NumbersStep DEF IInv
<1> QED BY <1>1, <1>2, PTL DEF Spec

\* The page, the numbers, the search and the documents stay in their types,
\* and what a run was offered are paths of its page (Education Network
\* Finder.py).
THEOREM FinderTypes == Spec => []TypeOK
<1>1. IInv => TypeOK
  BY DEF IInv
<1> QED BY <1>1, Invariant, PTL

\* The documents are a tree wherever runs have stopped: no call of
\* uploadToFirestore is made before the one for the document above.
THEOREM TreeCorrect == Spec => []DocumentsAreATree
<1>1. IInv => DocumentsAreATree
  BY DEF IInv
<1> QED BY <1>1, Invariant, PTL

\* categoryNumber and lessonNumber are the places on the page, whatever runs
\* stopped and whatever the searches answered.
THEOREM NumbersCorrect == Spec => []NumbersFollowThePage
<1>1. IInv => NumbersFollowThePage
  BY DEF IInv
<1> QED BY <1>1, Invariant, PTL

\* The duration computed from the parts ISO 8601 keeps is the video's, and
\* only videos of ten minutes or less are written.
THEOREM ShortCorrect == Spec => []OnlyShortVideos
<1>1. IInv => OnlyShortVideos
  BY DEF IInv
<1> QED BY <1>1, Invariant, PTL

\* As long as no run has raised, a lesson of the database has a video.
THEOREM LessonsCorrect == Spec => []LessonsHaveVideos
<1>1. IInv => LessonsHaveVideos
  BY DEF IInv, LessonsInv, LessonsHaveVideos
<1> QED BY <1>1, Invariant, PTL

\* A run that came to its end has written every short video it was offered.
THEOREM CompleteCorrect == Spec => []FinishedRunIsComplete
<1>1. IInv => FinishedRunIsComplete
  BY DEF IInv, OfferedInv, FinishedRunIsComplete, Short
<1> QED BY <1>1, Invariant, PTL
=============================================================================
