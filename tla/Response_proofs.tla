---------------------------- MODULE Response_proofs ----------------------------
(***************************************************************************)
(* Proofs about the accumulator of a request that is not streamed, in      *)
(* Response, for all texts, tags, requests and estimates of tokens: the    *)
(* budget is kept but for what is released at the end, the cuts of         *)
(* upstream's text do not show, and stop sequences are found and end the   *)
(* text where they first occur.                                            *)
(***************************************************************************)
EXTENDS Response, Iteration, SequenceTheorems, TLAPS

-----------------------------------------------------------------------------
(* Texts *)

Text == Seq(Units)

(* What is cut off a text is a text. *)
LEMMA Cut ==
  ASSUME NEW s \in Text, NEW n \in 0 .. Len(s)
  PROVE  /\ First(s, n) \in Text /\ Len(First(s, n)) = n
         /\ From(s, n) \in Text /\ Len(From(s, n)) = Len(s) - n
<1>1. Len(s) \in Nat /\ \A i \in 1 .. Len(s) : s[i] \in Units
  BY DEF Text
<1>2. First(s, n) \in Text /\ Len(First(s, n)) = n
  <2>1. n \in Nat /\ \A i \in 1 .. n : s[i] \in Units
    BY <1>1
  <2>2. /\ SubSeq(s, 1, n) \in Seq(Units)
        /\ Len(SubSeq(s, 1, n)) = IF 1 <= n THEN n - 1 + 1 ELSE 0
    BY <2>1, SubSeqProperties, 1 \in Int, n \in Int
  <2> QED BY <2>1, <2>2 DEF First, Text
<1>3. From(s, n) \in Text /\ Len(From(s, n)) = Len(s) - n
  <2>1. n + 1 \in Int /\ Len(s) \in Int /\ \A i \in n + 1 .. Len(s) : s[i] \in Units
    BY <1>1
  <2>2. /\ SubSeq(s, n + 1, Len(s)) \in Seq(Units)
        /\ Len(SubSeq(s, n + 1, Len(s)))
              = IF n + 1 <= Len(s) THEN Len(s) - (n + 1) + 1 ELSE 0
    BY <2>1, SubSeqProperties
  <2>3. n <= Len(s) /\ (n + 1 <= Len(s) \/ n = Len(s))
    BY <1>1
  <2> QED BY <1>1, <2>2, <2>3 DEF From, Text
<1> QED BY <1>2, <1>3

(* Where a text occurs there is room for it. *)
LEMMA OccursInside ==
  ASSUME NEW s \in Text, NEW p \in Text, Occurrences(s, p) # {}
  PROVE  /\ Min(Occurrences(s, p)) \in 0 .. Len(s)
         /\ Min(Occurrences(s, p)) + Len(p) \in 0 .. Len(s)
<1>1. Len(s) \in Nat /\ Len(p) \in Nat
  BY DEF Text
<1>2. Occurrences(s, p) \subseteq 0 .. Len(s) - Len(p)
  BY DEF Occurrences
<1>3. Min(Occurrences(s, p)) \in Occurrences(s, p)
  <2>1. Occurrences(s, p) \subseteq Nat
    BY <1>1, <1>2
  <2> QED BY <2>1, MinOf
<1> QED BY <1>1, <1>2, <1>3

(* An overlap is no longer than the text. *)
LEMMA OverlapInside ==
  ASSUME NEW s \in Text, NEW p \in Text \ {<<>>}
  PROVE  Overlap(s, p) \in 0 .. Len(s)
<1> DEFINE b == Smaller(Len(s), Len(p) - 1)
           T == {n \in 0 .. b : From(s, Len(s) - n) = First(p, n)}
<1>1. Len(s) \in Nat /\ Len(p) \in Nat /\ Len(p) # 0
  BY DEF Text
<1>2. b \in Nat /\ b <= Len(s)
  BY <1>1 DEF Smaller
<1>3. From(s, Len(s) - 0) = First(p, 0)
  <2>1. SubSeq(s, Len(s) - 0 + 1, Len(s)) = <<>>
    <3>1. Len(s) - 0 + 1 \in Int /\ Len(s) \in Int /\ Len(s) < Len(s) - 0 + 1
      BY <1>1
    <3> QED BY <3>1, SubSeqEmpty
  <2>2. SubSeq(p, 1, 0) = <<>>
    BY SubSeqEmpty, 0 \in Int, 1 \in Int, 0 < 1
  <2> QED BY <2>1, <2>2 DEF From, First
<1>4. 0 \in T
  BY <1>2, <1>3
<1>5. T \subseteq 0 .. b /\ T # {}
  BY <1>4
<1>6. Max(T) \in T
  BY <1>2, <1>5, MaxOf
<1>7. Max(T) \in 0 .. b
  BY <1>5, <1>6
<1>8. Overlap(s, p) = Max(T)
  BY DEF Overlap
<1> QED BY <1>1, <1>2, <1>7, <1>8

(* What upstream adds to its text is what the accumulator takes of it. *)
LEMMA DeltaIsPiece ==
  ASSUME NEW s \in Text, NEW piece \in Text
  PROVE  ComputeDelta(s \o piece, s) = piece
<1>1. CASE s = <<>>
  BY <1>1, ConcatEmptySeq DEF ComputeDelta, Text
<1>2. CASE s # <<>>
  <2>1. s \o piece \in Text /\ Len(s \o piece) = Len(s) + Len(piece)
        /\ Len(s) \in Nat /\ Len(piece) \in Nat
    BY DEF Text
  <2>2. SubSeq(s \o piece, 1, Len(s)) = s
    <3>1. 1 \in 1 .. Len(s) /\ Len(s) \in 1 .. Len(s)
      BY <1>2, <2>1 DEF Text
    <3>2. SubSeq(s \o piece, 1, Len(s)) = SubSeq(s, 1, Len(s))
      BY <3>1, SubSeqOfConcat1 DEF Text
    <3> QED BY <3>2, SubSeqFull DEF Text
  <2>3. IsPrefix(s, s \o piece)
    BY <2>1, <2>2, SubSeqFull DEF IsPrefix, Text
  <2>4. From(s \o piece, Len(s)) = piece
    <3>1. CASE piece = <<>>
      <4>1. s \o piece = s
        BY <3>1, ConcatEmptySeq DEF Text
      <4>2. SubSeq(s, Len(s) + 1, Len(s)) = <<>>
        BY <2>1, SubSeqEmpty
      <4> QED BY <3>1, <4>1, <4>2 DEF From
    <3>2. CASE piece # <<>>
      <4> DEFINE n == Len(s)
                 k == Len(piece)
      <4>1. k # 0
        BY <3>2 DEF Text
      <4>2. /\ n + 1 \in n + 1 .. n + k
            /\ n + k \in n + 1 .. n + k
            /\ n + 1 - n = 1 /\ n + k - n = k
        BY <2>1, <4>1
      <4>3. SubSeq(s \o piece, n + 1, n + k) = SubSeq(piece, n + 1 - n, n + k - n)
        BY <4>2, SubSeqOfConcat2 DEF Text
      <4>4. SubSeq(piece, 1, k) = piece
        BY SubSeqFull DEF Text
      <4> QED BY <2>1, <4>2, <4>3, <4>4 DEF From
    <3> QED BY <3>1, <3>2
  <2>5. ~IsStrictPrefix(s \o piece, s)
    <3>1. SUFFICES ASSUME Len(s \o piece) <= Len(s)
                   PROVE  s \o piece = s
      BY DEF IsStrictPrefix, IsPrefix
    <3>2. piece = <<>>
      BY <2>1, <3>1 DEF Text
    <3> QED BY <3>2, ConcatEmptySeq DEF Text
  <2> HIDE DEF Text
  <2> QED BY <1>2, <2>3, <2>4, <2>5 DEF ComputeDelta
<1> QED BY <1>1, <1>2

-----------------------------------------------------------------------------
(* The operators of the accumulator keep its type. *)

(* What an accumulator may be, *)
Accumulators ==
  [inside : BOOLEAN, tagBuf : Text, suppress : BOOLEAN, pending : Text,
   stop : {"none", "stop_sequence", "max_tokens"}, matched : Text, count : Nat,
   text : Text, thinking : Text]

(* and what the parser works on *)
Parses == [text : Text, thinking : Text, tagBuf : Text, inside : BOOLEAN, seen : BOOLEAN]

(* Tags are texts of more than a unit, and upstream sends texts: thinking   *)
(* in units of its own.                                                    *)
LEMMA TagsType ==
  /\ OpenTag \in Text /\ Len(OpenTag) > 1 /\ OpenTag # <<>>
  /\ CloseTag \in Text /\ Len(CloseTag) > 1 /\ CloseTag # <<>>
  /\ \A t \in Pieces \cup Thoughts : t \in Text
<1>1. ThoughtUnits \subseteq Units
  BY DEF ThoughtUnits, Units, Texts
<1>2. \A t \in Pieces \cup Thoughts : t \in Seq(Units)
  <2>1. ASSUME NEW t \in Pieces PROVE t \in Seq(Units)
    <3>1. t \in Seq(Units \ ThoughtUnits)
      BY AccumulatorAssumption
    <3> QED BY <3>1
  <2>2. ASSUME NEW t \in Thoughts PROVE t \in Seq(Units)
    <3>1. t \in Seq(ThoughtUnits)
      BY AccumulatorAssumption
    <3> QED BY <1>1, <3>1
  <2> QED BY <2>1, <2>2
<1>3. \A t \in {OpenTag, CloseTag} : t \in Seq(Units) /\ Len(t) > 1
  BY AccumulatorAssumption
<1>4. Len(<<>>) = 0
  OBVIOUS
<1> QED BY <1>2, <1>3, <1>4 DEF Text

(* A round of the parser, *)
LEMMA RoundType ==
  ASSUME NEW p \in Parses
  PROVE  ParseRound(p) \in Parses
<1> DEFINE tag == IF p.inside THEN CloseTag ELSE OpenTag
           found == Occurrences(p.tagBuf, tag)
           i == IF found # {} THEN Min(found) ELSE Len(p.tagBuf) - Partial(p.tagBuf, tag)
           j == IF found # {} THEN i + Len(tag) ELSE i
<1>1. p.tagBuf \in Text /\ p.text \in Text /\ p.thinking \in Text
      /\ p.inside \in BOOLEAN /\ p.seen \in BOOLEAN
  BY DEF Parses
<1>2. tag \in Text \ {<<>>}
  BY TagsType
<1>3. i \in 0 .. Len(p.tagBuf) /\ j \in 0 .. Len(p.tagBuf)
  <2>1. CASE found # {}
    BY <1>1, <1>2, <2>1, OccursInside
  <2>2. CASE found = {}
    <3>1. Overlap(p.tagBuf, tag) \in 0 .. Len(p.tagBuf) /\ Len(p.tagBuf) \in Nat
      BY <1>1, <1>2, OverlapInside DEF Text
    <3> QED BY <2>2, <3>1 DEF Partial
  <2> QED BY <2>1, <2>2
<1> HIDE DEF i, j, tag
<1>4. First(p.tagBuf, i) \in Text /\ From(p.tagBuf, j) \in Text
  BY <1>1, <1>3, Cut
<1>5. p.text \o First(p.tagBuf, i) \in Text /\ p.thinking \o First(p.tagBuf, i) \in Text
  BY <1>1, <1>4, ConcatProperties DEF Text
<1>6. ParseRound(p) =
        [text     |-> IF p.inside THEN p.text ELSE p.text \o First(p.tagBuf, i),
         thinking |-> IF p.inside THEN p.thinking \o First(p.tagBuf, i) ELSE p.thinking,
         tagBuf   |-> From(p.tagBuf, j),
         inside   |-> p.inside # (found # {}),
         seen     |-> p.seen \/ (found # {} /\ ~p.inside)]
  BY DEF ParseRound, i, j, tag
<1> QED BY <1>1, <1>4, <1>5, <1>6 DEF Parses

(* and so all of them, however many. *)
ParseStart(a, delta) ==
  [text |-> <<>>, thinking |-> <<>>, tagBuf |-> a.tagBuf \o delta, inside |-> a.inside, seen |-> FALSE]

(* f is the parser's rounds, from its start. *)
IsParse(a, delta, f) ==
  /\ f \in [Nat -> Parses]
  /\ f[0] = ParseStart(a, delta)
  /\ \A n \in Nat : f[n + 1] = ParseRound(f[n])
  /\ ParseThinkingTags(a, delta) = f[Len(a.tagBuf \o delta)]

(* There are such rounds. *)
LEMMA ParseRounds ==
  ASSUME NEW a, a.tagBuf \in Text, a.inside \in BOOLEAN, NEW delta \in Text
  PROVE  \E f : IsParse(a, delta, f)
<1> DEFINE whole == a.tagBuf \o delta
           start == ParseStart(a, delta)
           Loop(f) == f = [n \in Nat |-> IF n = 0 THEN start ELSE ParseRound(f[n - 1])]
           step == [p \in Parses |-> ParseRound(p)]
<1>1. whole \in Text /\ Len(whole) \in Nat
  BY ConcatProperties DEF Text
<1>2. start \in Parses
  BY <1>1 DEF Parses, Text, ParseStart
<1>3. step \in [Parses -> Parses]
  BY RoundType
<1> HIDE DEF whole, start
<1>4. PICK g : Iterates(Parses, step, start, g)
  <2> HIDE DEF step
  <2> QED BY <1>2, <1>3, IteratesExist
<1>5. Loop(g)
  <2>1. ASSUME NEW n \in Nat
        PROVE  g[n] = IF n = 0 THEN start ELSE ParseRound(g[n - 1])
    <3>1. CASE n # 0
      <4>1. n - 1 \in Nat /\ (n - 1) + 1 = n
        BY <3>1
      <4>2. g[n] = step[g[n - 1]] /\ g[n - 1] \in Parses
        BY <1>4, <4>1 DEF Iterates
      <4> QED BY <3>1, <4>2
    <3> QED BY <1>4, <3>1 DEF Iterates
  <2>2. g = [n \in Nat |-> g[n]]
    BY <1>4 DEF Iterates
  <2> HIDE DEF start
  <2> QED BY <2>1, <2>2
<1> DEFINE f == CHOOSE h : Loop(h)
<1>6. Loop(f)
  <2> HIDE DEF Loop
  <2> QED BY <1>5
<1> DEFINE Good == {n \in Nat : f[n] \in Parses}
<1> HIDE DEF f
<1>7. 0 \in Good
  BY <1>2, <1>6
<1>8. ASSUME NEW n \in Nat, n \in Good
      PROVE  n + 1 \in Good
  <2>1. f[n + 1] = ParseRound(f[n])
    <3>1. n + 1 \in Nat /\ n + 1 # 0 /\ (n + 1) - 1 = n
      OBVIOUS
    <3> QED BY <3>1, <1>6
  <2> QED BY <1>8, <2>1, RoundType
<1>9. Nat \subseteq Good
  <2> HIDE DEF Good
  <2> QED BY <1>7, <1>8, Induction
<1>10. \A n \in Nat : f[n + 1] = ParseRound(f[n])
  <2>1. ASSUME NEW n \in Nat PROVE f[n + 1] = ParseRound(f[n])
    <3>1. n + 1 \in Nat /\ n + 1 # 0 /\ (n + 1) - 1 = n
      OBVIOUS
    <3> QED BY <3>1, <1>6
  <2> QED BY <2>1
<1>11. f \in [Nat -> Parses]
  <2>1. f = [n \in Nat |-> f[n]]
    BY <1>6
  <2>2. \A n \in Nat : f[n] \in Parses
    BY <1>9
  <2> QED BY <2>1, <2>2
<1>12. f[0] = start
  BY <1>6
<1>13. ParseThinkingTags(a, delta) = f[Len(whole)]
  BY DEF ParseThinkingTags, f, whole, start, ParseStart
<1> QED BY <1>10, <1>11, <1>12, <1>13 DEF IsParse, whole, start

(* What they end in has the parser's type. *)
LEMMA ParseType ==
  ASSUME NEW a, a.tagBuf \in Text, a.inside \in BOOLEAN, NEW delta \in Text
  PROVE  ParseThinkingTags(a, delta) \in Parses
<1>1. PICK f : IsParse(a, delta, f)
  BY ParseRounds
<1>2. Len(a.tagBuf \o delta) \in Nat
  BY ConcatProperties DEF Text
<1> QED BY <1>1, <1>2 DEF IsParse

(* The greatest of the lengths held back *)
LEMMA KeepType ==
  ASSUME request \in ModelRequests
  PROVE  /\ Keep \in Nat
         /\ \A i \in DOMAIN request.stops :
              request.stops[i] \in Text \ {<<>>} /\ Len(request.stops[i]) - 1 <= Keep
<1> DEFINE len(i) == Len(request.stops[i]) - 1
           T == {0} \cup {len(i) : i \in DOMAIN request.stops}
           m == Len(request.stops)
           Bounded == {n \in Nat : \E b \in Nat : \A i \in 1 .. m : i <= n => len(i) <= b}
<1>1. /\ m \in Nat /\ DOMAIN request.stops = 1 .. m
      /\ \A i \in 1 .. m : len(i) \in Nat
  <2>1. request.stops \in Seq(Seq(Units) \ {<<>>})
    BY AccumulatorAssumption
  <2>2. ASSUME NEW i \in 1 .. m
        PROVE  len(i) \in Nat
    <3>1. request.stops[i] \in Seq(Units) /\ request.stops[i] # <<>>
      BY <2>1
    <3>2. Len(request.stops[i]) \in Nat /\ Len(request.stops[i]) # 0
      BY <3>1
    <3> QED BY <3>2
  <2> QED BY <2>1, <2>2
<1> HIDE DEF len, m
<1>2. 0 \in Bounded
  BY <1>1
<1>3. ASSUME NEW n \in Nat, n \in Bounded
      PROVE  n + 1 \in Bounded
  <2>1. PICK b \in Nat : \A i \in 1 .. m : i <= n => len(i) <= b
    BY <1>3
  <2>2. CASE n + 1 \in 1 .. m
    <3> DEFINE c == IF b < len(n + 1) THEN len(n + 1) ELSE b
    <3>1. c \in Nat /\ b <= c /\ len(n + 1) <= c
      BY <1>1, <2>2
    <3>2. ASSUME NEW i \in 1 .. m, i <= n + 1
          PROVE  len(i) <= c
      <4>1. CASE i = n + 1
        BY <3>1, <4>1
      <4>2. CASE i # n + 1
        <5>1. i <= n
          BY <3>2, <4>2
        <5>2. len(i) <= b /\ len(i) \in Nat
          BY <1>1, <2>1, <5>1
        <5> QED BY <3>1, <5>2
      <4> QED BY <4>1, <4>2
    <3> QED BY <3>1, <3>2
  <2>3. CASE n + 1 \notin 1 .. m
    BY <1>1, <2>1, <2>3
  <2> QED BY <2>2, <2>3
<1>4. m \in Bounded
  <2> HIDE DEF Bounded
  <2> QED BY <1>1, <1>2, <1>3, Induction
<1>5. PICK b \in Nat : \A i \in 1 .. m : len(i) <= b
  BY <1>1, <1>4
<1>6. T \subseteq 0 .. b /\ T # {}
  BY <1>1, <1>5
<1>7. Max(T) \in T /\ \A y \in T : Max(T) >= y
  <2> HIDE DEF T
  <2> QED BY <1>5, <1>6, MaxOf
<1>8. Keep = Max(T)
  BY DEF Keep, len
<1>9. ASSUME NEW i \in DOMAIN request.stops
      PROVE  request.stops[i] \in Text \ {<<>>} /\ Len(request.stops[i]) - 1 <= Keep
  <2>1. len(i) <= Max(T)
    <3>1. len(i) \in T /\ len(i) \in Nat
      BY <1>1
    <3>2. Max(T) \in 0 .. b
      BY <1>6, <1>7
    <3> HIDE DEF T
    <3> QED BY <1>5, <1>7, <3>1, <3>2
  <2>2. request.stops \in Seq(Seq(Units) \ {<<>>})
    BY AccumulatorAssumption
  <2>3. request.stops[i] \in Text \ {<<>>}
    BY <2>2 DEF Text
  <2> HIDE DEF T
  <2> QED BY <1>8, <2>1, <2>3 DEF len
<1>10. Keep \in Nat
  BY <1>6, <1>7, <1>8
<1> QED BY <1>9, <1>10

(* The filter for stop sequences only holds back, or stops. *)
LEMMA FilterType ==
  ASSUME request \in ModelRequests, NEW a \in Accumulators, NEW delta \in Text
  PROVE  LET f == ApplyStopSequenceFilter(a, delta)
         IN /\ f.out \in Text
            /\ \E p, q \in Text :
                  \/ f.acc = [a EXCEPT !.pending = p]
                  \/ f.acc = [a EXCEPT !.pending = p, !.stop = "stop_sequence", !.matched = q]
<1> DEFINE pending == a.pending \o delta
           hits == {i \in DOMAIN request.stops : Occurrences(pending, request.stops[i]) # {}}
           n == Max({0, Len(pending) - Keep})
           s == request.stops[Min(hits)]
           f == ApplyStopSequenceFilter(a, delta)
<1>1. pending \in Text /\ Len(pending) \in Nat
  <2>1. a.pending \in Text
    BY DEF Accumulators
  <2> QED BY <2>1, ConcatProperties DEF Text
<1>2. request.stops \in Seq(Seq(Units) \ {<<>>})
  BY AccumulatorAssumption
<1>3. CASE hits # {}
  <2>1. Min(hits) \in hits
    <3>1. hits \subseteq Nat
      BY <1>2
    <3> QED BY <1>3, <3>1, MinOf
  <2>2. s \in Text /\ Occurrences(pending, s) # {}
    <3>1. Min(hits) \in DOMAIN request.stops /\ Occurrences(pending, s) # {}
      BY <2>1
    <3>2. \A i \in DOMAIN request.stops : request.stops[i] \in Seq(Units)
      BY <1>2
    <3> QED BY <3>1, <3>2 DEF Text
  <2>3. Min(Occurrences(pending, s)) \in 0 .. Len(pending)
    BY <1>1, <2>2, OccursInside
  <2>4. First(pending, Min(Occurrences(pending, s))) \in Text
    BY <1>1, <2>3, Cut
  <2>5. f = [acc |-> [a EXCEPT !.pending = <<>>, !.stop = "stop_sequence", !.matched = s],
             out |-> First(pending, Min(Occurrences(pending, s)))]
    BY <1>3 DEF ApplyStopSequenceFilter
  <2>6. <<>> \in Text
    BY DEF Text
  <2> HIDE DEF s, pending, hits, f
  <2>7. f.out \in Text /\ f.acc = [a EXCEPT !.pending = <<>>, !.stop = "stop_sequence", !.matched = s]
    BY <2>4, <2>5
  <2>8. \E p, q \in Text : f.acc = [a EXCEPT !.pending = p, !.stop = "stop_sequence", !.matched = q]
    BY <2>2, <2>6, <2>7
  <2> QED BY <2>7, <2>8 DEF f
<1>4. CASE hits = {}
  <2>1. n \in 0 .. Len(pending)
    <3>1. Keep \in Nat /\ Len(pending) - Keep \in Int
      BY <1>1, KeepType
    <3>2. n = IF Len(pending) - Keep > 0 THEN Len(pending) - Keep ELSE 0
      BY <3>1, MaxOfTwo
    <3> QED BY <1>1, <3>1, <3>2
  <2>2. First(pending, n) \in Text /\ From(pending, n) \in Text
    BY <1>1, <2>1, Cut
  <2>3. f = [acc |-> [a EXCEPT !.pending = From(pending, n)], out |-> First(pending, n)]
    BY <1>4 DEF ApplyStopSequenceFilter
  <2> HIDE DEF n, pending, hits, f
  <2>4. f.out \in Text /\ f.acc = [a EXCEPT !.pending = From(pending, n)]
    BY <2>2, <2>3
  <2>5. \E p \in Text : f.acc = [a EXCEPT !.pending = p]
    BY <2>2, <2>4
  <2> QED BY <2>4, <2>5 DEF f
<1> QED BY <1>3, <1>4

-----------------------------------------------------------------------------
(* The budget *)

(* As many units as the budget allows *)
Most == request.budget * RunesPerToken

(* The estimate of tokens stays under the budget as long as the units stay *)
(* under as many as the budget allows.                                     *)
LEMMA TokensBelow ==
  ASSUME request \in ModelRequests, NEW n \in Nat
  PROVE  /\ request.budget \in Nat /\ Most \in Nat
         /\ n \div RunesPerToken < request.budget <=> n < Most
<1> DEFINE r == RunesPerToken
           b == request.budget
           q == n \div r
<1>1. r \in Nat /\ r > 0 /\ b \in Nat
  BY AccumulatorAssumption
<1>2. q \in Nat /\ q * r <= n /\ n < q * r + r
  BY <1>1
<1>3. b * r \in Nat
  BY <1>1
<1>4. q < b => n < b * r
  BY <1>1, <1>2
<1>5. ~(q < b) => ~(n < b * r)
  BY <1>1, <1>2
<1> QED BY <1>1, <1>3, <1>4, <1>5 DEF Most

(* r is a, charged for n units: what stays under the budget, or reaches it *)
(* exactly and stops.                                                      *)
Charged(a, r, n) ==
  \E c \in Nat :
    \/ /\ r = [a EXCEPT !.count = c]
       /\ request.budget > 0 => c = a.count + n /\ c < Most
    \/ /\ r = [a EXCEPT !.count = c, !.stop = "max_tokens"]
       /\ a.count < Most => c = a.count + n /\ c = Most

(* That is what the budget does. *)
LEMMA BudgetCharges ==
  ASSUME request \in ModelRequests, NEW a \in Accumulators, NEW delta \in Text
  PROVE  LET b == ApplyMaxTokensBudget(a, delta)
         IN b.out \in Text /\ Charged(a, b.acc, Len(b.out))
<1> DEFINE total == a.count + Len(delta)
           room == Max({0, Most - a.count})
           b == ApplyMaxTokensBudget(a, delta)
<1>1. a.count \in Nat /\ Len(delta) \in Nat /\ total \in Nat
  BY DEF Accumulators, Text
<1>2. /\ request.budget \in Nat /\ Most \in Nat
      /\ total \div RunesPerToken < request.budget <=> total < Most
  <2> HIDE DEF total
  <2> QED BY <1>1, TokensBelow
<1>3. CASE request.budget = 0 \/ total < Most
  <2>1. b = [acc |-> [a EXCEPT !.count = total], out |-> delta]
    BY <1>2, <1>3 DEF ApplyMaxTokensBudget
  <2>2. b.out = delta /\ b.acc = [a EXCEPT !.count = total]
    BY <2>1
  <2> HIDE DEF b
  <2>3. Charged(a, b.acc, Len(b.out))
    <3>1. request.budget > 0 => total = a.count + Len(b.out) /\ total < Most
      BY <1>2, <1>3, <2>2
    <3>2. total \in Nat
      BY <1>1
    <3> HIDE DEF total
    <3> QED BY <2>2, <3>1, <3>2 DEF Charged
  <2> QED BY <2>2, <2>3 DEF b
<1>4. CASE request.budget # 0 /\ ~(total < Most)
  <2>1. room = IF Most - a.count > 0 THEN Most - a.count ELSE 0
    <3>1. Most - a.count \in Int
      BY <1>1, <1>2
    <3> QED BY <3>1, MaxOfTwo
  <2>2. room \in 0 .. Len(delta) /\ (a.count < Most => a.count + room = Most)
    <3> HIDE DEF room
    <3> QED BY <1>1, <1>2, <1>4, <2>1
  <2>3. b = [acc |-> [a EXCEPT !.count = @ + room, !.stop = "max_tokens"], out |-> First(delta, room)]
    BY <1>2, <1>4 DEF ApplyMaxTokensBudget, Most
  <2> HIDE DEF room
  <2>4. First(delta, room) \in Text /\ Len(First(delta, room)) = room
    BY <2>2, Cut
  <2>5. /\ b.out = First(delta, room)
        /\ b.acc = [a EXCEPT !.count = a.count + room, !.stop = "max_tokens"]
    BY <2>3
  <2> HIDE DEF b
  <2>6. a.count + room \in Nat
    BY <1>1, <2>2
  <2>7. Charged(a, b.acc, Len(b.out))
    BY <2>2, <2>4, <2>5, <2>6 DEF Charged
  <2> QED BY <2>4, <2>5, <2>7 DEF b
<1> QED BY <1>3, <1>4

-----------------------------------------------------------------------------
(* What the accumulator has emitted, with the units of tool input *)
Emitted(a, n) == Len(a.text) + Len(a.thinking) + n

(* While nothing has stopped the answer, what is emitted is counted and     *)
(* stays under the budget.                                                  *)
Within(a, n) == request.budget > 0 /\ a.stop = "none" => a.count = Emitted(a, n) /\ a.count < Most

(* An answer of text alone stops at exactly the budget. *)
Exact(a, n) ==
  request.budget > 0 /\ a.stop = "max_tokens" /\ a.thinking = <<>> /\ n = 0 => Len(a.text) = Most

(* Charging changes the count, and may stop the answer. *)
LEMMA ChargedType ==
  ASSUME NEW a \in Accumulators, NEW r, NEW n, Charged(a, r, n)
  PROVE  /\ r \in Accumulators
         /\ r.stop \in {a.stop, "max_tokens"}
         /\ r.text = a.text /\ r.thinking = a.thinking
         /\ r.pending = a.pending /\ r.matched = a.matched
BY DEF Charged, Accumulators

(* More thinking stays within the budget, and an answer it stops has some. *)
LEMMA MoreThinking ==
  ASSUME request \in ModelRequests, NEW a \in Accumulators, NEW n \in Nat, NEW delta \in Text
  PROVE  LET r == AccumulateThinking(a, delta)
         IN /\ r \in Accumulators
            /\ r.stop \in {a.stop, "max_tokens"}
            /\ Within(a, n) => Within(r, n)
            /\ a.stop = "none" /\ Within(a, n) => Exact(r, n)
            /\ request.budget > 0 /\ a.stop = "none" /\ r.stop # "none" /\ Within(a, n) => r.thinking # <<>>
<1> DEFINE b == ApplyMaxTokensBudget(a, delta)
           r == AccumulateThinking(a, delta)
<1>1. CASE delta = <<>>
  <2>1. r = a
    BY <1>1 DEF AccumulateThinking
  <2> QED BY <2>1 DEF Exact
<1>2. CASE delta # <<>>
  <2>1. b.out \in Text /\ Charged(a, b.acc, Len(b.out))
    BY BudgetCharges
  <2>2. r = [b.acc EXCEPT !.thinking = @ \o b.out]
    BY <1>2 DEF AccumulateThinking
  <2> HIDE DEF b
  <2>3. /\ b.acc \in Accumulators
        /\ b.acc.stop \in {a.stop, "max_tokens"}
        /\ b.acc.text = a.text /\ b.acc.thinking = a.thinking
    BY <2>1, ChargedType
  <2>4. /\ a.thinking \in Text /\ a.thinking \o b.out \in Text
        /\ Len(a.thinking \o b.out) = Len(a.thinking) + Len(b.out)
        /\ Len(a.thinking) \in Nat /\ Len(b.out) \in Nat /\ Len(a.text) \in Nat
    <3>1. a.thinking \in Text /\ a.text \in Text
      BY DEF Accumulators
    <3> QED BY <2>1, <3>1, ConcatProperties DEF Text
  <2>5. /\ r \in Accumulators
        /\ r.thinking = a.thinking \o b.out /\ r.text = a.text
        /\ r.stop = b.acc.stop /\ r.count = b.acc.count
    <3>1. r.thinking = a.thinking \o b.out /\ r.text = a.text
          /\ r.stop = b.acc.stop /\ r.count = b.acc.count
      BY <2>2, <2>3 DEF Accumulators
    <3>2. r = [b.acc EXCEPT !.thinking = a.thinking \o b.out]
      BY <2>2, <2>3
    <3>3. r \in Accumulators
      BY <2>3, <2>4, <3>2 DEF Accumulators
    <3> QED BY <3>1, <3>3
  <2> HIDE DEF r
  <2>6. ASSUME request.budget > 0, a.stop = "none", Within(a, n)
        PROVE  /\ Within(r, n) /\ Exact(r, n)
               /\ r.stop # "none" => r.thinking # <<>>
    <3>1. a.count = Emitted(a, n) /\ a.count < Most
      BY <2>6 DEF Within
    <3>2. a.count \in Nat /\ Most \in Nat
      BY TokensBelow DEF Accumulators
    <3>3. PICK c \in Nat :
            \/ /\ b.acc = [a EXCEPT !.count = c]
               /\ c = a.count + Len(b.out) /\ c < Most
            \/ /\ b.acc = [a EXCEPT !.count = c, !.stop = "max_tokens"]
               /\ c = a.count + Len(b.out) /\ c = Most
      BY <2>1, <2>6, <3>1 DEF Charged
    <3>4. r.count = c
      BY <2>5, <3>3 DEF Accumulators
    <3>5. Emitted(r, n) = a.count + Len(b.out)
      <4>1. Len(r.thinking) = Len(a.thinking) + Len(b.out) /\ Len(r.text) = Len(a.text)
        BY <2>4, <2>5
      <4>2. a.count = Len(a.text) + Len(a.thinking) + n
        BY <3>1 DEF Emitted
      <4>3. Len(a.thinking) \in Nat /\ Len(b.out) \in Nat /\ Len(a.text) \in Nat
        BY <2>4
      <4> DEFINE o == Len(b.out)
                 t == Len(a.thinking)
                 x == Len(a.text)
      <4>4. Emitted(r, n) = x + (t + o) + n /\ a.count = x + t + n
        BY <4>1, <4>2 DEF Emitted
      <4>5. o \in Nat /\ t \in Nat /\ x \in Nat
        BY <4>3
      <4> HIDE DEF o, t, x
      <4>6. Emitted(r, n) = a.count + o
        BY <4>4, <4>5
      <4> QED BY <4>6 DEF o
    <3>6. CASE r.stop = "none"
      <4>1. c < Most /\ c = a.count + Len(b.out)
        BY <2>5, <3>3, <3>6 DEF Accumulators
      <4> QED BY <3>4, <3>5, <3>6, <4>1 DEF Within, Exact
    <3>7. CASE r.stop # "none"
      <4>1. c = Most /\ c = a.count + Len(b.out)
        BY <2>5, <2>6, <3>3, <3>7 DEF Accumulators
      <4>2. Len(b.out) > 0
        BY <2>4, <3>1, <3>2, <4>1
      <4>3. Len(r.thinking) > 0
        <5>1. Len(r.thinking) = Len(a.thinking) + Len(b.out)
          BY <2>4, <2>5
        <5>2. Len(a.thinking) \in Nat /\ Len(b.out) \in Nat
          BY <2>4
        <5> DEFINE o == Len(b.out)
                   t == Len(a.thinking)
        <5>3. o > 0 /\ o \in Nat /\ t \in Nat /\ Len(r.thinking) = t + o
          BY <4>2, <5>1, <5>2
        <5> HIDE DEF o, t
        <5> QED BY <5>3
      <4>4. r.thinking # <<>>
        BY <4>3
      <4> QED BY <3>7, <4>4 DEF Within, Exact
    <3> QED BY <3>6, <3>7
  <2>7. ASSUME ~(request.budget > 0 /\ a.stop = "none")
        PROVE  Within(r, n) /\ (a.stop = "none" => Exact(r, n))
    <3>1. r.stop = "none" => a.stop = "none"
      BY <2>3, <2>5
    <3> QED BY <2>7, <3>1 DEF Within, Exact
  <2> QED BY <2>3, <2>5, <2>6, <2>7 DEF r
<1> QED BY <1>1, <1>2

(* An accumulator that emits more text *)
Told(a, more) == [a EXCEPT !.text = @ \o more]

(* Text that is charged for is text within the budget. *)
LEMMA ChargedText ==
  ASSUME request \in ModelRequests, NEW a \in Accumulators, NEW n \in Nat, NEW more \in Text,
         NEW b, Charged(a, b, Len(more))
  PROVE  LET r == Told(b, more)
         IN /\ r \in Accumulators
            /\ r.stop \in {a.stop, "max_tokens"} /\ r.thinking = a.thinking
            /\ Within(a, n) => Within(r, n)
            /\ a.stop = "none" /\ Within(a, n) => Exact(r, n)
<1> DEFINE r == Told(b, more)
<1>1. /\ b \in Accumulators
      /\ b.stop \in {a.stop, "max_tokens"}
      /\ b.text = a.text /\ b.thinking = a.thinking
  BY ChargedType
<1>2. /\ a.text \in Text /\ a.text \o more \in Text
      /\ Len(a.text \o more) = Len(a.text) + Len(more)
  <2>1. a.text \in Text
    BY DEF Accumulators
  <2> QED BY <2>1, ConcatProperties DEF Text
<1>3. /\ r \in Accumulators
      /\ r.text = a.text \o more /\ r.thinking = a.thinking
      /\ r.stop = b.stop /\ r.count = b.count
  BY <1>1, <1>2 DEF Accumulators, Told
<1> HIDE DEF r
<1>4. ASSUME request.budget > 0, a.stop = "none", Within(a, n)
      PROVE  Within(r, n) /\ Exact(r, n)
  <2> DEFINE o == Len(more)
             t == Len(a.thinking)
             x == Len(a.text)
  <2>1. o \in Nat /\ t \in Nat /\ x \in Nat /\ a.count \in Nat /\ Most \in Nat
    BY TokensBelow DEF Accumulators, Text
  <2>2. a.count = x + t + n /\ a.count < Most
    BY <1>4 DEF Within, Emitted
  <2>3. Len(r.text) = x + o /\ Emitted(r, n) = (x + o) + t + n
    BY <1>2, <1>3 DEF Emitted
  <2>4. r.thinking = <<>> => t = 0
    BY <1>3
  <2>5. \/ r.stop = "none" /\ r.count = a.count + o /\ r.count < Most
        \/ r.stop = "max_tokens" /\ a.count + o = Most
    <3>1. PICK c \in Nat :
            \/ b = [a EXCEPT !.count = c] /\ c = a.count + o /\ c < Most
            \/ b = [a EXCEPT !.count = c, !.stop = "max_tokens"] /\ c = a.count + o /\ c = Most
      BY <1>4, <2>2 DEF Charged
    <3> QED BY <1>3, <1>4, <3>1 DEF Accumulators
  <2> HIDE DEF o, t, x
  <2>6. CASE r.stop = "none"
    BY <2>1, <2>2, <2>3, <2>5, <2>6 DEF Within, Exact
  <2>7. CASE r.stop = "max_tokens"
    BY <2>1, <2>2, <2>3, <2>4, <2>5, <2>7 DEF Within, Exact
  <2> QED BY <2>5, <2>6, <2>7
<1>5. ASSUME ~(request.budget > 0 /\ a.stop = "none")
      PROVE  Within(r, n) /\ (a.stop = "none" => Exact(r, n))
  <2>1. r.stop = "none" => a.stop = "none"
    BY <1>1, <1>3
  <2> QED BY <1>5, <2>1 DEF Within, Exact
<1> QED BY <1>1, <1>3, <1>4, <1>5 DEF r

(* The filter for stop sequences counts and emits nothing. *)
LEMMA FilterKeeps ==
  ASSUME request \in ModelRequests, NEW a \in Accumulators, NEW delta \in Text
  PROVE  LET f == ApplyStopSequenceFilter(a, delta)
         IN /\ f.out \in Text
            /\ f.acc \in Accumulators
            /\ f.acc.stop \in {a.stop, "stop_sequence"}
            /\ f.acc.count = a.count /\ f.acc.text = a.text /\ f.acc.thinking = a.thinking
<1> DEFINE f == ApplyStopSequenceFilter(a, delta)
<1>1. /\ f.out \in Text
      /\ \E p, q \in Text :
            \/ f.acc = [a EXCEPT !.pending = p]
            \/ f.acc = [a EXCEPT !.pending = p, !.stop = "stop_sequence", !.matched = q]
  BY FilterType
<1> HIDE DEF f
<1> QED BY <1>1 DEF Accumulators, f

(* So does more text, whatever the filter does to it. *)
LEMMA MoreText ==
  ASSUME request \in ModelRequests, NEW a \in Accumulators, NEW n \in Nat, NEW delta \in Text
  PROVE  LET r == AccumulateText(a, delta)
         IN /\ r \in Accumulators
            /\ a.stop # "none" => r.stop \in {a.stop, "stop_sequence"}
            /\ a.stop = "none" /\ r.stop = "stop_sequence" => r.count = a.count
            /\ r.thinking = a.thinking
            /\ Within(a, n) => Within(r, n)
            /\ a.stop = "none" /\ Within(a, n) => Exact(r, n)
<1> DEFINE f == ApplyStopSequenceFilter(a, delta)
           b == ApplyMaxTokensBudget(f.acc, f.out)
           r == AccumulateText(a, delta)
<1>1. CASE delta = <<>>
  <2>1. r = a
    BY <1>1 DEF AccumulateText
  <2> QED BY <2>1 DEF Exact
<1>2. CASE delta # <<>>
  <2>1. /\ f.out \in Text
        /\ f.acc \in Accumulators
        /\ f.acc.stop \in {a.stop, "stop_sequence"}
        /\ f.acc.count = a.count /\ f.acc.text = a.text /\ f.acc.thinking = a.thinking
    BY FilterKeeps
  <2>2. CASE f.out = <<>> \/ f.acc.stop # "none"
    <3>1. r = [f.acc EXCEPT !.text = @ \o f.out]
      BY <1>2, <2>2 DEF AccumulateText
    <3>2. f.acc.text \o f.out \in Text
      <4>1. f.acc.text \in Text
        BY <2>1 DEF Accumulators
      <4> QED BY <2>1, <4>1, ConcatProperties DEF Text
    <3> HIDE DEF f
    <3>3. /\ r \in Accumulators
          /\ r.stop = f.acc.stop /\ r.thinking = a.thinking /\ r.count = a.count
          /\ r.text = f.acc.text \o f.out
      BY <2>1, <3>1, <3>2 DEF Accumulators
    <3> HIDE DEF r
    <3>4. a.stop = "none" => Exact(r, n)
      BY <2>1, <3>3 DEF Exact
    <3>7. /\ a.stop # "none" => r.stop \in {a.stop, "stop_sequence"}
          /\ r.count = a.count
      BY <2>1, <3>3
    <3>5. CASE r.stop # "none"
      BY <2>1, <3>3, <3>4, <3>5, <3>7 DEF Within, r
    <3>6. CASE r.stop = "none"
      <4>1. f.out = <<>> /\ a.stop = "none"
        BY <2>1, <2>2, <3>3, <3>6
      <4>2. r.text = a.text
        <5>1. a.text \in Seq(Units)
          BY DEF Accumulators, Text
        <5> QED BY <2>1, <3>3, <4>1, <5>1, ConcatEmptySeq
      <4>3. Within(a, n) => Within(r, n)
        BY <3>3, <3>6, <4>1, <4>2 DEF Within, Emitted
      <4> QED BY <3>3, <3>4, <3>6, <3>7, <4>1, <4>3 DEF r
    <3> QED BY <3>5, <3>6
  <2>3. CASE f.out # <<>> /\ f.acc.stop = "none"
    <3>1. r = Told(b.acc, b.out)
      BY <1>2, <2>3 DEF AccumulateText, Told
    <3>2. b.out \in Text /\ Charged(f.acc, b.acc, Len(b.out))
      BY <2>1, BudgetCharges
    <3>3. /\ a.stop = "none"
          /\ Within(a, n) => Within(f.acc, n)
      BY <2>1, <2>3 DEF Within, Emitted
    <3> HIDE DEF f, b, r
    <3>4. /\ r \in Accumulators
          /\ r.stop \in {f.acc.stop, "max_tokens"} /\ r.thinking = f.acc.thinking
          /\ Within(f.acc, n) => Within(r, n)
          /\ f.acc.stop = "none" /\ Within(f.acc, n) => Exact(r, n)
      BY <2>1, <3>1, <3>2, ChargedText
    <3> QED BY <2>1, <2>3, <3>3, <3>4 DEF r
  <2> QED BY <2>2, <2>3
<1> QED BY <1>1, <1>2

(* And what was held back, at the end. *)
LEMMA Finalized ==
  ASSUME request \in ModelRequests, NEW a \in Accumulators, NEW n \in Nat, Within(a, n)
  PROVE  LET r == FlushPending(FinalizeTags(a))
         IN r \in Accumulators /\ Within(r, n) /\ (a.stop = "none" => Exact(r, n))
<1> DEFINE rest == [a EXCEPT !.tagBuf = <<>>]
           t == FinalizeTags(a)
           drained == [t EXCEPT !.pending = <<>>]
           b == ApplyMaxTokensBudget(drained, t.pending)
           r == FlushPending(t)
<1>1. a.tagBuf \in Text /\ rest \in Accumulators /\ Within(rest, n) /\ rest.stop = a.stop
  <2>1. a.tagBuf \in Text /\ <<>> \in Text
    BY DEF Accumulators, Text
  <2>2. /\ rest \in Accumulators
        /\ rest.stop = a.stop /\ rest.count = a.count
        /\ rest.text = a.text /\ rest.thinking = a.thinking
    BY <2>1 DEF Accumulators
  <2> HIDE DEF rest
  <2> QED BY <2>1, <2>2 DEF Within, Emitted
<1>2. t \in Accumulators /\ Within(t, n) /\ (a.stop = "none" => Exact(t, n))
  <2>1. CASE a.inside
    <3>1. t = AccumulateThinking(rest, a.tagBuf)
      BY <2>1 DEF FinalizeTags
    <3> HIDE DEF rest, t
    <3> QED BY <1>1, <3>1, MoreThinking
  <2>2. CASE ~a.inside
    <3>1. t = AccumulateText(rest, a.tagBuf)
      BY <2>2 DEF FinalizeTags
    <3> HIDE DEF rest, t
    <3> QED BY <1>1, <3>1, MoreText
  <2> QED BY <2>1, <2>2
<1> HIDE DEF t, rest
<1>3. /\ t.pending \in Text /\ drained \in Accumulators /\ Within(drained, n)
      /\ drained.stop = t.stop /\ (Exact(t, n) => Exact(drained, n))
  <2>1. t.pending \in Text /\ <<>> \in Text
    BY <1>2 DEF Accumulators, Text
  <2>2. /\ drained \in Accumulators
        /\ drained.stop = t.stop /\ drained.count = t.count
        /\ drained.text = t.text /\ drained.thinking = t.thinking
    BY <1>2, <2>1 DEF Accumulators
  <2> HIDE DEF drained
  <2> QED BY <1>2, <2>1, <2>2 DEF Within, Exact, Emitted
<1>4. CASE t.pending = <<>> \/ t.stop # "none"
  <2>1. r = drained
    BY <1>4 DEF FlushPending
  <2> HIDE DEF r, drained
  <2> QED BY <1>2, <1>3, <2>1 DEF r, t
<1>5. CASE t.pending # <<>> /\ t.stop = "none"
  <2>1. r = Told(b.acc, b.out)
    BY <1>5 DEF FlushPending, Told
  <2>2. b.out \in Text /\ Charged(drained, b.acc, Len(b.out))
    BY <1>3, BudgetCharges
  <2> HIDE DEF drained, b, r
  <2>3. /\ r \in Accumulators /\ (Within(drained, n) => Within(r, n))
        /\ drained.stop = "none" /\ Within(drained, n) => Exact(r, n)
    BY <1>3, <2>1, <2>2, ChargedText
  <2> QED BY <1>3, <1>5, <2>3 DEF r, t
<1> QED BY <1>4, <1>5

-----------------------------------------------------------------------------
(* The inductive invariant *)

(* Types, and the budget kept *)
AccumulatorInv ==
  /\ request \in ModelRequests
  /\ lastContent \in Text /\ lastThinking \in Text
  /\ acc \in Accumulators /\ tools \in Nat /\ finished \in BOOLEAN
  /\ Within(acc, tools)
  /\ ~finished => Exact(acc, tools)

(* A new accumulator is within the budget. *)
LEMMA FreshInv ==
  ASSUME request \in ModelRequests
  PROVE  Fresh \in Accumulators /\ Within(Fresh, 0) /\ Exact(Fresh, 0)
<1>1. Fresh \in Accumulators
  BY DEF Fresh, Accumulators, Text
<1>2. Fresh.stop = "none" /\ Fresh.count = 0 /\ Fresh.text = <<>> /\ Fresh.thinking = <<>>
  BY DEF Fresh
<1>3. request.budget > 0 => 0 < Most
  <2>1. request.budget \in Nat /\ (0 \div RunesPerToken < request.budget <=> 0 < Most)
    BY TokensBelow
  <2>2. 0 \div RunesPerToken = 0
    BY AccumulatorAssumption
  <2> QED BY <2>1, <2>2
<1>4. Len(<<>>) = 0
  OBVIOUS
<1> QED BY <1>1, <1>2, <1>3, <1>4 DEF Within, Exact, Emitted

(* So is the first. *)
LEMMA AccumulatorInit ==
  ASSUME ResponseInit
  PROVE  AccumulatorInv
<1>1. /\ request \in ModelRequests /\ lastContent = <<>> /\ lastThinking = <<>>
      /\ acc = Fresh /\ tools = 0 /\ finished = FALSE
  BY DEF ResponseInit, CollectInit, AccInit
<1>2. Fresh \in Accumulators /\ Within(Fresh, 0) /\ Exact(Fresh, 0)
  BY <1>1, FreshInv
<1>3. <<>> \in Text
  BY DEF Text
<1> QED BY <1>1, <1>2, <1>3 DEF AccumulatorInv

(* Every step keeps the invariant: more of upstream's text, *)
LEMMA AssistantResponseKeeps ==
  ASSUME AccumulatorInv, NEW piece \in Pieces, AssistantResponse(piece)
  PROVE  AccumulatorInv'
<1> DEFINE p == ParseThinkingTags(acc, piece)
           turned == [acc EXCEPT !.tagBuf = p.tagBuf, !.inside = p.inside,
                                  !.suppress = @ \/ p.seen]
           thinks == AccumulateThinking(turned, p.thinking)
           tells == AccumulateText(thinks, p.text)
<1>1. piece \in Text /\ lastContent \in Text /\ lastContent' = lastContent \o piece
      /\ UNCHANGED <<request, lastThinking, tools, finished>>
      /\ ComputeDelta(lastContent \o piece, lastContent) = piece
      /\ request \in ModelRequests /\ tools \in Nat
  BY TagsType, DeltaIsPiece DEF AccumulatorInv, AssistantResponse
<1>2. lastContent' \in Text
  BY <1>1, ConcatProperties DEF Text
<1>3. acc' = IF piece = <<>> \/ acc.stop # "none" THEN acc ELSE tells
  BY <1>1 DEF AssistantResponse
<1>4. CASE acc' = acc
  BY <1>1, <1>2, <1>4 DEF AccumulatorInv, Within, Exact, Emitted, Most
<1>5. CASE acc.stop = "none" /\ acc' = tells
  <2>1. acc \in Accumulators /\ Within(acc, tools)
    BY DEF AccumulatorInv
  <2>2. p \in Parses
    <3>1. acc.tagBuf \in Text /\ acc.inside \in BOOLEAN
      BY <2>1 DEF Accumulators
    <3> QED BY <1>1, <3>1, ParseType
  <2> HIDE DEF p
  <2>3. turned \in Accumulators /\ Within(turned, tools) /\ turned.stop = "none"
    BY <1>5, <2>1, <2>2 DEF Accumulators, Parses, Within, Emitted
  <2>4. p.thinking \in Text /\ p.text \in Text
    BY <2>2 DEF Parses
  <2> HIDE DEF turned
  <2>5. /\ thinks \in Accumulators
        /\ thinks.stop \in {"none", "max_tokens"}
        /\ Within(thinks, tools)
        /\ request.budget > 0 /\ thinks.stop # "none" => thinks.thinking # <<>>
    BY <1>1, <2>3, <2>4, MoreThinking
  <2> HIDE DEF thinks
  <2>6. /\ tells \in Accumulators
        /\ Within(tells, tools)
        /\ tells.thinking = thinks.thinking
        /\ thinks.stop = "none" => Exact(tells, tools)
    BY <1>1, <2>4, <2>5, MoreText
  <2> HIDE DEF tells
  <2>7. Exact(tells, tools)
    BY <2>5, <2>6 DEF Exact
  <2>8. acc' \in Accumulators /\ Within(acc, tools)' /\ Exact(acc, tools)'
    BY <1>1, <1>5, <2>6, <2>7 DEF Within, Exact, Emitted, Most
  <2> QED BY <1>1, <1>2, <2>8 DEF AccumulatorInv
<1> QED BY <1>3, <1>4, <1>5

(* reasoning, *)
LEMMA ReasoningKeeps ==
  ASSUME AccumulatorInv, NEW piece \in Thoughts, ReasoningContent(piece)
  PROVE  AccumulatorInv'
<1> DEFINE thinks == AccumulateThinking(acc, piece)
<1>1. piece \in Text /\ lastThinking \in Text /\ lastThinking' = lastThinking \o piece
      /\ UNCHANGED <<request, lastContent, tools, finished>>
      /\ ComputeDelta(lastThinking \o piece, lastThinking) = piece
      /\ request \in ModelRequests /\ tools \in Nat
  BY TagsType, DeltaIsPiece DEF AccumulatorInv, ReasoningContent
<1>2. lastThinking' \in Text
  BY <1>1, ConcatProperties DEF Text
<1>3. acc' = IF acc.stop # "none" THEN acc ELSE thinks
  BY <1>1 DEF ReasoningContent
<1>4. CASE acc' = acc
  BY <1>1, <1>2, <1>4 DEF AccumulatorInv, Within, Exact, Emitted, Most
<1>5. CASE acc.stop = "none" /\ acc' = thinks
  <2>1. acc \in Accumulators /\ Within(acc, tools)
    BY DEF AccumulatorInv
  <2>2. thinks \in Accumulators /\ Within(thinks, tools) /\ Exact(thinks, tools)
    BY <1>1, <1>5, <2>1, MoreThinking
  <2> HIDE DEF thinks
  <2>3. acc' \in Accumulators /\ Within(acc, tools)' /\ Exact(acc, tools)'
    BY <1>1, <1>5, <2>2 DEF Within, Exact, Emitted, Most
  <2> QED BY <1>1, <1>2, <2>3 DEF AccumulatorInv
<1> QED BY <1>3, <1>4, <1>5

(* a tool's input, *)
LEMMA ToolUseKeeps ==
  ASSUME AccumulatorInv, NEW n \in Inputs, ToolUseEvent(n)
  PROVE  AccumulatorInv'
<1> DEFINE c == acc.count + n
           m == tools + n
           t == Len(acc.text)
           u == Len(acc.thinking)
<1>1. /\ n \in Nat /\ tools \in Nat /\ tools' = m
      /\ UNCHANGED <<request, lastContent, lastThinking, finished>>
      /\ request \in ModelRequests /\ acc.stop = "none"
  BY AccumulatorAssumption DEF AccumulatorInv, ToolUseEvent
<1>2. acc \in Accumulators /\ acc.count \in Nat /\ Within(acc, tools) /\ t \in Nat /\ u \in Nat
  BY DEF AccumulatorInv, Accumulators, Text
<1>3. /\ request.budget \in Nat /\ Most \in Nat
      /\ c \div RunesPerToken < request.budget <=> c < Most
  <2>1. c \in Nat
    BY <1>1, <1>2
  <2> HIDE DEF c
  <2> QED BY <1>1, <2>1, TokensBelow
<1>4. PICK s \in {"none", "max_tokens"} :
        /\ s = IF request.budget > 0 /\ ~(c < Most) THEN "max_tokens" ELSE "none"
        /\ acc' = [acc EXCEPT !.count = c, !.stop = s]
  <2>1. c \div RunesPerToken \in Nat
    <3>1. c \in Nat /\ RunesPerToken \in Nat \ {0}
      BY <1>1, <1>2, AccumulatorAssumption
    <3> HIDE DEF c
    <3> QED BY <3>1
  <2>2. c \div RunesPerToken >= request.budget <=> ~(c < Most)
    BY <1>3, <2>1
  <2> QED BY <1>1, <2>2 DEF ToolUseEvent
<1>5. c \in Nat /\ m \in Nat
  BY <1>1, <1>2
<1>6. /\ acc' \in Accumulators /\ acc'.stop = s /\ acc'.count = c
      /\ acc'.text = acc.text /\ acc'.thinking = acc.thinking
  BY <1>2, <1>4, <1>5 DEF Accumulators
<1>7. request.budget > 0 => acc.count = t + u + tools /\ acc.count < Most
  BY <1>1, <1>2 DEF Within, Emitted
<1>8. Emitted(acc, tools)' = t + u + m
  BY <1>1, <1>6 DEF Emitted
<1> HIDE DEF t, u
<1>9. Within(acc, tools)'
  <2>1. request.budget > 0 /\ s = "none" => c = t + u + m /\ c < Most
    BY <1>1, <1>2, <1>4, <1>7
  <2>2. Most' = Most
    BY <1>1 DEF Most
  <2> QED BY <1>1, <1>6, <1>8, <2>1, <2>2 DEF Within
<1>10. Exact(acc, tools)'
  <2>1. request.budget > 0 /\ m = 0 => s = "none"
    BY <1>1, <1>2, <1>4, <1>7
  <2> QED BY <1>1, <1>6, <2>1 DEF Exact
<1> QED BY <1>1, <1>5, <1>6, <1>9, <1>10 DEF AccumulatorInv

(* the end, *)
LEMMA FinalizeKeeps ==
  ASSUME AccumulatorInv, FinalizeStream
  PROVE  AccumulatorInv'
<1>1. /\ acc' = FlushPending(FinalizeTags(acc)) /\ finished' = TRUE
      /\ UNCHANGED <<request, lastContent, lastThinking, tools>>
      /\ request \in ModelRequests /\ acc \in Accumulators /\ tools \in Nat /\ Within(acc, tools)
  BY DEF AccumulatorInv, FinalizeStream
<1> DEFINE r == FlushPending(FinalizeTags(acc))
<1>2. r \in Accumulators /\ Within(r, tools)
  BY <1>1, Finalized
<1> HIDE DEF r
<1>3. acc' \in Accumulators /\ Within(acc, tools)'
  BY <1>1, <1>2 DEF Within, Emitted, Most, r
<1> QED BY <1>1, <1>3 DEF AccumulatorInv

(* and a new accumulator. *)
LEMMA ForgetKeeps ==
  ASSUME AccumulatorInv, Forget
  PROVE  AccumulatorInv'
<1>1. /\ acc' = Fresh /\ tools' = 0 /\ finished' = FALSE
      /\ lastContent' = <<>> /\ lastThinking' = <<>> /\ UNCHANGED request
      /\ request \in ModelRequests
  BY DEF AccumulatorInv, Forget
<1>2. Fresh \in Accumulators /\ Within(Fresh, 0) /\ Exact(Fresh, 0)
  BY <1>1, FreshInv
<1>3. acc' \in Accumulators /\ Within(acc, tools)' /\ Exact(acc, tools)'
  BY <1>1, <1>2 DEF Within, Exact, Emitted, Most
<1>4. <<>> \in Text
  BY DEF Text
<1> QED BY <1>1, <1>3, <1>4 DEF AccumulatorInv

(* The accumulator changes when upstream sends, at the end, or is a new one. *)
LEMMA AccumulatorSteps ==
  ASSUME [ResponseNext]_responseVars
  PROVE  UNCHANGED accVars \/ UpstreamSends \/ Forget \/ FinalizeStream
<1>1. CASE Streaming \/ UNCHANGED responseVars
  BY <1>1 DEF Streaming, responseVars, collectVars
<1>2. CASE CollectNext
  BY <1>2 DEF CollectNext, Collect, CollectEnds, CollectFails, Called, CollectSevered, BuildResponse,
    Decide, CollectRefused, CollectAgain, RespondError
<1> QED BY <1>1, <1>2 DEF ResponseNext, Collecting

(* So every step keeps the invariant. *)
LEMMA AccumulatorStep ==
  ASSUME AccumulatorInv, [ResponseNext]_responseVars
  PROVE  AccumulatorInv'
<1>1. CASE UNCHANGED accVars
  BY <1>1 DEF accVars, AccumulatorInv, Within, Exact, Emitted, Most
<1>2. CASE UpstreamSends
  BY <1>2, AssistantResponseKeeps, ReasoningKeeps, ToolUseKeeps DEF UpstreamSends
<1>3. CASE Forget
  BY <1>3, ForgetKeeps
<1>4. CASE FinalizeStream
  BY <1>4, FinalizeKeeps
<1> QED BY <1>1, <1>2, <1>3, <1>4, AccumulatorSteps

-----------------------------------------------------------------------------
(* Where one text stands in another *)

(* What is cut off a text says what it said there. *)
LEMMA CutAt ==
  ASSUME NEW s \in Text, NEW n \in 0 .. Len(s)
  PROVE  /\ \A m \in 1 .. n : First(s, n)[m] = s[m]
         /\ \A m \in 1 .. Len(s) - n : From(s, n)[m] = s[n + m]
<1>1. Len(s) \in Nat /\ \A i \in 1 .. Len(s) : s[i] \in Units
  BY DEF Text
<1>2. ASSUME NEW m \in 1 .. n
      PROVE  First(s, n)[m] = s[m]
  <2>1. n \in Nat /\ (\A i \in 1 .. n : s[i] \in Units) /\ m \in 1 .. n - 1 + 1
    BY <1>1
  <2>2. SubSeq(s, 1, n)[m] = s[1 + m - 1]
    <3>1. \A i \in 1 .. n - 1 + 1 : SubSeq(s, 1, n)[i] = s[1 + i - 1]
      BY <2>1, SubSeqProperties, 1 \in Int, n \in Int
    <3> QED BY <2>1, <3>1
  <2>3. 1 + m - 1 = m
    OBVIOUS
  <2> QED BY <2>2, <2>3 DEF First
<1>3. ASSUME NEW m \in 1 .. Len(s) - n
      PROVE  From(s, n)[m] = s[n + m]
  <2>1. n + 1 \in Int /\ Len(s) \in Int /\ (\A i \in n + 1 .. Len(s) : s[i] \in Units)
        /\ m \in 1 .. Len(s) - (n + 1) + 1
    BY <1>1
  <2>2. SubSeq(s, n + 1, Len(s))[m] = s[n + 1 + m - 1]
    <3>1. \A i \in 1 .. Len(s) - (n + 1) + 1 : SubSeq(s, n + 1, Len(s))[i] = s[n + 1 + i - 1]
      BY <2>1, SubSeqProperties
    <3> QED BY <2>1, <3>1
  <2>3. n + 1 + m - 1 = n + m
    OBVIOUS
  <2> QED BY <2>2, <2>3 DEF From
<1> QED BY <1>2, <1>3

(* Whether p stands in s behind i units *)
At(s, i, p) == i + Len(p) <= Len(s) /\ \A m \in 1 .. Len(p) : s[i + m] = p[m]

(* It is the beginning of what is behind them, *)
LEMMA PrefixAt ==
  ASSUME NEW s \in Text, NEW p \in Text, NEW i \in 0 .. Len(s)
  PROVE  IsPrefix(p, From(s, i)) <=> At(s, i, p)
<1> DEFINE t == From(s, i)
           n == Len(p)
           o == Len(s)
<1>1. n \in Nat /\ o \in Nat /\ t \in Text /\ Len(t) = o - i
  BY Cut DEF Text
<1>2. \A m \in 1 .. o - i : t[m] = s[i + m]
  BY CutAt
<1> HIDE DEF t
<1>3. IsPrefix(p, t) <=> n <= o - i /\ p = SubSeq(t, 1, n)
  <2>1. p = SubSeq(p, 1, n)
    BY SubSeqFull DEF Text
  <2> QED BY <1>1, <2>1 DEF IsPrefix
<1>4. ASSUME n <= o - i
      PROVE  p = SubSeq(t, 1, n) <=> \A m \in 1 .. n : s[i + m] = p[m]
  <2>1. n \in 0 .. Len(t)
    BY <1>1, <1>4
  <2>2. First(t, n) \in Text /\ Len(First(t, n)) = n /\ \A m \in 1 .. n : First(t, n)[m] = t[m]
    BY <1>1, <2>1, Cut, CutAt
  <2>3. \A m \in 1 .. n : First(t, n)[m] = s[i + m]
    BY <1>1, <1>2, <1>4, <2>2
  <2>4. (\A m \in 1 .. n : s[i + m] = p[m]) => p = First(t, n)
    BY <2>2, <2>3, SeqEqual DEF Text
  <2> QED BY <2>3, <2>4 DEF First
<1>5. At(s, i, p) <=> n <= o - i /\ \A m \in 1 .. n : s[i + m] = p[m]
  BY <1>1 DEF At
<1> QED BY <1>3, <1>4, <1>5 DEF t

(* and that is where it occurs. *)
LEMMA OccursAt ==
  ASSUME NEW s \in Text, NEW p \in Text, NEW i
  PROVE  i \in Occurrences(s, p) <=> i \in 0 .. Len(s) /\ At(s, i, p)
<1>1. Len(s) \in Nat /\ Len(p) \in Nat
  BY DEF Text
<1>2. ASSUME i \in 0 .. Len(s), i + Len(p) <= Len(s)
      PROVE  First(From(s, i), Len(p)) = p <=> \A m \in 1 .. Len(p) : s[i + m] = p[m]
  <2> DEFINE t == From(s, i)
             n == Len(p)
  <2>1. t \in Text /\ Len(t) = Len(s) - i /\ \A m \in 1 .. Len(s) - i : t[m] = s[i + m]
    BY <1>2, Cut, CutAt
  <2> HIDE DEF t
  <2>2. n \in 0 .. Len(t)
    BY <1>1, <1>2, <2>1
  <2>3. First(t, n) \in Text /\ Len(First(t, n)) = n /\ \A m \in 1 .. n : First(t, n)[m] = t[m]
    BY <2>1, <2>2, Cut, CutAt
  <2>4. \A m \in 1 .. n : First(t, n)[m] = s[i + m]
    BY <1>1, <1>2, <2>1, <2>3
  <2>5. (\A m \in 1 .. n : s[i + m] = p[m]) => First(t, n) = p
    BY <2>3, <2>4, SeqEqual DEF Text
  <2> QED BY <2>4, <2>5 DEF t
<1>3. i \in Occurrences(s, p) <=> i \in 0 .. Len(s) - Len(p) /\ First(From(s, i), Len(p)) = p
  BY DEF Occurrences
<1>4. i \in 0 .. Len(s) - Len(p) <=> i \in 0 .. Len(s) /\ i + Len(p) <= Len(s)
  BY <1>1
<1> QED BY <1>2, <1>3, <1>4 DEF At

(* The overlap is the longest end of s that begins p. *)
LEMMA OverlapIs ==
  ASSUME NEW s \in Text, NEW p \in Text \ {<<>>}
  PROVE  /\ Overlap(s, p) \in 0 .. Len(s)
         /\ Overlap(s, p) < Len(p)
         /\ \A n \in 0 .. Len(s) : n < Len(p) /\ n > Overlap(s, p) =>
               \E m \in 1 .. n : s[Len(s) - n + m] # p[m]
<1> DEFINE b == Smaller(Len(s), Len(p) - 1)
           Overlaps == {n \in 0 .. b : From(s, Len(s) - n) = First(p, n)}
           o == Len(s)
           l == Len(p)
<1>1. o \in Nat /\ l \in Nat /\ l > 0
  BY DEF Text
<1>2. b \in Nat /\ \A n \in Nat : n <= b <=> n <= o /\ n < l
  BY <1>1 DEF Smaller
<1> HIDE DEF b
<1>3. Overlap(s, p) = Max(Overlaps)
  BY DEF Overlap, b
<1>4. ASSUME NEW n \in 0 .. o, n < l
      PROVE  n \in Overlaps <=> \A m \in 1 .. n : s[o - n + m] = p[m]
  <2>1. o - n \in 0 .. o /\ n \in 0 .. l /\ n \in 0 .. b
    BY <1>1, <1>2, <1>4
  <2>2. /\ From(s, o - n) \in Text /\ Len(From(s, o - n)) = n
        /\ \A m \in 1 .. n : From(s, o - n)[m] = s[o - n + m]
    <3>1. /\ From(s, o - n) \in Text /\ Len(From(s, o - n)) = o - (o - n)
          /\ \A m \in 1 .. o - (o - n) : From(s, o - n)[m] = s[o - n + m]
      BY <2>1, Cut, CutAt
    <3>2. o - (o - n) = n
      BY <1>1
    <3> QED BY <3>1, <3>2
  <2>3. /\ First(p, n) \in Text /\ Len(First(p, n)) = n
        /\ \A m \in 1 .. n : First(p, n)[m] = p[m]
    BY <2>1, Cut, CutAt
  <2>4. (\A m \in 1 .. n : s[o - n + m] = p[m]) => From(s, o - n) = First(p, n)
    BY <2>2, <2>3, SeqEqual DEF Text
  <2> QED BY <2>1, <2>2, <2>3, <2>4
<1>5. 0 \in Overlaps
  BY <1>1, <1>4
<1>6. Max(Overlaps) \in Overlaps /\ \A y \in Overlaps : Max(Overlaps) >= y
  <2>1. Overlaps \subseteq 0 .. b /\ Overlaps # {}
    BY <1>5
  <2> HIDE DEF Overlaps
  <2> QED BY <1>2, <2>1, MaxOf
<1>7. Max(Overlaps) \in Nat /\ Max(Overlaps) <= b
  BY <1>6
<1>8. Overlap(s, p) \in 0 .. o /\ Overlap(s, p) < l
  BY <1>1, <1>2, <1>3, <1>7
<1>9. ASSUME NEW n \in 0 .. o, n < l, n > Overlap(s, p)
      PROVE  \E m \in 1 .. n : s[o - n + m] # p[m]
  <2>1. ~(n \in Overlaps)
    <3> HIDE DEF Overlaps
    <3> QED BY <1>3, <1>6, <1>7, <1>9
  <2> QED BY <1>4, <1>9, <2>1
<1> QED BY <1>8, <1>9

-----------------------------------------------------------------------------
(* The reading of a text *)

Readings == [skip : Nat, inside : BOOLEAN, text : Text, thinking : Text]

(* The reading between two tags, where no unit is to be skipped *)
At0(b, x, y) == [skip |-> 0, inside |-> b, text |-> x, thinking |-> y]

(* The tag that ends it *)
TagAfter(b) == IF b THEN CloseTag ELSE OpenTag

(* r is the reading of s, by a unit at a time. *)
IsReading(s, r) ==
  /\ r \in [0 .. Len(s) -> Readings]
  /\ r[0] = At0(FALSE, <<>>, <<>>)
  /\ \A n \in 1 .. Len(s) : r[n] = ReadUnit(s, n, r[n - 1])

(* A tag is more than a unit. *)
LEMMA TagAfterType ==
  ASSUME NEW b \in BOOLEAN
  PROVE  TagAfter(b) \in Text /\ Len(TagAfter(b)) \in Nat /\ Len(TagAfter(b)) > 1 /\ TagAfter(b) # <<>>
<1>1. TagAfter(b) \in Text /\ Len(TagAfter(b)) > 1 /\ TagAfter(b) # <<>>
  BY TagsType DEF TagAfter
<1> QED BY <1>1 DEF Text

(* What a unit does to the reading *)
Skips(r) == [r EXCEPT !.skip = @ - 1]
(* at a tag it turns to the other side, *)
Turns(r) == [r EXCEPT !.inside = ~@, !.skip = Len(TagAfter(r.inside)) - 1]
(* else the unit is said, in or out of tags. *)
Says(r, u) == IF r.inside THEN [r EXCEPT !.thinking = Append(@, u)]
              ELSE [r EXCEPT !.text = Append(@, u)]

(* One of them is what happens. *)
LEMMA UnitRead ==
  ASSUME NEW s \in Text, NEW n \in 1 .. Len(s), NEW r \in Readings
  PROVE  /\ ReadUnit(s, n, r) \in Readings
         /\ r.skip > 0 => ReadUnit(s, n, r) = Skips(r)
         /\ r.skip = 0 /\ At(s, n - 1, TagAfter(r.inside)) => ReadUnit(s, n, r) = Turns(r)
         /\ r.skip = 0 /\ ~At(s, n - 1, TagAfter(r.inside)) => ReadUnit(s, n, r) = Says(r, s[n])
<1> DEFINE tag == TagAfter(r.inside)
           u == s[n]
<1>1. r.inside \in BOOLEAN /\ r.skip \in Nat /\ r.text \in Text /\ r.thinking \in Text
  BY DEF Readings
<1>2. tag \in Text /\ Len(tag) \in Nat /\ Len(tag) > 1
  BY <1>1, TagAfterType
<1>3. u \in Units /\ n - 1 \in 0 .. Len(s)
  BY DEF Text
<1>4. IsPrefix(tag, From(s, n - 1)) <=> At(s, n - 1, tag)
  BY <1>2, <1>3, PrefixAt
<1>5. ReadUnit(s, n, r) =
        CASE r.skip > 0 -> Skips(r)
          [] r.skip = 0 /\ IsPrefix(tag, From(s, n - 1)) -> Turns(r)
          [] OTHER -> Says(r, u)
  BY DEF ReadUnit, TagAfter, Skips, Turns, Says
<1>6. Skips(r) \in Readings \/ ~(r.skip > 0)
  BY <1>1 DEF Readings, Skips
<1>7. Turns(r) \in Readings
  <2>1. Len(tag) - 1 \in Nat
    BY <1>2
  <2> QED BY <1>1, <2>1 DEF Readings, Turns
<1>8. Says(r, u) \in Readings
  <2>1. Append(r.thinking, u) \in Text /\ Append(r.text, u) \in Text
    BY <1>1, <1>3, AppendProperties DEF Text
  <2> HIDE DEF u
  <2> QED BY <1>1, <2>1 DEF Readings, Says
<1>9. r.skip > 0 \/ r.skip = 0
  BY <1>1
<1> QED BY <1>1, <1>4, <1>5, <1>6, <1>7, <1>8, <1>9

(* A unit more on the side the reading is on *)
Plus(b, x, y, u) ==
  IF b THEN At0(b, x, Append(y, u)) ELSE At0(b, Append(x, u), y)

(* is what it says. *)
LEMMA SaysMore ==
  ASSUME NEW b \in BOOLEAN, NEW x, NEW y, NEW u
  PROVE  Says(At0(b, x, y), u) = Plus(b, x, y, u)
<1> DEFINE r == At0(b, x, y)
<1>1. /\ r = [skip |-> 0, inside |-> b, text |-> x, thinking |-> y]
      /\ r.inside = b /\ r.text = x /\ r.thinking = y
  BY DEF At0
<1>2. [r EXCEPT !.thinking = Append(r.thinking, u)] = At0(b, x, Append(y, u))
  <2> DEFINE z == Append(y, u)
  <2>1. [r EXCEPT !.thinking = Append(r.thinking, u)] = [r EXCEPT !.thinking = z]
    BY <1>1
  <2> HIDE DEF z
  <2>2. [r EXCEPT !.thinking = z] = At0(b, x, z)
    BY <1>1 DEF At0
  <2> QED BY <2>1, <2>2 DEF z
<1>3. [r EXCEPT !.text = Append(r.text, u)] = At0(b, Append(x, u), y)
  <2> DEFINE z == Append(x, u)
  <2>1. [r EXCEPT !.text = Append(r.text, u)] = [r EXCEPT !.text = z]
    BY <1>1
  <2> HIDE DEF z
  <2>2. [r EXCEPT !.text = z] = At0(b, z, y)
    BY <1>1 DEF At0
  <2> QED BY <2>1, <2>2 DEF z
<1>4. Says(r, u) = IF r.inside THEN [r EXCEPT !.thinking = Append(r.thinking, u)]
                   ELSE [r EXCEPT !.text = Append(r.text, u)]
  BY DEF Says
<1> HIDE DEF r
<1>5. CASE b
  BY <1>1, <1>2, <1>4, <1>5 DEF r, Plus
<1>6. CASE ~b
  BY <1>1, <1>3, <1>4, <1>6 DEF r, Plus
<1> QED BY <1>5, <1>6

(* and so at all of them. *)
LEMMA ReadingOf ==
  ASSUME NEW s \in Text
  PROVE  IsReading(s, Reading(s))
<1> DEFINE o == Len(s)
           start == At0(FALSE, <<>>, <<>>)
           Loop(f) == f = [n \in 0 .. o |-> IF n = 0 THEN start ELSE ReadUnit(s, n, f[n - 1])]
           step == [p \in Nat \X Readings |->
                      IF p[1] \in 1 .. o THEN ReadUnit(s, p[1], p[2]) ELSE p[2]]
<1>1. o \in Nat
  BY DEF Text
<1>2. start \in Readings
  BY DEF At0, Readings, Text
<1>3. step \in [Nat \X Readings -> Readings]
  BY UnitRead
<1> HIDE DEF o, start
<1>4. PICK g : Recurs(Readings, step, start, g)
  <2> HIDE DEF step
  <2> QED BY <1>2, <1>3, RecursionExists
<1> DEFINE h == [n \in 0 .. o |-> g[n]]
<1>5. Loop(h)
  <2>1. ASSUME NEW n \in 0 .. o
        PROVE  h[n] = IF n = 0 THEN start ELSE ReadUnit(s, n, h[n - 1])
    <3>1. CASE n # 0
      <4>1. n - 1 \in Nat /\ (n - 1) + 1 = n /\ n - 1 \in 0 .. o /\ n \in 1 .. o
        BY <1>1, <3>1
      <4>2. g[n] = step[<<n, g[n - 1]>>] /\ g[n - 1] \in Readings
        BY <1>4, <4>1 DEF Recurs
      <4>3. g[n] = ReadUnit(s, n, g[n - 1])
        <5>1. <<n, g[n - 1]>> \in Nat \X Readings
          BY <4>1, <4>2
        <5>2. step[<<n, g[n - 1]>>] = ReadUnit(s, n, g[n - 1])
          BY <4>1, <5>1
        <5> QED BY <4>2, <5>2
      <4> QED BY <3>1, <4>1, <4>3
    <3> QED BY <1>4, <3>1 DEF Recurs
  <2> HIDE DEF start, h
  <2>2. h = [n \in 0 .. o |-> h[n]]
    BY DEF h
  <2> QED BY <2>1, <2>2
<1> DEFINE f == CHOOSE r : Loop(r)
<1>6. Loop(f)
  <2> HIDE DEF Loop
  <2> QED BY <1>5
<1>7. Reading(s) = f
  BY DEF Reading, f, o, start, At0
<1> HIDE DEF f
<1> DEFINE Good == {n \in Nat : n <= o => f[n] \in Readings}
<1>8. 0 \in Good
  BY <1>1, <1>2, <1>6
<1>9. ASSUME NEW n \in 1 .. o
      PROVE  f[n] = ReadUnit(s, n, f[n - 1])
  <2>1. n # 0 /\ n \in 0 .. o
    BY <1>1
  <2> QED BY <1>6, <2>1
<1>10. ASSUME NEW n \in Nat, n \in Good
      PROVE  n + 1 \in Good
  <2>1. SUFFICES ASSUME n + 1 <= o PROVE f[n + 1] \in Readings
    OBVIOUS
  <2>2. n + 1 \in 1 .. o /\ (n + 1) - 1 = n /\ n <= o
    BY <1>1, <2>1
  <2>3. f[n + 1] = ReadUnit(s, n + 1, f[n])
    BY <1>9, <2>2
  <2>4. f[n] \in Readings
    BY <1>10, <2>2
  <2>5. n + 1 \in 1 .. Len(s)
    BY <2>2 DEF o
  <2>6. ReadUnit(s, n + 1, f[n]) \in Readings
    BY <2>4, <2>5, UnitRead
  <2> QED BY <2>3, <2>6
<1>11. Nat \subseteq Good
  <2> HIDE DEF Good
  <2> QED BY <1>8, <1>10, Induction
<1>12. f \in [0 .. o -> Readings]
  <2>1. f = [n \in 0 .. o |-> f[n]]
    BY <1>6
  <2>2. \A n \in 0 .. o : f[n] \in Readings
    BY <1>1, <1>11
  <2> QED BY <2>1, <2>2
<1>13. f[0] = start
  BY <1>1, <1>6
<1> QED BY <1>7, <1>9, <1>12, <1>13 DEF IsReading, o, start

(* A unit more at the end of two texts is one more at the end of the second. *)
LEMMA AppendBehind ==
  ASSUME NEW x \in Text, NEW z \in Text, NEW u \in Units
  PROVE  Append(x \o z, u) = x \o Append(z, u)
<1> DEFINE v == <<u>>
<1>1. x \in Seq(Units) /\ z \in Seq(Units) /\ v \in Seq(Units)
  BY DEF Text
<1>2. x \o z \in Seq(Units)
  BY <1>1, ConcatProperties
<1>3. Append(z, u) = z \o v /\ Append(x \o z, u) = (x \o z) \o v
  BY <1>1, <1>2, AppendIsConcat
<1> HIDE DEF v
<1>4. (x \o z) \o v = x \o (z \o v)
  BY <1>1, ConcatAssociative
<1> QED BY <1>3, <1>4

(* Text between tags is read as it is, *)
With(b, x, y, more) ==
  IF b THEN At0(b, x, y \o more) ELSE At0(b, x \o more, y)

(* up to the next tag, *)
LEMMA RunOfUnits ==
  ASSUME NEW s \in Text, NEW r, IsReading(s, r), NEW k \in 0 .. Len(s), NEW m \in k .. Len(s),
         NEW b \in BOOLEAN, NEW x \in Text, NEW y \in Text,
         r[k] = At0(b, x, y),
         \A i \in k .. m - 1 : ~At(s, i, TagAfter(b))
  PROVE  r[m] = With(b, x, y, SubSeq(s, k + 1, m))
<1> DEFINE o == Len(s)
           more(n) == SubSeq(s, k + 1, n)
           Good == {n \in Nat : k + n <= m => r[k + n] = With(b, x, y, more(k + n))}
<1>1. o \in Nat /\ k \in Nat /\ m \in Nat /\ k <= m /\ m <= o
  BY DEF Text
<1>2. 0 \in Good
  <2>1. more(k + 0) = <<>>
    BY <1>1, SubSeqEmpty
  <2>2. x \o <<>> = x /\ y \o <<>> = y
    BY ConcatEmptySeq DEF Text
  <2>3. k + 0 = k
    BY <1>1
  <2> HIDE DEF more
  <2> QED BY <2>1, <2>2, <2>3 DEF With
<1>3. \A i \in 1 .. o : s[i] \in Units
  BY DEF Text
<1>4. ASSUME NEW n \in Nat, n \in Good
      PROVE  n + 1 \in Good
  <2>1. SUFFICES ASSUME k + (n + 1) <= m
                 PROVE  r[k + (n + 1)] = With(b, x, y, more(k + (n + 1)))
    OBVIOUS
  <2> DEFINE j == k + n
             u == s[j + 1]
             z == more(j)
  <2>2. /\ j \in Nat /\ k + (n + 1) = j + 1 /\ j \in k .. m - 1 /\ j + 1 \in 1 .. o
        /\ (j + 1) - 1 = j /\ j <= o
    BY <1>1, <2>1
  <2>3. r[j] = With(b, x, y, z)
    BY <1>4, <2>2
  <2>4. u \in Units
    BY <1>3, <2>2
  <2>5. z \in Text /\ more(j + 1) = Append(z, u)
    <3>1. \A i \in k + 1 .. j : s[i] \in Units
      BY <1>1, <1>3, <2>2
    <3>2. z \in Seq(Units)
      BY <1>1, <2>2, <3>1, SubSeqProperties
    <3>3. SubSeq(s, k + 1, j + 1) = SubSeq(s, k + 1, (j + 1) - 1) \o << s[j + 1] >>
      <4>1. k + 1 \in 1 .. o /\ j + 1 \in k + 1 .. o
        BY <1>1, <2>2
      <4> QED BY <4>1, SubSeqRecursiveSecond DEF Text, o
    <3>4. Append(z, u) = z \o <<u>>
      BY <2>4, <3>2, AppendIsConcat
    <3> QED BY <2>2, <3>2, <3>3, <3>4 DEF Text
  <2>6. r[j + 1] = ReadUnit(s, j + 1, r[j])
    BY <2>2 DEF IsReading, o
  <2> HIDE DEF u, more
  <2> HIDE DEF z
  <2>7. x \o z \in Text /\ y \o z \in Text
    BY <2>5, ConcatProperties DEF Text
  <2>8. Append(x \o z, u) = x \o Append(z, u) /\ Append(y \o z, u) = y \o Append(z, u)
    BY <2>4, <2>5, AppendBehind
  <2>9. r[j] \in Readings /\ r[j].skip = 0 /\ r[j].inside = b
    BY <2>3, <2>7 DEF With, At0, Readings
  <2>10. ~At(s, j, TagAfter(b))
    BY <2>2
  <2>11. j + 1 \in 1 .. Len(s)
    BY <2>2 DEF o
  <2> HIDE DEF j
  <2>12. r[j + 1] = Says(r[j], u)
    <3> DEFINE now == r[j]
               i == j + 1
    <3>1. now \in Readings /\ now.skip = 0 /\ now.inside = b /\ i \in 1 .. Len(s) /\ i - 1 = j
      BY <2>2, <2>9, <2>11
    <3>2. u = s[i]
      BY DEF u
    <3> HIDE DEF now, i
    <3>3. ReadUnit(s, i, now) = Says(now, s[i])
      BY <2>10, <3>1, UnitRead
    <3> QED BY <2>6, <3>2, <3>3 DEF now, i
  <2>13. r[j + 1] = With(b, x, y, Append(z, u))
    <3>1. CASE b
      <4> DEFINE w == y \o z
      <4>1. r[j + 1] = Says(At0(b, x, w), u)
        BY <2>3, <2>12, <3>1 DEF With
      <4> HIDE DEF w
      <4>2. r[j + 1] = Plus(b, x, w, u)
        BY <4>1, SaysMore
      <4>3. r[j + 1] = At0(b, x, Append(w, u))
        BY <3>1, <4>2 DEF Plus
      <4> QED BY <2>8, <3>1, <4>3 DEF With, w
    <3>2. CASE ~b
      <4> DEFINE w == x \o z
      <4>1. r[j + 1] = Says(At0(b, w, y), u)
        BY <2>3, <2>12, <3>2 DEF With
      <4> HIDE DEF w
      <4>2. r[j + 1] = Plus(b, w, y, u)
        BY <4>1, SaysMore
      <4>3. r[j + 1] = At0(b, Append(w, u), y)
        BY <3>2, <4>2 DEF Plus
      <4> QED BY <2>8, <3>2, <4>3 DEF With, w
    <3> QED BY <3>1, <3>2
  <2> QED BY <2>2, <2>5, <2>13
<1>5. Nat \subseteq Good
  <2> HIDE DEF Good
  <2> QED BY <1>2, <1>4, Induction
<1>6. m - k \in Nat /\ k + (m - k) = m
  BY <1>1
<1>7. m - k \in Good
  <2> HIDE DEF Good
  <2> QED BY <1>5, <1>6
<1> QED BY <1>1, <1>6, <1>7

(* and a tag turns it to the other side. *)
LEMMA TagIsRead ==
  ASSUME NEW s \in Text, NEW r, IsReading(s, r), NEW k \in 0 .. Len(s),
         NEW b \in BOOLEAN, NEW x \in Text, NEW y \in Text,
         r[k] = At0(b, x, y),
         At(s, k, TagAfter(b))
  PROVE  r[k + Len(TagAfter(b))] = At0(~b, x, y)
<1> DEFINE l == Len(TagAfter(b))
           o == Len(s)
           Left(n) == [skip |-> l - n, inside |-> ~b, text |-> x, thinking |-> y]
           Good == {n \in Nat : 1 <= n /\ n <= l => r[k + n] = Left(n)}
<1>1. l \in Nat /\ l > 1 /\ o \in Nat /\ k \in Nat /\ k + l <= o
  BY TagAfterType DEF At, Text
<1>2. \A n \in 1 .. l : k + n \in 1 .. o /\ k + n - 1 = k + (n - 1)
  BY <1>1
<1>3. \A n \in 1 .. l : r[k + n] = ReadUnit(s, k + n, r[k + (n - 1)])
  BY <1>2 DEF IsReading, o
<1>4. 0 \in Good
  OBVIOUS
<1> HIDE DEF l, o
<1>5. ASSUME NEW n \in Nat, n \in Good
      PROVE  n + 1 \in Good
  <2>1. SUFFICES ASSUME n + 1 <= l PROVE r[k + (n + 1)] = Left(n + 1)
    OBVIOUS
  <2>2. n + 1 \in 1 .. l /\ (n + 1) - 1 = n
    BY <1>1, <2>1
  <2>3. r[k + (n + 1)] = ReadUnit(s, k + (n + 1), r[k + n])
    BY <1>3, <2>2
  <2> DEFINE i == k + (n + 1)
             now == r[k + n]
  <2>4. i \in 1 .. Len(s) /\ i - 1 = k + n /\ r[i] = ReadUnit(s, i, now)
    BY <1>2, <2>2, <2>3 DEF o
  <2>t. now \in Readings
    <3>1. k + n \in 0 .. o
      BY <1>1, <2>2
    <3> QED BY <3>1 DEF IsReading, o
  <2>5. CASE n = 0
    <3>1. k + n = k
      BY <1>1, <2>5
    <3>2. now = At0(b, x, y) /\ now.skip = 0 /\ now.inside = b
      BY <3>1 DEF At0
    <3> HIDE DEF i, now
    <3>3. r[i] = Turns(now)
      <4>1. At(s, i - 1, TagAfter(now.inside))
        BY <2>4, <3>1, <3>2
      <4> QED BY <2>4, <2>t, <3>2, <4>1, UnitRead
    <3>4. r[i] = [skip |-> l - 1, inside |-> ~b, text |-> x, thinking |-> y]
      BY <3>2, <3>3 DEF At0, Turns, l
    <3>5. l - (n + 1) = l - 1
      BY <2>5
    <3> QED BY <3>4, <3>5 DEF i
  <2>6. CASE n # 0
    <3>1. n \in 1 .. l
      BY <1>1, <2>1, <2>6
    <3>2. r[k + n] = Left(n)
      BY <1>5, <3>1
    <3>3. l - n \in Nat /\ l - n > 0 /\ l - n - 1 = l - (n + 1)
      BY <1>1, <2>1
    <3>4. now = Left(n) /\ now.skip > 0
      BY <3>2, <3>3
    <3> HIDE DEF i, now
    <3>5. r[i] = Skips(now)
      BY <2>4, <2>t, <3>4, UnitRead
    <3>6. r[i] = Left(n + 1)
      BY <3>3, <3>4, <3>5 DEF Skips
    <3> QED BY <3>6 DEF i
  <2> QED BY <2>5, <2>6
<1>6. Nat \subseteq Good
  <2> HIDE DEF Good
  <2> QED BY <1>4, <1>5, Induction
<1>7. r[k + l] = Left(l)
  BY <1>1, <1>6
<1>8. l - l = 0
  BY <1>1
<1> QED BY <1>7, <1>8 DEF At0, l

(* One text begins another. *)
Begins(x, y) == \E z \in Text : y = x \o z

(* A text begins itself, *)
LEMMA BeginsItself ==
  ASSUME NEW x \in Text
  PROVE  Begins(x, x)
<1>1. <<>> \in Text /\ x = x \o <<>>
  BY ConcatEmptySeq DEF Text
<1> QED BY <1>1 DEF Begins

(* what begins the beginning of a text begins the text, *)
LEMMA BeginsMore ==
  ASSUME NEW x \in Text, NEW y \in Text, NEW z \in Text, Begins(x, y), Begins(y, z)
  PROVE  Begins(x, z)
<1>1. PICK u \in Text : y = x \o u
  BY DEF Begins
<1>2. PICK v \in Text : z = y \o v
  BY DEF Begins
<1>3. z = x \o (u \o v)
  BY <1>1, <1>2, ConcatAssociative DEF Text
<1>4. u \o v \in Text
  BY ConcatProperties DEF Text
<1> QED BY <1>3, <1>4 DEF Begins

(* also behind the same text, *)
LEMMA BeginsBehind ==
  ASSUME NEW w \in Text, NEW x \in Text, NEW y \in Text, Begins(x, y)
  PROVE  Begins(w \o x, w \o y)
<1>1. PICK u \in Text : y = x \o u
  BY DEF Begins
<1>2. w \o y = (w \o x) \o u
  BY <1>1, ConcatAssociative DEF Text
<1> QED BY <1>2 DEF Begins

(* and it begins what continues it. *)
LEMMA BeginsJoined ==
  ASSUME NEW x \in Text, NEW y \in Text
  PROVE  Begins(x, x \o y)
BY DEF Begins

(* Cut in two, a text is both parts. *)
LEMMA FirstBegins ==
  ASSUME NEW s \in Text, NEW n \in 0 .. Len(s)
  PROVE  First(s, n) \o From(s, n) = s /\ Begins(First(s, n), s)
<1>1. Len(s) \in Nat
  BY DEF Text
<1>2. SubSeq(s, 1, n) \o SubSeq(s, n + 1, Len(s)) = SubSeq(s, 1, Len(s))
  <2>1. 1 \in 1 .. Len(s) + 1 /\ n \in 1 - 1 .. Len(s) /\ Len(s) \in n .. Len(s)
    BY <1>1
  <2> QED BY <2>1, ConcatAdjacentSubSeq DEF Text
<1>3. SubSeq(s, 1, Len(s)) = s
  BY SubSeqFull DEF Text
<1>4. First(s, n) \o From(s, n) = s
  BY <1>2, <1>3 DEF First, From
<1>5. From(s, n) \in Text
  BY Cut
<1> QED BY <1>4, <1>5 DEF Begins

(* It is what SequencesExt calls a prefix. *)
LEMMA BeginsIsPrefix ==
  ASSUME NEW x \in Text, NEW y \in Text, Begins(x, y)
  PROVE  IsPrefix(x, y)
<1>1. PICK z \in Text : y = x \o z
  BY DEF Begins
<1> DEFINE n == Len(x)
           o == Len(y)
<1>2. n \in Nat /\ o \in Nat /\ n <= o /\ \A i \in 1 .. n : y[i] = x[i]
  <2>1. Len(z) \in Nat /\ n \in Nat /\ o = n + Len(z) /\ o \in Nat
    BY <1>1, ConcatProperties DEF Text
  <2>2. n <= o
    BY <2>1
  <2>3. \A i \in 1 .. n + Len(z) : (x \o z)[i] = IF i <= n THEN x[i] ELSE z[i - n]
    BY ConcatProperties DEF Text
  <2>4. \A i \in 1 .. n : i \in 1 .. n + Len(z) /\ i <= n
    BY <2>1
  <2> QED BY <1>1, <2>1, <2>2, <2>3, <2>4
<1>3. First(y, n) = x
  <2>1. n \in 0 .. Len(y)
    BY <1>2
  <2>2. First(y, n) \in Text /\ Len(First(y, n)) = n /\ \A i \in 1 .. n : First(y, n)[i] = y[i]
    BY <2>1, Cut, CutAt
  <2> QED BY <1>2, <2>2, SeqEqual DEF Text
<1>4. SubSeq(x, 1, n) = x
  BY SubSeqFull DEF Text
<1> QED BY <1>2, <1>3, <1>4 DEF IsPrefix, First

(* What is read only grows, by a unit at a time. *)
LEMMA ReadingGrows ==
  ASSUME NEW s \in Text, NEW r, IsReading(s, r), NEW k \in 0 .. Len(s), NEW m \in k .. Len(s)
  PROVE  /\ r[k] \in Readings /\ r[m] \in Readings
         /\ Begins(r[k].text, r[m].text) /\ Begins(r[k].thinking, r[m].thinking)
         /\ Len(r[m].text) <= Len(r[k].text) + (m - k)
<1> DEFINE o == Len(s)
           Grown(n) == /\ Begins(r[k].text, r[k + n].text) /\ Begins(r[k].thinking, r[k + n].thinking)
                       /\ Len(r[k + n].text) <= Len(r[k].text) + n
           Good == {n \in Nat : k + n <= m => Grown(n)}
<1>1. o \in Nat /\ k \in Nat /\ m \in Nat /\ k <= m /\ m <= o
  BY DEF Text
<1>2. \A n \in 0 .. o : r[n] \in Readings
  BY DEF IsReading, o
<1>3. \A n \in 0 .. o : r[n].text \in Text /\ r[n].thinking \in Text
  BY <1>2 DEF Readings
<1>4. 0 \in Good
  <2>1. k + 0 = k /\ k \in 0 .. o
    BY <1>1
  <2>2. Begins(r[k].text, r[k].text) /\ Begins(r[k].thinking, r[k].thinking)
    BY <1>3, <2>1, BeginsItself
  <2>3. Len(r[k].text) <= Len(r[k].text) + 0
    BY <1>3, <2>1 DEF Text
  <2> QED BY <2>1, <2>2, <2>3
<1>5. ASSUME NEW n \in Nat, n \in Good
      PROVE  n + 1 \in Good
  <2>1. SUFFICES ASSUME k + (n + 1) <= m PROVE Grown(n + 1)
    <3> HIDE DEF Grown
    <3> QED OBVIOUS
  <2> DEFINE j == k + n
             i == k + (n + 1)
             now == r[j]
             next == r[i]
  <2>2. j \in 0 .. o /\ i \in 1 .. o /\ i - 1 = j /\ j <= m /\ k \in 0 .. o /\ i \in 0 .. o
    BY <1>1, <2>1
  <2>3. Grown(n)
    BY <1>5, <2>2
  <2>4. next = ReadUnit(s, i, now) /\ i \in 1 .. Len(s) /\ now \in Readings
    BY <1>2, <2>2 DEF IsReading, o
  <2>5. s[i] \in Units
    BY <2>4 DEF Text
  <2> DEFINE u == s[i]
  <2>6. now.text \in Text /\ now.thinking \in Text /\ r[k].text \in Text /\ r[k].thinking \in Text
        /\ next.text \in Text /\ next.thinking \in Text
    BY <1>3, <2>2
  <2> HIDE DEF i, now, next, u
  <2>7. next \in {Skips(now), Turns(now), Says(now, u)}
    BY <2>4, UnitRead DEF u, Readings
  <2>8. /\ next.text \in {now.text, Append(now.text, u)}
        /\ next.thinking \in {now.thinking, Append(now.thinking, u)}
    BY <2>4, <2>7 DEF Skips, Turns, Says, Readings
  <2>9. ASSUME NEW t \in Text, NEW v \in Text, v \in {t, Append(t, u)}
        PROVE  Begins(t, v) /\ Len(v) <= Len(t) + 1
    <3>1. CASE v = t
      BY <3>1, BeginsItself DEF Text
    <3>2. CASE v = Append(t, u)
      <4>1. v = t \o <<u>> /\ <<u>> \in Text /\ Len(v) = Len(t) + 1 /\ Len(t) \in Nat
        BY <2>5, <3>2, AppendIsConcat, AppendProperties DEF Text, u
      <4>2. Begins(t, v)
        BY <4>1 DEF Begins
      <4>3. Len(v) <= Len(t) + 1
        BY <4>1
      <4> QED BY <4>2, <4>3
    <3> QED BY <2>9, <3>1, <3>2
  <2>10. Begins(now.text, next.text) /\ Begins(now.thinking, next.thinking)
         /\ Len(next.text) <= Len(now.text) + 1
    BY <2>6, <2>8, <2>9
  <2>11. Begins(r[k].text, next.text) /\ Begins(r[k].thinking, next.thinking)
    BY <2>3, <2>6, <2>10, BeginsMore DEF now
  <2>12. Len(next.text) <= Len(r[k].text) + (n + 1)
    <3> DEFINE a == Len(next.text)
               b == Len(now.text)
               c == Len(r[k].text)
    <3>1. a \in Nat /\ b \in Nat /\ c \in Nat
      BY <2>6 DEF Text
    <3>2. a <= b + 1 /\ b <= c + n
      BY <2>3, <2>10 DEF now
    <3> HIDE DEF a, b, c
    <3>3. a <= c + (n + 1)
      BY <3>1, <3>2
    <3> QED BY <3>3 DEF a, c
  <2> QED BY <2>11, <2>12 DEF next, i
<1>6. Nat \subseteq Good
  <2> HIDE DEF Good
  <2> QED BY <1>4, <1>5, Induction
<1>7. m - k \in Nat /\ k + (m - k) = m
  BY <1>1
<1>8. m - k \in Good
  <2> HIDE DEF Good
  <2> QED BY <1>6, <1>7
<1>9. Grown(m - k)
  BY <1>1, <1>7, <1>8
<1>10. r[k] \in Readings /\ r[m] \in Readings
  BY <1>1, <1>2
<1> QED BY <1>7, <1>9, <1>10

(* What stands in a text stands there whatever follows it, *)
LEMMA AtStays ==
  ASSUME NEW s \in Text, NEW e \in Text, NEW p \in Text, NEW i \in Nat, i + Len(p) <= Len(s)
  PROVE  At(s \o e, i, p) <=> At(s, i, p)
<1>1. /\ Len(s) \in Nat /\ Len(e) \in Nat /\ Len(p) \in Nat
      /\ Len(s \o e) = Len(s) + Len(e)
      /\ \A j \in 1 .. Len(s) + Len(e) : (s \o e)[j] = IF j <= Len(s) THEN s[j] ELSE e[j - Len(s)]
  BY ConcatProperties DEF Text
<1>2. \A m \in 1 .. Len(p) : i + m \in 1 .. Len(s) + Len(e) /\ i + m <= Len(s)
  BY <1>1
<1>3. \A m \in 1 .. Len(p) : (s \o e)[i + m] = s[i + m]
  BY <1>1, <1>2
<1>4. i + Len(p) <= Len(s \o e)
  BY <1>1
<1> QED BY <1>3, <1>4 DEF At

(* and what stands behind k units of one in the rest. *)
LEMMA AtBehind ==
  ASSUME NEW s \in Text, NEW e \in Text, NEW p \in Text, NEW k \in 0 .. Len(s), NEW i \in Nat
  PROVE  At(s \o e, k + i, p) <=> At(From(s, k) \o e, i, p)
<1> DEFINE t == From(s, k)
<1>1. /\ Len(s) \in Nat /\ Len(e) \in Nat /\ Len(p) \in Nat
      /\ Len(s \o e) = Len(s) + Len(e)
      /\ \A j \in 1 .. Len(s) + Len(e) : (s \o e)[j] = IF j <= Len(s) THEN s[j] ELSE e[j - Len(s)]
  BY ConcatProperties DEF Text
<1>2. t \in Text /\ Len(t) = Len(s) - k /\ \A j \in 1 .. Len(s) - k : t[j] = s[k + j]
  BY Cut, CutAt
<1> HIDE DEF t
<1>3. /\ Len(t \o e) = Len(t) + Len(e)
      /\ \A j \in 1 .. Len(t) + Len(e) : (t \o e)[j] = IF j <= Len(t) THEN t[j] ELSE e[j - Len(t)]
  BY <1>2, ConcatProperties DEF Text
<1> DEFINE o == Len(s)
           l == Len(e)
           n == Len(p)
           x == s \o e
           y == t \o e
<1>4. o \in Nat /\ l \in Nat /\ n \in Nat /\ Len(x) = o + l /\ Len(y) = o - k + l
  BY <1>1, <1>2, <1>3
<1>5. ASSUME NEW j \in 1 .. o - k + l
      PROVE  x[k + j] = y[j]
  <2>1. k + j \in 1 .. o + l /\ j \in 1 .. Len(t) + l
    BY <1>2, <1>4
  <2>2. x[k + j] = IF k + j <= o THEN s[k + j] ELSE e[k + j - o]
    BY <1>1, <2>1
  <2>3. y[j] = IF j <= Len(t) THEN t[j] ELSE e[j - Len(t)]
    BY <1>3, <2>1
  <2>4. CASE j <= o - k
    <3>1. k + j <= o /\ j <= Len(t) /\ j \in 1 .. o - k
      BY <1>2, <1>4, <2>4
    <3> QED BY <1>2, <2>2, <2>3, <3>1
  <2>5. CASE ~(j <= o - k)
    <3>1. ~(k + j <= o) /\ ~(j <= Len(t)) /\ k + j - o = j - Len(t)
      BY <1>2, <1>4, <2>5
    <3> QED BY <2>2, <2>3, <3>1
  <2> QED BY <2>4, <2>5
<1> HIDE DEF o, l, n, x, y
<1>6. k + i + n <= Len(x) <=> i + n <= Len(y)
  BY <1>4 DEF o
<1>7. ASSUME i + n <= Len(y), NEW m \in 1 .. n
      PROVE  x[k + i + m] = y[i + m]
  <2>1. i + m \in 1 .. o - k + l /\ k + (i + m) = k + i + m
    BY <1>4, <1>7 DEF o
  <2> QED BY <1>5, <2>1
<1>8. At(x, k + i, p) <=> k + i + n <= Len(x) /\ \A m \in 1 .. n : x[k + i + m] = p[m]
  BY DEF At, n
<1>9. At(y, i, p) <=> i + n <= Len(y) /\ \A m \in 1 .. n : y[i + m] = p[m]
  BY DEF At, n
<1> QED BY <1>6, <1>7, <1>8, <1>9 DEF x, y, t

(* Where the parser cuts its buffer *)
CutsAt(buffer, tag) ==
  IF Occurrences(buffer, tag) # {} THEN Min(Occurrences(buffer, tag))
  ELSE Len(buffer) - Partial(buffer, tag)

(* there is no tag before, whatever follows, and there is one if it found it. *)
LEMMA CutIsRight ==
  ASSUME NEW s \in Text, NEW p \in Text \ {<<>>}
  PROVE  LET i == CutsAt(s, p)
         IN /\ i \in 0 .. Len(s)
            /\ \A e \in Text : \A j \in 0 .. i - 1 : ~At(s \o e, j, p)
            /\ Occurrences(s, p) # {} =>
                 i + Len(p) <= Len(s) /\ \A e \in Text : At(s \o e, i, p)
            /\ Occurrences(s, p) = {} => Len(s) - i < Len(p)
<1> DEFINE i == CutsAt(s, p)
           o == Len(s)
           n == Len(p)
<1>1. o \in Nat /\ n \in Nat
  BY DEF Text
<1>2. \A j \in Nat : j \notin Occurrences(s, p) => j + n > o \/ ~At(s, j, p)
  <2>1. \A j \in Nat : j + n <= o => j \in 0 .. o
    BY <1>1
  <2> QED BY <1>1, <2>1, OccursAt
<1>3. CASE Occurrences(s, p) # {}
  <2>1. i \in Occurrences(s, p) /\ \A j \in Occurrences(s, p) : i <= j
    <3>1. Occurrences(s, p) \subseteq Nat
      BY OccursAt
    <3> QED BY <1>3, <3>1, MinOf DEF CutsAt
  <2>2. i \in 0 .. o /\ At(s, i, p) /\ i + n <= o
    BY <2>1, OccursAt DEF At
  <2> HIDE DEF i
  <2>3. \A e \in Text : At(s \o e, i, p)
    BY <2>2, AtStays
  <2>4. ASSUME NEW e \in Text, NEW j \in 0 .. i - 1
        PROVE  ~At(s \o e, j, p)
    <3>1. j \in Nat /\ j + n <= o /\ j < i
      BY <1>1, <2>2
    <3>2. j \notin Occurrences(s, p)
      BY <2>1, <2>2, <3>1
    <3>3. ~At(s, j, p)
      BY <1>1, <1>2, <3>1, <3>2
    <3> QED BY <3>1, <3>3, AtStays
  <2> QED BY <1>3, <2>2, <2>3, <2>4 DEF i
<1>4. CASE Occurrences(s, p) = {}
  <2> DEFINE q == Overlap(s, p)
  <2>1. i = o - q
    BY <1>4 DEF CutsAt, Partial
  <2>2. /\ q \in 0 .. o /\ q < n
        /\ \A m \in 0 .. o : m < n /\ m > q => \E h \in 1 .. m : s[o - m + h] # p[h]
    BY OverlapIs
  <2> HIDE DEF q, i
  <2>3. i \in 0 .. o /\ o - i < n
    BY <1>1, <2>1, <2>2
  <2>4. ASSUME NEW e \in Text, NEW j \in 0 .. i - 1
        PROVE  ~At(s \o e, j, p)
    <3>1. j \in Nat /\ j < o
      BY <1>1, <2>3
    <3>2. CASE j + n <= o
      <4>1. ~At(s, j, p)
        BY <1>1, <1>2, <1>4, <3>1, <3>2
      <4> QED BY <3>1, <3>2, <4>1, AtStays
    <3>3. CASE ~(j + n <= o)
      <4> DEFINE m == o - j
      <4>1. m \in 0 .. o /\ m < n /\ m > q /\ o - m = j
        BY <1>1, <2>1, <2>2, <3>1, <3>3
      <4>2. PICK h \in 1 .. m : s[o - m + h] # p[h]
        BY <2>2, <4>1
      <4>3. h \in 1 .. n /\ j + h \in 1 .. o /\ s[j + h] # p[h]
        BY <1>1, <4>1, <4>2
      <4>4. (s \o e)[j + h] = s[j + h]
        <5>1. Len(e) \in Nat /\ \A a \in 1 .. o + Len(e) :
                (s \o e)[a] = IF a <= o THEN s[a] ELSE e[a - o]
          BY ConcatProperties DEF Text
        <5>2. j + h \in 1 .. o + Len(e) /\ j + h <= o
          BY <1>1, <4>3, <5>1
        <5> QED BY <5>1, <5>2
      <4> QED BY <4>3, <4>4 DEF At
    <3> QED BY <3>2, <3>3
  <2> QED BY <1>4, <2>3, <2>4 DEF i
<1> QED BY <1>3, <1>4

(* A rest of a rest is a rest, *)
LEMMA RestOfRest ==
  ASSUME NEW s \in Text, NEW k \in 0 .. Len(s), NEW i \in 0 .. Len(s) - k
  PROVE  From(From(s, k), i) = From(s, k + i)
<1> DEFINE t == From(s, k)
           u == From(t, i)
           v == From(s, k + i)
           o == Len(s)
<1>1. o \in Nat /\ k + i \in 0 .. o
  BY DEF Text
<1>2. t \in Text /\ Len(t) = o - k /\ \A m \in 1 .. o - k : t[m] = s[k + m]
  BY Cut, CutAt
<1> HIDE DEF t
<1>3. /\ u \in Text /\ Len(u) = o - k - i
      /\ \A m \in 1 .. o - k - i : u[m] = t[i + m]
  <2>1. i \in 0 .. Len(t)
    BY <1>2
  <2> QED BY <1>2, <2>1, Cut, CutAt
<1>4. /\ v \in Text /\ Len(v) = o - k - i
      /\ \A m \in 1 .. o - k - i : v[m] = s[k + i + m]
  <2>1. Len(v) = o - (k + i) /\ v \in Text /\ \A m \in 1 .. o - (k + i) : v[m] = s[(k + i) + m]
    BY <1>1, Cut, CutAt
  <2>2. o - (k + i) = o - k - i
    BY <1>1
  <2> QED BY <2>1, <2>2
<1> HIDE DEF u, v
<1>5. \A m \in 1 .. o - k - i : u[m] = v[m]
  <2> TAKE m \in 1 .. o - k - i
  <2>1. i + m \in 1 .. o - k /\ k + (i + m) = k + i + m
    BY <1>1
  <2>2. u[m] = s[k + (i + m)]
    BY <1>2, <1>3, <2>1
  <2> QED BY <1>4, <2>1, <2>2
<1>6. u = v
  BY <1>3, <1>4, <1>5, SeqEqual DEF Text
<1> QED BY <1>6 DEF u, v, t

(* and the beginning of a rest a part of the whole. *)
LEMMA FirstOfRest ==
  ASSUME NEW s \in Text, NEW e \in Text, NEW k \in 0 .. Len(s), NEW i \in 0 .. Len(s) - k
  PROVE  SubSeq(s \o e, k + 1, k + i) = First(From(s, k), i)
<1> DEFINE t == From(s, k)
           u == First(t, i)
           w == s \o e
           v == SubSeq(w, k + 1, k + i)
           o == Len(s)
<1>1. o \in Nat /\ k \in Nat /\ i \in Nat
  BY DEF Text
<1>2. t \in Text /\ Len(t) = o - k /\ \A m \in 1 .. o - k : t[m] = s[k + m]
  BY Cut, CutAt
<1> HIDE DEF t
<1>3. /\ u \in Text /\ Len(u) = i
      /\ \A m \in 1 .. i : u[m] = t[m]
  <2>1. i \in 0 .. Len(t)
    BY <1>2
  <2> QED BY <1>2, <2>1, Cut, CutAt
<1>4. \A j \in 1 .. o : w[j] = s[j] /\ s[j] \in Units
  <2>1. Len(e) \in Nat /\ \A j \in 1 .. o + Len(e) : w[j] = IF j <= o THEN s[j] ELSE e[j - o]
    BY ConcatProperties DEF Text
  <2>2. \A j \in 1 .. o : j \in 1 .. o + Len(e) /\ j <= o
    BY <1>1, <2>1
  <2>3. \A j \in 1 .. o : s[j] \in Units
    BY DEF Text
  <2> HIDE DEF w, o
  <2> QED BY <2>1, <2>2, <2>3
<1> HIDE DEF w
<1>5. /\ v \in Text /\ Len(v) = i
      /\ \A m \in 1 .. i : v[m] = w[k + m]
  <2>1. k + 1 \in Int /\ k + i \in Int /\ \A j \in k + 1 .. k + i : w[j] \in Units
    BY <1>1, <1>4
  <2>2. /\ v \in Seq(Units) /\ Len(v) = IF k + 1 <= k + i THEN k + i - (k + 1) + 1 ELSE 0
        /\ \A m \in 1 .. k + i - (k + 1) + 1 : v[m] = w[k + 1 + m - 1]
    BY <2>1, SubSeqProperties
  <2>3. k + i - (k + 1) + 1 = i /\ (~(k + 1 <= k + i) => i = 0)
    BY <1>1
  <2>4. \A m \in 1 .. i : k + 1 + m - 1 = k + m
    BY <1>1
  <2> HIDE DEF v
  <2>5. \A m \in 1 .. i : v[m] = w[k + m]
    <3> TAKE m \in 1 .. i
    <3>1. m \in 1 .. k + i - (k + 1) + 1
      BY <2>3
    <3> QED BY <2>2, <2>4, <3>1
  <2>6. Len(v) = i
    BY <2>2, <2>3
  <2> QED BY <2>2, <2>5, <2>6 DEF Text
<1> HIDE DEF u, v
<1>6. \A m \in 1 .. i : u[m] = v[m]
  <2> TAKE m \in 1 .. i
  <2>1. m \in 1 .. o - k /\ k + m \in 1 .. o
    BY <1>1
  <2> QED BY <1>2, <1>3, <1>4, <1>5, <2>1
<1>7. u = v
  BY <1>3, <1>5, <1>6, SeqEqual DEF Text
<1> QED BY <1>7 DEF u, v, t, w

(* Whatever follows T, its first k units read x outside tags and y within. *)
ReadsTo(T, k, b, x, y) == \A e \in Text : Reading(T \o e)[k] = At0(b, x, y)

(* The parser has all but what it holds, and read what the reading says, *)
Parsed(T, p, X, Y) ==
  \E k \in 0 .. Len(T) :
    /\ p.tagBuf = From(T, k)
    /\ ReadsTo(T, k, p.inside, X \o p.text, Y \o p.thinking)

(* and holds less than a tag. *)
Settled(p) == Len(p.tagBuf) < Len(TagAfter(p.inside))

(* What a round makes of the buffer *)
LEMMA RoundIs ==
  ASSUME NEW p \in Parses
  PROVE  LET tag   == TagAfter(p.inside)
             i     == CutsAt(p.tagBuf, tag)
             found == Occurrences(p.tagBuf, tag) # {}
             more  == First(p.tagBuf, i)
             q     == ParseRound(p)
         IN /\ q.tagBuf = From(p.tagBuf, IF found THEN i + Len(tag) ELSE i)
            /\ q.inside = IF found THEN ~p.inside ELSE p.inside
            /\ q.text = IF p.inside THEN p.text ELSE p.text \o more
            /\ q.thinking = IF p.inside THEN p.thinking \o more ELSE p.thinking
<1> DEFINE tag == TagAfter(p.inside)
           i == CutsAt(p.tagBuf, tag)
           found == Occurrences(p.tagBuf, tag)
           more == First(p.tagBuf, i)
<1>1. ParseRound(p) =
        [text     |-> IF p.inside THEN p.text ELSE p.text \o more,
         thinking |-> IF p.inside THEN p.thinking \o more ELSE p.thinking,
         tagBuf   |-> From(p.tagBuf, IF found # {} THEN i + Len(tag) ELSE i),
         inside   |-> p.inside # (found # {}),
         seen     |-> p.seen \/ (found # {} /\ ~p.inside)]
  BY DEF ParseRound, CutsAt, TagAfter
<1>2. p.inside \in BOOLEAN
  BY DEF Parses
<1>3. (p.inside # (found # {})) = IF found # {} THEN ~p.inside ELSE p.inside
  BY <1>2
<1> HIDE DEF more, i, found, tag
<1>4. ParseRound(p).inside = IF found # {} THEN ~p.inside ELSE p.inside
  BY <1>1, <1>3
<1>5. /\ ParseRound(p).tagBuf = From(p.tagBuf, IF found # {} THEN i + Len(tag) ELSE i)
      /\ ParseRound(p).text = IF p.inside THEN p.text ELSE p.text \o more
      /\ ParseRound(p).thinking = IF p.inside THEN p.thinking \o more ELSE p.thinking
  BY <1>1
<1> QED BY <1>4, <1>5 DEF more, i, found, tag

(* A round reads on as the reading does, *)
LEMMA RoundReads ==
  ASSUME NEW T \in Text, NEW p \in Parses, NEW X \in Text, NEW Y \in Text, Parsed(T, p, X, Y)
  PROVE  Parsed(T, ParseRound(p), X, Y)
<1> DEFINE b == p.inside
           tag == TagAfter(b)
           kept == p.tagBuf
           i == CutsAt(kept, tag)
           found == Occurrences(kept, tag) # {}
           more == First(kept, i)
           q == ParseRound(p)
           j == IF found THEN i + Len(tag) ELSE i
           x == X \o p.text
           y == Y \o p.thinking
<1>1. PICK k \in 0 .. Len(T) : kept = From(T, k) /\ ReadsTo(T, k, b, x, y)
  BY DEF Parsed
<1>2. /\ b \in BOOLEAN /\ kept \in Text /\ p.text \in Text /\ p.thinking \in Text
      /\ q \in Parses
  BY RoundType DEF Parses
<1>3. q.text \in Text /\ q.thinking \in Text
  <2> HIDE DEF q
  <2> QED BY <1>2 DEF Parses
<1>4. /\ q.tagBuf = From(kept, j) /\ q.inside = IF found THEN ~b ELSE b
      /\ q.text = IF b THEN p.text ELSE p.text \o more
      /\ q.thinking = IF b THEN p.thinking \o more ELSE p.thinking
  BY RoundIs
<1>5. tag \in Text \ {<<>>} /\ Len(tag) \in Nat
  BY <1>2, TagAfterType
<1>6. /\ i \in 0 .. Len(kept)
      /\ \A e \in Text : \A a \in 0 .. i - 1 : ~At(kept \o e, a, tag)
      /\ found => i + Len(tag) <= Len(kept) /\ \A e \in Text : At(kept \o e, i, tag)
  BY <1>2, <1>5, CutIsRight
<1>7. Len(kept) = Len(T) - k /\ Len(T) \in Nat
  BY <1>1, Cut DEF Text
<1>8. x \in Text /\ y \in Text
  BY <1>2, ConcatProperties DEF Text
<1>9. more \in Text
  BY <1>2, <1>6, Cut
<1> DEFINE x1 == X \o q.text
           y1 == Y \o q.thinking
<1>10. With(b, x, y, more) = At0(b, x1, y1)
  <2> HIDE DEF more, q
  <2>1. CASE b
    <3>1. y \o more = Y \o (p.thinking \o more)
      <4> DEFINE t == p.thinking
      <4>1. t \in Seq(Units) /\ more \in Seq(Units) /\ Y \in Seq(Units)
        BY <1>2, <1>9 DEF Text
      <4> HIDE DEF t
      <4>2. (Y \o t) \o more = Y \o (t \o more)
        BY <4>1, ConcatAssociative
      <4> QED BY <4>2 DEF t
    <3> QED BY <1>4, <2>1, <3>1 DEF With
  <2>2. CASE ~b
    <3>1. x \o more = X \o (p.text \o more)
      <4> DEFINE t == p.text
      <4>1. t \in Seq(Units) /\ more \in Seq(Units) /\ X \in Seq(Units)
        BY <1>2, <1>9 DEF Text
      <4> HIDE DEF t
      <4>2. (X \o t) \o more = X \o (t \o more)
        BY <4>1, ConcatAssociative
      <4> QED BY <4>2 DEF t
    <3> QED BY <1>4, <2>2, <3>1 DEF With
  <2> QED BY <2>1, <2>2
<1>11. x1 \in Text /\ y1 \in Text
  BY <1>3, ConcatProperties DEF Text
<1> HIDE DEF x1, y1, x, y, q, i, tag, b, kept
<1>12. ASSUME NEW e \in Text
       PROVE  Reading(T \o e)[k + j] = At0(q.inside, x1, y1)
  <2> DEFINE s == T \o e
             r == Reading(s)
  <2>1. s \in Text /\ Len(s) = Len(T) + Len(e) /\ Len(e) \in Nat
    BY ConcatProperties DEF Text
  <2>2. IsReading(s, r)
    BY <2>1, ReadingOf
  <2>3. r[k] = At0(b, x, y)
    BY <1>1 DEF ReadsTo
  <2>4. k \in 0 .. Len(s) /\ k + i \in k .. Len(s) /\ k + i \in 0 .. Len(s)
    BY <1>6, <1>7, <2>1
  <2>5. ASSUME NEW a \in k .. k + i - 1
        PROVE  ~At(s, a, TagAfter(b))
    <3>1. a - k \in 0 .. i - 1 /\ a - k \in Nat /\ k + (a - k) = a
      BY <1>6, <1>7
    <3>2. ~At(kept \o e, a - k, tag)
      BY <1>6, <3>1
    <3>3. At(s, k + (a - k), tag) <=> At(From(T, k) \o e, a - k, tag)
      BY <1>5, <3>1, AtBehind
    <3> QED BY <1>1, <3>1, <3>2, <3>3 DEF tag
  <2>6. SubSeq(s, k + 1, k + i) = more
    <3>1. i \in 0 .. Len(T) - k
      BY <1>6, <1>7
    <3>2. SubSeq(s, k + 1, k + i) = First(From(T, k), i)
      BY <3>1, FirstOfRest
    <3> QED BY <1>1, <3>2
  <2> HIDE DEF s, r
  <2>7. r[k + i] = At0(b, x1, y1)
    <3>1. r[k + i] = With(b, x, y, SubSeq(s, k + 1, k + i))
      <4> DEFINE m == k + i
      <4>1. m \in k .. Len(s)
        BY <2>4
      <4>2. ASSUME NEW a \in k .. m - 1
            PROVE  ~At(s, a, TagAfter(b))
        <5>1. a \in k .. k + i - 1
          BY <1>6, <1>7 DEF m
        <5> QED BY <2>5, <5>1
      <4> HIDE DEF m
      <4>3. r[m] = With(b, x, y, SubSeq(s, k + 1, m))
        BY <1>2, <1>8, <2>1, <2>2, <2>3, <2>4, <4>1, <4>2, RunOfUnits
      <4> QED BY <4>3 DEF m
    <3> QED BY <1>10, <2>6, <3>1
  <2>8. CASE ~found
    BY <1>4, <2>7, <2>8 DEF r, s
  <2>9. CASE found
    <3>1. At(kept \o e, i, tag)
      BY <1>6, <2>9
    <3>2. At(s, k + i, tag) <=> At(From(T, k) \o e, i, tag)
      BY <1>5, <1>6, AtBehind DEF s
    <3>3. At(s, k + i, TagAfter(b))
      BY <1>1, <3>1, <3>2 DEF tag
    <3>4. r[k + i + Len(TagAfter(b))] = At0(~b, x1, y1)
      BY <1>2, <1>11, <2>1, <2>2, <2>4, <2>7, <3>3, TagIsRead
    <3>5. k + i + Len(tag) = k + j
      BY <1>5, <1>6, <1>7, <2>9
    <3> QED BY <1>4, <2>9, <3>4, <3>5 DEF r, s, tag
  <2> QED BY <2>8, <2>9
<1>13. j \in 0 .. Len(kept) /\ k + j \in 0 .. Len(T)
  BY <1>5, <1>6, <1>7
<1>14. q.tagBuf = From(T, k + j)
  <2>1. j \in 0 .. Len(T) - k
    BY <1>7, <1>13
  <2> QED BY <1>1, <1>4, <2>1, RestOfRest
<1> HIDE DEF j, found
<1>15. ReadsTo(T, k + j, q.inside, x1, y1)
  BY <1>12 DEF ReadsTo
<1> QED BY <1>13, <1>14, <1>15 DEF Parsed, x1, y1, q

(* and comes nearer to the end. *)
LEMMA RoundSettles ==
  ASSUME NEW p \in Parses
  PROVE  /\ Settled(p) => Settled(ParseRound(p))
         /\ Settled(ParseRound(p)) \/ Len(ParseRound(p).tagBuf) + 2 <= Len(p.tagBuf)
<1> DEFINE b == p.inside
           tag == TagAfter(b)
           kept == p.tagBuf
           i == CutsAt(kept, tag)
           found == Occurrences(kept, tag) # {}
           q == ParseRound(p)
           j == IF found THEN i + Len(tag) ELSE i
<1>1. b \in BOOLEAN /\ kept \in Text /\ Len(kept) \in Nat
  BY DEF Parses, Text
<1>2. q.tagBuf = From(kept, j) /\ q.inside = IF found THEN ~b ELSE b
  BY RoundIs
<1>3. tag \in Text \ {<<>>} /\ Len(tag) \in Nat /\ Len(tag) > 1
  BY <1>1, TagAfterType
<1>4. /\ i \in 0 .. Len(kept)
      /\ found => i + Len(tag) <= Len(kept)
      /\ ~found => Len(kept) - i < Len(tag)
  BY <1>1, <1>3, CutIsRight
<1> HIDE DEF i, found, kept, tag, q
<1>5. j \in 0 .. Len(kept)
  BY <1>1, <1>3, <1>4
<1>6. Len(q.tagBuf) = Len(kept) - j
  BY <1>1, <1>2, <1>5, Cut
<1>7. CASE found
  <2> DEFINE h == Len(kept)
             l == Len(tag)
             v == Len(q.tagBuf)
  <2>1. h \in Nat /\ l \in Nat /\ l > 1 /\ i \in Nat /\ i + l <= h /\ v = h - (i + l)
    BY <1>1, <1>3, <1>4, <1>6, <1>7
  <2> HIDE DEF h, l, v
  <2>2. v + 2 <= h /\ ~(h < l)
    BY <2>1
  <2> QED BY <2>2 DEF Settled, h, l, v, q, tag, kept, b
<1>8. CASE ~found
  <2>1. Len(q.tagBuf) < Len(TagAfter(q.inside))
    BY <1>1, <1>2, <1>3, <1>4, <1>6, <1>8 DEF tag
  <2> QED BY <2>1 DEF Settled, q
<1> QED BY <1>7, <1>8

(* Its last round leaves less than a tag. *)
LEMMA ParseSettles ==
  ASSUME NEW a, a.tagBuf \in Text, a.inside \in BOOLEAN, NEW delta \in Text
  PROVE  Settled(ParseThinkingTags(a, delta))
<1> DEFINE whole == a.tagBuf \o delta
           o == Len(whole)
<1>1. PICK f : IsParse(a, delta, f)
  BY ParseRounds
<1>2. whole \in Text /\ o \in Nat
  BY ConcatProperties DEF Text
<1>3. /\ f[0] = ParseStart(a, delta)
      /\ ParseThinkingTags(a, delta) = f[o]
      /\ \A n \in Nat : f[n] \in Parses /\ f[n + 1] = ParseRound(f[n])
  BY <1>1 DEF IsParse
<1> DEFINE Good == {n \in Nat : Settled(f[n]) \/ Len(f[n].tagBuf) + 2 * n <= o}
<1>4. 0 \in Good
  <2>1. f[0].tagBuf = whole
    <3> DEFINE start == ParseStart(a, delta)
    <3>1. start.tagBuf = whole
      BY DEF ParseStart
    <3> HIDE DEF start, whole
    <3> QED BY <1>3, <3>1 DEF start
  <2>2. Len(f[0].tagBuf) + 2 * 0 <= o
    BY <1>2, <2>1
  <2> QED BY <1>3, <2>2
<1>5. ASSUME NEW n \in Nat, n \in Good
      PROVE  n + 1 \in Good
  <2>1. f[n] \in Parses /\ f[n + 1] = ParseRound(f[n]) /\ f[n + 1] \in Parses
    <3>1. n + 1 \in Nat
      OBVIOUS
    <3> HIDE DEF o
    <3> QED BY <1>3, <3>1
  <2>3. /\ Settled(f[n]) => Settled(f[n + 1])
        /\ Settled(f[n + 1]) \/ Len(f[n + 1].tagBuf) + 2 <= Len(f[n].tagBuf)
    BY <2>1, RoundSettles
  <2>4. Settled(f[n + 1]) \/ Len(f[n + 1].tagBuf) + 2 * (n + 1) <= o
    <3> DEFINE u == Len(f[n].tagBuf)
               v == Len(f[n + 1].tagBuf)
    <3>1. u \in Nat /\ v \in Nat
      BY <2>1 DEF Parses, Text
    <3>2. Settled(f[n]) \/ u + 2 * n <= o
      BY <1>5
    <3> HIDE DEF u, v
    <3>3. v + 2 <= u /\ u + 2 * n <= o => v + 2 * (n + 1) <= o
      BY <1>2, <3>1
    <3> QED BY <2>3, <3>2, <3>3 DEF u, v
  <2>5. n + 1 \in Nat
    OBVIOUS
  <2> HIDE DEF o
  <2> QED BY <2>4, <2>5
<1>6. o \in Good
  <2> HIDE DEF Good, o
  <2> QED BY <1>2, <1>4, <1>5, Induction
<1> DEFINE p == f[o]
<1>7. p \in Parses /\ p.inside \in BOOLEAN /\ Len(p.tagBuf) \in Nat
  <2>1. p \in Parses
    BY <1>2, <1>3
  <2> QED BY <2>1 DEF Parses, Text
<1>8. Settled(p)
  <2>1. Settled(p) \/ Len(p.tagBuf) + 2 * o <= o
    BY <1>6
  <2>2. Len(TagAfter(p.inside)) > 1 /\ Len(TagAfter(p.inside)) \in Nat
    BY <1>7, TagAfterType
  <2> DEFINE u == Len(p.tagBuf)
             l == Len(TagAfter(p.inside))
  <2>3. Settled(p) <=> u < l
    BY DEF Settled
  <2>4. u \in Nat /\ l \in Nat /\ l > 1
    BY <1>7, <2>2
  <2>5. Settled(p) \/ u + 2 * o <= o
    BY <2>1
  <2> HIDE DEF p, o, u, l
  <2>6. u + 2 * o <= o => u < l
    BY <1>2, <2>4
  <2> QED BY <2>3, <2>5, <2>6
<1> QED BY <1>3, <1>8

(* The whole parser reads what the reading does. *)
LEMMA ParseReads ==
  ASSUME NEW a, a.tagBuf \in Text, a.inside \in BOOLEAN, NEW delta \in Text,
         NEW T \in Text, NEW X \in Text, NEW Y \in Text,
         Parsed(T, ParseStart(a, delta), X, Y)
  PROVE  LET p == ParseThinkingTags(a, delta)
         IN p \in Parses /\ Parsed(T, p, X, Y) /\ Settled(p)
<1> DEFINE whole == a.tagBuf \o delta
           o == Len(whole)
<1>1. PICK f : IsParse(a, delta, f)
  BY ParseRounds
<1>2. whole \in Text /\ o \in Nat
  BY ConcatProperties DEF Text
<1>3. /\ f[0] = ParseStart(a, delta)
      /\ ParseThinkingTags(a, delta) = f[o]
      /\ \A n \in Nat : f[n] \in Parses /\ f[n + 1] = ParseRound(f[n])
  BY <1>1 DEF IsParse
<1> DEFINE Good == {n \in Nat : Parsed(T, f[n], X, Y)}
<1>4. 0 \in Good
  BY <1>3
<1>5. ASSUME NEW n \in Nat, n \in Good
      PROVE  n + 1 \in Good
  BY <1>3, <1>5, RoundReads
<1>6. o \in Good
  <2> HIDE DEF Good, o
  <2> QED BY <1>2, <1>4, <1>5, Induction
<1> QED BY <1>2, <1>3, <1>6, ParseSettles

-----------------------------------------------------------------------------
(* Reasoning and tags *)

(* The thinking that came from tags, unit by unit *)
IsSifted(s, w) ==
  /\ w \in [0 .. Len(s) -> Text]
  /\ w[0] = <<>>
  /\ \A n \in 1 .. Len(s) : w[n] = IF s[n] \in ThoughtUnits THEN w[n - 1] ELSE Append(w[n - 1], s[n])
  /\ WithoutThoughts(s) = w[Len(s)]

(* There is such a sifting of each text. *)
LEMMA SiftedText ==
  ASSUME NEW s \in Text
  PROVE  \E w : IsSifted(s, w)
<1> DEFINE o == Len(s)
           Sift(n, t) == IF s[n] \in ThoughtUnits THEN t ELSE Append(t, s[n])
           Loop(f) == f = [n \in 0 .. o |->
                             CASE n = 0 -> <<>>
                               [] n > 0 /\ s[n] \in ThoughtUnits -> f[n - 1]
                               [] OTHER -> Append(f[n - 1], s[n])]
           step == [p \in Nat \X Text |-> IF p[1] \in 1 .. o THEN Sift(p[1], p[2]) ELSE p[2]]
<1>1. o \in Nat /\ <<>> \in Text /\ \A n \in 1 .. o : s[n] \in Units
  BY DEF Text
<1>2. \A n \in 1 .. o : \A t \in Text : Sift(n, t) \in Text
  <2> TAKE n \in 1 .. o
  <2> TAKE t \in Text
  <2>1. Append(t, s[n]) \in Text
    BY <1>1, AppendProperties DEF Text
  <2> QED BY <2>1
<1> HIDE DEF o, Sift
<1>3. step \in [Nat \X Text -> Text]
  <2>1. ASSUME NEW p \in Nat \X Text
        PROVE  (IF p[1] \in 1 .. o THEN Sift(p[1], p[2]) ELSE p[2]) \in Text
    <3>1. p[1] \in Nat /\ p[2] \in Text
      OBVIOUS
    <3> QED BY <1>2, <3>1
  <2> QED BY <2>1
<1>4. PICK g : Recurs(Text, step, <<>>, g)
  <2> HIDE DEF step
  <2> QED BY <1>1, <1>3, RecursionExists
<1> DEFINE h == [n \in 0 .. o |-> g[n]]
<1>5. Loop(h)
  <2>1. ASSUME NEW n \in 0 .. o
        PROVE  h[n] = CASE n = 0 -> <<>>
                        [] n > 0 /\ s[n] \in ThoughtUnits -> h[n - 1]
                        [] OTHER -> Append(h[n - 1], s[n])
    <3>1. CASE n = 0
      <4>1. h[0] = g[0] /\ g[0] = <<>>
        BY <1>1, <1>4 DEF Recurs
      <4> QED BY <3>1, <4>1
    <3>2. CASE n # 0
      <4>1. n - 1 \in Nat /\ (n - 1) + 1 = n /\ n - 1 \in 0 .. o /\ n \in 1 .. o /\ n > 0
        BY <1>1, <3>2
      <4>2. g[n] = step[<<n, g[n - 1]>>] /\ g[n - 1] \in Text
        BY <1>4, <4>1 DEF Recurs
      <4>3. g[n] = Sift(n, g[n - 1])
        <5>1. <<n, g[n - 1]>> \in Nat \X Text
          BY <4>1, <4>2
        <5>2. step[<<n, g[n - 1]>>] = Sift(n, g[n - 1])
          BY <4>1, <5>1
        <5> QED BY <4>2, <5>2
      <4>4. h[n] = Sift(n, h[n - 1])
        BY <4>1, <4>3
      <4> HIDE DEF h
      <4> QED BY <3>2, <4>1, <4>4 DEF Sift
    <3> QED BY <3>1, <3>2
  <2> HIDE DEF h
  <2>2. h = [n \in 0 .. o |-> h[n]]
    BY DEF h
  <2> QED BY <2>1, <2>2
<1> DEFINE f == CHOOSE r : Loop(r)
<1>6. Loop(f)
  <2> HIDE DEF Loop
  <2> QED BY <1>5
<1>7. WithoutThoughts(s) = f[o]
  BY DEF WithoutThoughts, f, o
<1> HIDE DEF f
<1>8. f[0] = <<>>
  BY <1>1, <1>6
<1>9. ASSUME NEW n \in 1 .. o
      PROVE  f[n] = IF s[n] \in ThoughtUnits THEN f[n - 1] ELSE Append(f[n - 1], s[n])
  <2>1. n # 0 /\ n > 0 /\ n \in 0 .. o
    BY <1>1
  <2> QED BY <1>6, <2>1
<1> DEFINE Good == {n \in Nat : n <= o => f[n] \in Text}
<1>10. 0 \in Good
  BY <1>1, <1>8
<1>11. ASSUME NEW n \in Nat, n \in Good
       PROVE  n + 1 \in Good
  <2>1. SUFFICES ASSUME n + 1 <= o PROVE f[n + 1] \in Text
    OBVIOUS
  <2>2. n + 1 \in 1 .. o /\ (n + 1) - 1 = n /\ n <= o
    BY <1>1, <2>1
  <2>3. f[n] \in Text
    BY <1>11, <2>2
  <2>4. f[n + 1] = Sift(n + 1, f[n])
    BY <1>9, <2>2 DEF Sift
  <2> QED BY <1>2, <2>2, <2>3, <2>4
<1>12. Nat \subseteq Good
  <2> HIDE DEF Good
  <2> QED BY <1>10, <1>11, Induction
<1>13. f \in [0 .. o -> Text]
  <2>1. f = [n \in 0 .. o |-> f[n]]
    BY <1>6
  <2>2. \A n \in 0 .. o : f[n] \in Text
    BY <1>1, <1>12
  <2> QED BY <2>1, <2>2
<1> QED BY <1>7, <1>8, <1>9, <1>13 DEF IsSifted, o

(* Reasoning is sifted out, and what tags enclose is not. *)
LEMMA Sifted ==
  ASSUME NEW s \in Text, NEW d \in Text
  PROVE  /\ WithoutThoughts(s) \in Text
         /\ d \in Seq(ThoughtUnits) => WithoutThoughts(s \o d) = WithoutThoughts(s)
         /\ d \in Seq(Units \ ThoughtUnits) => WithoutThoughts(s \o d) = WithoutThoughts(s) \o d
<1> DEFINE o == Len(s)
           l == Len(d)
           x == s \o d
<1>1. /\ o \in Nat /\ l \in Nat /\ x \in Text /\ Len(x) = o + l
      /\ \A j \in 1 .. o + l : x[j] = IF j <= o THEN s[j] ELSE d[j - o]
  BY ConcatProperties DEF Text
<1>2. PICK w : IsSifted(s, w)
  BY SiftedText
<1>3. PICK u : IsSifted(x, u)
  BY <1>1, SiftedText
<1>4. /\ w \in [0 .. o -> Text] /\ w[0] = <<>> /\ WithoutThoughts(s) = w[o]
      /\ \A n \in 1 .. o : w[n] = IF s[n] \in ThoughtUnits THEN w[n - 1] ELSE Append(w[n - 1], s[n])
  BY <1>2 DEF IsSifted
<1>5. /\ u[0] = <<>> /\ WithoutThoughts(x) = u[o + l]
      /\ \A n \in 1 .. o + l : u[n] = IF x[n] \in ThoughtUnits THEN u[n - 1] ELSE Append(u[n - 1], x[n])
  BY <1>1, <1>3 DEF IsSifted
<1> HIDE DEF o, l, x
<1>6. u[o] = w[o]
  <2> DEFINE Good == {n \in Nat : n <= o => u[n] = w[n]}
  <2>1. 0 \in Good
    BY <1>4, <1>5
  <2>2. ASSUME NEW n \in Nat, n \in Good
        PROVE  n + 1 \in Good
    <3>1. SUFFICES ASSUME n + 1 <= o PROVE u[n + 1] = w[n + 1]
      OBVIOUS
    <3>2. n + 1 \in 1 .. o /\ n + 1 \in 1 .. o + l /\ (n + 1) - 1 = n /\ n <= o
      BY <1>1, <3>1
    <3>3. x[n + 1] = s[n + 1] /\ u[n] = w[n]
      BY <1>1, <2>2, <3>2
    <3> QED BY <1>4, <1>5, <3>2, <3>3
  <2>3. Nat \subseteq Good
    <3> HIDE DEF Good
    <3> QED BY <2>1, <2>2, Induction
  <2> QED BY <1>1, <2>3
<1>7. w[o] \in Text
  BY <1>1, <1>4
<1>8. ASSUME NEW n \in Nat, n + 1 <= l
      PROVE  u[o + (n + 1)] = IF d[n + 1] \in ThoughtUnits THEN u[o + n] ELSE Append(u[o + n], d[n + 1])
  <2>1. o + (n + 1) \in 1 .. o + l /\ ~(o + (n + 1) <= o) /\ o + (n + 1) - o = n + 1
        /\ o + (n + 1) - 1 = o + n
    BY <1>1, <1>8
  <2>2. x[o + (n + 1)] = d[n + 1]
    BY <1>1, <2>1
  <2> DEFINE i == o + (n + 1)
  <2>3. u[i] = IF x[i] \in ThoughtUnits THEN u[i - 1] ELSE Append(u[i - 1], x[i])
    <3> HIDE DEF i
    <3>1. i \in 1 .. o + l
      BY <2>1 DEF i
    <3> QED BY <1>5, <3>1
  <2>4. i - 1 = o + n
    BY <1>1
  <2>6. x[i] = d[n + 1]
    BY <2>2 DEF i
  <2> HIDE DEF i
  <2>5. u[i] = IF d[n + 1] \in ThoughtUnits THEN u[o + n] ELSE Append(u[o + n], d[n + 1])
    BY <2>3, <2>4, <2>6
  <2> QED BY <2>5 DEF i
<1>9. ASSUME d \in Seq(ThoughtUnits)
      PROVE  u[o + l] = w[o]
  <2> DEFINE Good == {n \in Nat : n <= l => u[o + n] = w[o]}
  <2>1. 0 \in Good
    BY <1>1, <1>6
  <2>2. ASSUME NEW n \in Nat, n \in Good
        PROVE  n + 1 \in Good
    <3>1. SUFFICES ASSUME n + 1 <= l PROVE u[o + (n + 1)] = w[o]
      OBVIOUS
    <3>2. n + 1 \in 1 .. l /\ n <= l
      BY <1>1, <3>1
    <3>3. d[n + 1] \in ThoughtUnits
      BY <1>9, <3>2 DEF l
    <3> QED BY <1>8, <2>2, <3>1, <3>2, <3>3
  <2>3. Nat \subseteq Good
    <3> HIDE DEF Good
    <3> QED BY <2>1, <2>2, Induction
  <2> QED BY <1>1, <2>3
<1>10. ASSUME d \in Seq(Units \ ThoughtUnits)
       PROVE  u[o + l] = w[o] \o d
  <2> DEFINE Fits(n) == u[o + n] = w[o] \o First(d, n)
             Good == {n \in Nat : n <= l => Fits(n)}
  <2>1. 0 \in Good
    <3>1. First(d, 0) = <<>>
      BY SubSeqEmpty, 0 \in Int, 1 \in Int, 0 < 1 DEF First
    <3>2. w[o] \o <<>> = w[o]
      BY <1>7, ConcatEmptySeq DEF Text
    <3>3. o + 0 = o
      BY <1>1
    <3> HIDE DEF First
    <3> QED BY <1>6, <3>1, <3>2, <3>3
  <2>2. ASSUME NEW n \in Nat, n \in Good
        PROVE  n + 1 \in Good
    <3>1. SUFFICES ASSUME n + 1 <= l PROVE Fits(n + 1)
      <4> HIDE DEF Fits
      <4> QED OBVIOUS
    <3> DEFINE v == d[n + 1]
               z == First(d, n)
               y == w[o]
    <3>2. n + 1 \in 1 .. l /\ n <= l /\ n \in 0 .. Len(d)
      BY <1>1, <3>1 DEF l
    <3>3. v \in Units /\ v \notin ThoughtUnits
      <4>1. \A i \in 1 .. Len(d) : d[i] \in Units \ ThoughtUnits
        BY <1>10
      <4> QED BY <3>2, <4>1 DEF l
    <3>4. z \in Text
      BY <3>2, Cut
    <3>5. First(d, n + 1) = z \o <<v>>
      <4>1. 1 \in 1 .. Len(d) /\ n + 1 \in 1 .. Len(d) /\ (n + 1) - 1 = n
        BY <1>1, <3>2 DEF l
      <4>2. SubSeq(d, 1, n + 1) = SubSeq(d, 1, (n + 1) - 1) \o << d[n + 1] >>
        BY <4>1, SubSeqRecursiveSecond DEF Text
      <4> QED BY <4>1, <4>2 DEF First
    <3>6. u[o + (n + 1)] = Append(u[o + n], v)
      BY <1>8, <3>1, <3>3
    <3>7. u[o + n] = y \o z
      BY <2>2, <3>2
    <3> HIDE DEF v, z, y
    <3>8. Append(y \o z, v) = y \o (z \o <<v>>)
      <4> DEFINE q == <<v>>
      <4>1. y \in Seq(Units) /\ z \in Seq(Units) /\ q \in Seq(Units)
        BY <1>7, <3>3, <3>4 DEF Text, y
      <4>2. y \o z \in Seq(Units)
        BY <4>1, ConcatProperties
      <4>3. Append(y \o z, v) = (y \o z) \o q
        BY <3>3, <4>2, AppendIsConcat
      <4> HIDE DEF q
      <4>4. (y \o z) \o q = y \o (z \o q)
        BY <4>1, ConcatAssociative
      <4> QED BY <4>3, <4>4 DEF q
    <3> QED BY <3>5, <3>6, <3>7, <3>8 DEF y
  <2>3. Nat \subseteq Good
    <3> HIDE DEF Good
    <3> QED BY <2>1, <2>2, Induction
  <2>4. First(d, l) = d
    BY SubSeqFull DEF First, l, Text
  <2>5. l \in Good
    BY <1>1, <2>3
  <2>6. u[o + l] = w[o] \o First(d, l)
    BY <1>1, <2>5
  <2> QED BY <2>4, <2>6
<1> QED BY <1>4, <1>5, <1>7, <1>9, <1>10 DEF x

-----------------------------------------------------------------------------
(* What the operators do to an accumulator *)

(* The rest of an accumulator is as it was. *)
SameRest(a, r) ==
  /\ r.tagBuf = a.tagBuf /\ r.inside = a.inside /\ r.matched = a.matched

(* The budget lets a beginning go on, all of it while it does not stop. *)
LEMMA BudgetLets ==
  ASSUME request \in ModelRequests, NEW a \in Accumulators, NEW delta \in Text
  PROVE  LET b == ApplyMaxTokensBudget(a, delta)
         IN /\ b.out \in Text /\ Begins(b.out, delta)
            /\ b.acc \in Accumulators
            /\ b.acc.stop \in {a.stop, "max_tokens"}
            /\ b.acc.stop = "none" => b.out = delta
            /\ b.acc.text = a.text /\ b.acc.thinking = a.thinking /\ b.acc.pending = a.pending
            /\ SameRest(a, b.acc)
<1> DEFINE total == a.count + Len(delta)
           room == Max({0, Most - a.count})
           b == ApplyMaxTokensBudget(a, delta)
<1>1. a.count \in Nat /\ Len(delta) \in Nat /\ total \in Nat
  BY DEF Accumulators, Text
<1>2. /\ request.budget \in Nat /\ Most \in Nat
      /\ total \div RunesPerToken < request.budget <=> total < Most
  <2> HIDE DEF total
  <2> QED BY <1>1, TokensBelow
<1>3. b.out \in Text /\ Charged(a, b.acc, Len(b.out))
  BY BudgetCharges
<1>4. /\ b.acc \in Accumulators
      /\ b.acc.stop \in {a.stop, "max_tokens"}
      /\ b.acc.text = a.text /\ b.acc.thinking = a.thinking /\ b.acc.pending = a.pending
  <2> HIDE DEF b
  <2> QED BY <1>3, ChargedType
<1>5. SameRest(a, b.acc)
  <2> HIDE DEF b
  <2> QED BY <1>3 DEF SameRest, Charged, Accumulators
<1>6. CASE request.budget = 0 \/ total < Most
  <2>1. b = [acc |-> [a EXCEPT !.count = total], out |-> delta]
    BY <1>2, <1>6 DEF ApplyMaxTokensBudget
  <2>2. b.out = delta
    BY <2>1
  <2>3. Begins(delta, delta)
    BY BeginsItself
  <2> HIDE DEF b
  <2> QED BY <1>3, <1>4, <1>5, <2>2, <2>3 DEF b
<1>7. CASE request.budget # 0 /\ ~(total < Most)
  <2>1. room = IF Most - a.count > 0 THEN Most - a.count ELSE 0
    <3>1. Most - a.count \in Int
      BY <1>1, <1>2
    <3> QED BY <3>1, MaxOfTwo
  <2>2. room \in 0 .. Len(delta)
    <3> HIDE DEF room
    <3> QED BY <1>1, <1>2, <1>7, <2>1
  <2>3. b = [acc |-> [a EXCEPT !.count = @ + room, !.stop = "max_tokens"], out |-> First(delta, room)]
    BY <1>2, <1>7 DEF ApplyMaxTokensBudget, Most
  <2> HIDE DEF room
  <2>4. b.out = First(delta, room) /\ b.acc = [a EXCEPT !.count = a.count + room, !.stop = "max_tokens"]
    BY <2>3
  <2>5. Begins(First(delta, room), delta)
    BY <2>2, FirstBegins
  <2>6. b.acc.stop = "max_tokens"
    <3> HIDE DEF b
    <3> QED BY <2>4 DEF Accumulators
  <2> HIDE DEF b
  <2> QED BY <1>3, <1>4, <1>5, <2>4, <2>5, <2>6 DEF b
<1> QED BY <1>6, <1>7

(* Thinking grows by such a beginning. *)
LEMMA ThinkingAdds ==
  ASSUME request \in ModelRequests, NEW a \in Accumulators, NEW delta \in Text
  PROVE  LET r == AccumulateThinking(a, delta)
         IN /\ \E more \in Text :
                 /\ Begins(more, delta)
                 /\ r.stop = "none" => more = delta
                 /\ r.thinking = a.thinking \o more
            /\ r \in Accumulators
            /\ r.stop \in {a.stop, "max_tokens"}
            /\ r.text = a.text /\ r.pending = a.pending
            /\ SameRest(a, r)
<1> DEFINE b == ApplyMaxTokensBudget(a, delta)
           r == AccumulateThinking(a, delta)
<1>t. a.thinking \in Text
  BY DEF Accumulators
<1>1. CASE delta = <<>>
  <2>1. r = a
    BY <1>1 DEF AccumulateThinking
  <2>2. a.thinking = a.thinking \o delta /\ Begins(delta, delta)
    BY <1>1, <1>t, ConcatEmptySeq, BeginsItself DEF Text
  <2> HIDE DEF r
  <2> QED BY <2>1, <2>2 DEF SameRest, r
<1>2. CASE delta # <<>>
  <2>1. /\ b.out \in Text /\ Begins(b.out, delta)
        /\ b.acc \in Accumulators
        /\ b.acc.stop \in {a.stop, "max_tokens"}
        /\ b.acc.stop = "none" => b.out = delta
        /\ b.acc.text = a.text /\ b.acc.thinking = a.thinking /\ b.acc.pending = a.pending
        /\ SameRest(a, b.acc)
    BY BudgetLets
  <2>2. r = [b.acc EXCEPT !.thinking = @ \o b.out]
    BY <1>2 DEF AccumulateThinking
  <2> HIDE DEF b, r
  <2> DEFINE t == a.thinking \o b.out
  <2>3. t \in Text
    BY <1>t, <2>1, ConcatProperties DEF Text
  <2>4. r = [b.acc EXCEPT !.thinking = t]
    BY <2>1, <2>2
  <2> HIDE DEF t
  <2>5. /\ r \in Accumulators /\ r.thinking = t
        /\ r.stop = b.acc.stop /\ r.text = a.text /\ r.pending = a.pending
        /\ SameRest(a, r)
    BY <2>1, <2>3, <2>4 DEF Accumulators, SameRest
  <2> QED BY <2>1, <2>5 DEF r, t
<1> QED BY <1>1, <1>2

(* A filter finds none of the stop sequences and holds back as much as may *)
(* begin one,                                                              *)
Passes(a, f, w) ==
  /\ \A i \in DOMAIN request.stops : Occurrences(w, request.stops[i]) = {}
  /\ \E n \in 0 .. Len(w) :
       /\ n = IF Len(w) - Keep > 0 THEN Len(w) - Keep ELSE 0
       /\ f.out = First(w, n)
       /\ f.acc = [a EXCEPT !.pending = From(w, n)]

(* None of the stop sequences listed before the i-th occurs. *)
NoneListedBefore(w, i) ==
  \A j \in DOMAIN request.stops : j < i => Occurrences(w, request.stops[j]) = {}

(* or it stops at the first of the list that occurs. *)
StopsAt(a, f, w) ==
  \E i \in DOMAIN request.stops :
    /\ Occurrences(w, request.stops[i]) # {}
    /\ NoneListedBefore(w, i)
    /\ f.out = First(w, Min(Occurrences(w, request.stops[i])))
    /\ f.acc = [a EXCEPT !.pending = <<>>, !.stop = "stop_sequence", !.matched = request.stops[i]]

(* It does either. *)
LEMMA FilterEither ==
  ASSUME request \in ModelRequests, NEW a \in Accumulators, NEW delta \in Text
  PROVE  LET f == ApplyStopSequenceFilter(a, delta)
             w == a.pending \o delta
         IN Passes(a, f, w) \/ StopsAt(a, f, w)
<1> DEFINE w == a.pending \o delta
           hits == {i \in DOMAIN request.stops : Occurrences(w, request.stops[i]) # {}}
           n == Max({0, Len(w) - Keep})
           s == request.stops[Min(hits)]
           f == ApplyStopSequenceFilter(a, delta)
<1>1. w \in Text /\ Len(w) \in Nat
  <2>1. a.pending \in Text
    BY DEF Accumulators
  <2> QED BY <2>1, ConcatProperties DEF Text
<1>2. request.stops \in Seq(Seq(Units) \ {<<>>})
  BY AccumulatorAssumption
<1>3. CASE hits # {}
  <2>1. Min(hits) \in hits /\ \A j \in hits : Min(hits) <= j
    <3>1. hits \subseteq Nat
      BY <1>2
    <3> QED BY <1>3, <3>1, MinOf
  <2>2. Min(hits) \in DOMAIN request.stops /\ Occurrences(w, s) # {}
    BY <2>1
  <2>7. ASSUME NEW j \in DOMAIN request.stops, j < Min(hits)
        PROVE  Occurrences(w, request.stops[j]) = {}
    <3>1. j \in Nat /\ Min(hits) \in Nat
      BY <1>2, <2>2
    <3>2. ~(Min(hits) <= j)
      <4> DEFINE m == Min(hits)
      <4>1. j \in Nat /\ m \in Nat /\ j < m
        BY <2>7, <3>1
      <4> HIDE DEF m
      <4>2. ~(m <= j)
        BY <4>1
      <4> QED BY <4>2 DEF m
    <3>3. j \notin hits
      BY <2>1, <3>2
    <3> QED BY <3>3
  <2>3. f = [acc |-> [a EXCEPT !.pending = <<>>, !.stop = "stop_sequence", !.matched = s],
             out |-> First(w, Min(Occurrences(w, s)))]
    BY <1>3 DEF ApplyStopSequenceFilter
  <2> DEFINE m == Min(hits)
  <2> HIDE DEF f, w, m
  <2>4. /\ f.out = First(w, Min(Occurrences(w, request.stops[m])))
        /\ f.acc = [a EXCEPT !.pending = <<>>, !.stop = "stop_sequence", !.matched = request.stops[m]]
    BY <2>3 DEF m
  <2>5. m \in DOMAIN request.stops /\ Occurrences(w, request.stops[m]) # {}
    BY <2>2 DEF m
  <2>8. NoneListedBefore(w, m)
    BY <2>7 DEF NoneListedBefore, m
  <2>6. StopsAt(a, f, w)
    BY <2>4, <2>5, <2>8 DEF StopsAt
  <2> QED BY <2>6 DEF f, w
<1>4. CASE hits = {}
  <2>1. n = IF Len(w) - Keep > 0 THEN Len(w) - Keep ELSE 0
    <3>1. Keep \in Nat /\ Len(w) - Keep \in Int
      BY <1>1, KeepType
    <3> QED BY <3>1, MaxOfTwo
  <2>2. n \in 0 .. Len(w)
    <3>1. Keep \in Nat
      BY KeepType
    <3> HIDE DEF n, w
    <3> QED BY <1>1, <2>1, <3>1
  <2>3. f = [acc |-> [a EXCEPT !.pending = From(w, n)], out |-> First(w, n)]
    BY <1>4 DEF ApplyStopSequenceFilter
  <2>4. \A i \in DOMAIN request.stops : Occurrences(w, request.stops[i]) = {}
    BY <1>4
  <2> HIDE DEF n, w, f
  <2>5. f.out = First(w, n) /\ f.acc = [a EXCEPT !.pending = From(w, n)]
    BY <2>3
  <2>6. Passes(a, f, w)
    BY <2>1, <2>2, <2>4, <2>5 DEF Passes
  <2> QED BY <2>6 DEF f, w
<1> QED BY <1>3, <1>4

(* Text that passes the filter goes to the client as far as the budget     *)
(* lets it;                                                                *)
TextPasses(a, r, w) ==
  /\ \A i \in DOMAIN request.stops : Occurrences(w, request.stops[i]) = {}
  /\ r.stop \in {a.stop, "max_tokens"}
  /\ \E n \in 0 .. Len(w) :
       /\ n = IF Len(w) - Keep > 0 THEN Len(w) - Keep ELSE 0
       /\ r.pending = From(w, n)
       /\ \E more \in Text :
            /\ Begins(more, First(w, n))
            /\ r.stop = "none" => more = First(w, n)
            /\ r.text = a.text \o more

(* a stop sequence ends it. *)
TextStops(a, r, w) ==
  \E i \in DOMAIN request.stops :
    /\ Occurrences(w, request.stops[i]) # {}
    /\ NoneListedBefore(w, i)
    /\ r.text = a.text \o First(w, Min(Occurrences(w, request.stops[i])))
    /\ r.pending = <<>> /\ r.stop = "stop_sequence" /\ r.matched = request.stops[i]

(* Text does either. *)
LEMMA TextEither ==
  ASSUME request \in ModelRequests, NEW a \in Accumulators, NEW delta \in Text, delta # <<>>
  PROVE  LET r == AccumulateText(a, delta)
             w == a.pending \o delta
         IN /\ r \in Accumulators
            /\ r.thinking = a.thinking /\ r.tagBuf = a.tagBuf /\ r.inside = a.inside
            /\ TextPasses(a, r, w) \/ TextStops(a, r, w)
<1> DEFINE f == ApplyStopSequenceFilter(a, delta)
           b == ApplyMaxTokensBudget(f.acc, f.out)
           r == AccumulateText(a, delta)
           w == a.pending \o delta
<1>1. /\ f.out \in Text
      /\ f.acc \in Accumulators
      /\ f.acc.stop \in {a.stop, "stop_sequence"}
      /\ f.acc.text = a.text /\ f.acc.thinking = a.thinking
  BY FilterKeeps
<1>2. Passes(a, f, w) \/ StopsAt(a, f, w)
  BY FilterEither
<1>3. CASE f.out = <<>> \/ f.acc.stop # "none"
  <2>1. r = [f.acc EXCEPT !.text = @ \o f.out]
    BY <1>3 DEF AccumulateText
  <2> DEFINE t == a.text \o f.out
  <2>2. t \in Text
    <3>1. a.text \in Text
      BY DEF Accumulators
    <3> QED BY <1>1, <3>1, ConcatProperties DEF Text
  <2>3. r = [f.acc EXCEPT !.text = t]
    BY <1>1, <2>1
  <2> HIDE DEF f, r, t, w
  <2>4. /\ r \in Accumulators /\ r.text = t /\ r.thinking = a.thinking
        /\ r.stop = f.acc.stop /\ r.pending = f.acc.pending /\ SameRest(f.acc, r)
    BY <1>1, <2>2, <2>3 DEF Accumulators, SameRest
  <2>5. CASE Passes(a, f, w)
    <3>1. PICK n \in 0 .. Len(w) :
            /\ n = IF Len(w) - Keep > 0 THEN Len(w) - Keep ELSE 0
            /\ f.out = First(w, n)
            /\ f.acc = [a EXCEPT !.pending = From(w, n)]
      BY <2>5 DEF Passes
    <3> DEFINE p == From(w, n)
    <3>2. f.acc = [a EXCEPT !.pending = p]
      BY <3>1
    <3> HIDE DEF p
    <3>3. /\ f.acc.stop = a.stop /\ f.acc.pending = p
          /\ f.acc.tagBuf = a.tagBuf /\ f.acc.inside = a.inside
      BY <3>2 DEF Accumulators
    <3>4. Begins(First(w, n), First(w, n))
      BY <1>1, <3>1, BeginsItself
    <3>5. \E more \in Text :
            /\ Begins(more, First(w, n))
            /\ r.stop = "none" => more = First(w, n)
            /\ r.text = a.text \o more
      BY <1>1, <2>4, <3>1, <3>4 DEF t
    <3>6. \A i \in DOMAIN request.stops : Occurrences(w, request.stops[i]) = {}
      BY <2>5 DEF Passes
    <3>7. r.stop = a.stop /\ r.pending = From(w, n) /\ r.tagBuf = a.tagBuf /\ r.inside = a.inside
      BY <2>4, <3>3 DEF SameRest, p
    <3>8. TextPasses(a, r, w)
      BY <3>1, <3>5, <3>6, <3>7 DEF TextPasses
    <3> QED BY <2>4, <3>7, <3>8 DEF r, w
  <2>6. CASE StopsAt(a, f, w)
    <3>1. PICK i \in DOMAIN request.stops :
            /\ Occurrences(w, request.stops[i]) # {}
            /\ NoneListedBefore(w, i)
            /\ f.out = First(w, Min(Occurrences(w, request.stops[i])))
            /\ f.acc = [a EXCEPT !.pending = <<>>, !.stop = "stop_sequence", !.matched = request.stops[i]]
      BY <2>6 DEF StopsAt
    <3> DEFINE s == request.stops[i]
    <3>2. f.acc = [a EXCEPT !.pending = <<>>, !.stop = "stop_sequence", !.matched = s]
      BY <3>1
    <3> HIDE DEF s
    <3>3. /\ f.acc.stop = "stop_sequence" /\ f.acc.pending = <<>> /\ f.acc.matched = s
          /\ f.acc.tagBuf = a.tagBuf /\ f.acc.inside = a.inside
      BY <3>2 DEF Accumulators
    <3>4. /\ r.stop = "stop_sequence" /\ r.pending = <<>> /\ r.matched = request.stops[i]
          /\ r.tagBuf = a.tagBuf /\ r.inside = a.inside
      BY <2>4, <3>3 DEF SameRest, s
    <3>5. r.text = a.text \o First(w, Min(Occurrences(w, request.stops[i])))
      BY <2>4, <3>1 DEF t
    <3>6. TextStops(a, r, w)
      BY <3>1, <3>4, <3>5 DEF TextStops
    <3> QED BY <2>4, <3>4, <3>6 DEF r, w
  <2> QED BY <1>2, <2>5, <2>6
<1>4. CASE f.out # <<>> /\ f.acc.stop = "none"
  <2>1. r = Told(b.acc, b.out)
    BY <1>4 DEF AccumulateText, Told
  <2>2. /\ b.out \in Text /\ Begins(b.out, f.out)
        /\ b.acc \in Accumulators
        /\ b.acc.stop \in {f.acc.stop, "max_tokens"}
        /\ b.acc.stop = "none" => b.out = f.out
        /\ b.acc.text = f.acc.text /\ b.acc.thinking = f.acc.thinking /\ b.acc.pending = f.acc.pending
        /\ SameRest(f.acc, b.acc)
    <3> HIDE DEF f
    <3> QED BY <1>1, BudgetLets
  <2> DEFINE t == a.text \o b.out
  <2>3. t \in Text
    <3>1. a.text \in Text
      BY DEF Accumulators
    <3> QED BY <2>2, <3>1, ConcatProperties DEF Text
  <2>4. r = [b.acc EXCEPT !.text = t]
    BY <1>1, <2>1, <2>2 DEF Told
  <2> HIDE DEF f, b, r, t, w
  <2>5. /\ r \in Accumulators /\ r.text = t /\ r.thinking = a.thinking
        /\ r.stop = b.acc.stop /\ r.pending = f.acc.pending /\ SameRest(f.acc, r)
    BY <1>1, <2>2, <2>3, <2>4 DEF Accumulators, SameRest
  <2>6. Passes(a, f, w)
    <3>1. ~StopsAt(a, f, w)
      <4>1. SUFFICES ASSUME StopsAt(a, f, w) PROVE f.acc.stop = "stop_sequence"
        BY <1>4
      <4>2. PICK i \in DOMAIN request.stops :
              f.acc = [a EXCEPT !.pending = <<>>, !.stop = "stop_sequence", !.matched = request.stops[i]]
        BY <4>1 DEF StopsAt
      <4> QED BY <4>2 DEF Accumulators
    <3> QED BY <1>2, <3>1
  <2>7. PICK n \in 0 .. Len(w) :
          /\ n = IF Len(w) - Keep > 0 THEN Len(w) - Keep ELSE 0
          /\ f.out = First(w, n)
          /\ f.acc = [a EXCEPT !.pending = From(w, n)]
    BY <2>6 DEF Passes
  <2> DEFINE p == From(w, n)
  <2>8. f.acc = [a EXCEPT !.pending = p]
    BY <2>7
  <2> HIDE DEF p
  <2>9. /\ f.acc.stop = a.stop /\ f.acc.pending = p
        /\ f.acc.tagBuf = a.tagBuf /\ f.acc.inside = a.inside
    BY <2>8 DEF Accumulators
  <2>10. \E more \in Text :
           /\ Begins(more, First(w, n))
           /\ r.stop = "none" => more = First(w, n)
           /\ r.text = a.text \o more
    BY <2>2, <2>5, <2>7 DEF t
  <2>11. \A i \in DOMAIN request.stops : Occurrences(w, request.stops[i]) = {}
    BY <2>6 DEF Passes
  <2>12. /\ r.stop \in {a.stop, "max_tokens"} /\ r.pending = From(w, n)
         /\ r.tagBuf = a.tagBuf /\ r.inside = a.inside
    BY <2>2, <2>5, <2>9 DEF SameRest, p
  <2>13. TextPasses(a, r, w)
    BY <2>7, <2>10, <2>11, <2>12 DEF TextPasses
  <2> QED BY <2>5, <2>12, <2>13 DEF r, w
<1> QED BY <1>3, <1>4

(* What is found behind a text is found in what follows it. *)
LEMMA AtAfter ==
  ASSUME NEW x \in Text, NEW y \in Text, NEW s \in Text, NEW i \in Nat
  PROVE  At(x \o y, Len(x) + i, s) <=> At(y, i, s)
<1>1. Len(x) \in Nat /\ Len(x) \in 0 .. Len(x)
  BY DEF Text
<1>2. From(x, Len(x)) = <<>>
  BY <1>1, SubSeqEmpty DEF From
<1>3. <<>> \o y = y
  BY ConcatEmptySeq DEF Text
<1>4. At(x \o y, Len(x) + i, s) <=> At(From(x, Len(x)) \o y, i, s)
  BY <1>1, AtBehind
<1> QED BY <1>2, <1>3, <1>4

(* Where it stands it is, and the text up to its end is a beginning. *)
LEMMA UpToIt ==
  ASSUME NEW w \in Text, NEW s \in Text, NEW c \in 0 .. Len(w), At(w, c, s)
  PROVE  Begins(First(w, c) \o s, w)
<1> DEFINE x == First(w, c)
           y == From(w, c)
<1>1. x \in Text /\ y \in Text /\ x \o y = w
  BY Cut, FirstBegins
<1>2. IsPrefix(s, y)
  BY PrefixAt
<1> HIDE DEF x, y
<1>3. Len(s) \in 0 .. Len(y) /\ First(y, Len(s)) = s
  <2>1. Len(s) \in Nat /\ Len(y) \in Nat
    BY <1>1 DEF Text
  <2>2. Len(s) <= Len(y) /\ SubSeq(s, 1, Len(s)) = SubSeq(y, 1, Len(s))
    BY <1>2 DEF IsPrefix
  <2>3. SubSeq(s, 1, Len(s)) = s
    BY SubSeqFull DEF Text
  <2> QED BY <2>1, <2>2, <2>3 DEF First
<1>4. Begins(s, y)
  BY <1>1, <1>3, FirstBegins
<1>5. Begins(x \o s, x \o y)
  BY <1>1, <1>4, BeginsBehind
<1> QED BY <1>1, <1>5 DEF x

(* While nothing has stopped the answer there is no stop sequence in it, and *)
(* as much is held back as may begin one.                                  *)
Clean(a) ==
  /\ Len(a.pending) <= Keep
  /\ a.text # <<>> => Len(a.pending) = Keep
  /\ \A i \in DOMAIN request.stops : Occurrences(a.text \o a.pending, request.stops[i]) = {}

(* So none begins in what has been emitted. *)
LEMMA NoneBefore ==
  ASSUME request \in ModelRequests, NEW a \in Accumulators, Clean(a), NEW delta \in Text,
         NEW i \in DOMAIN request.stops, NEW j \in Nat,
         At(a.text \o (a.pending \o delta), j, request.stops[i])
  PROVE  j >= Len(a.text) /\ At(a.pending \o delta, j - Len(a.text), request.stops[i])
<1> DEFINE s == request.stops[i]
           x == a.text
           p == a.pending
           o == Len(x)
           l == Len(s)
<1>1. x \in Text /\ p \in Text /\ s \in Text \ {<<>>} /\ Keep \in Nat /\ l - 1 <= Keep
  BY KeepType DEF Accumulators
<1>2. o \in Nat /\ l \in Nat /\ Len(p) \in Nat
  BY <1>1 DEF Text
<1>3. p \o delta \in Text /\ x \o p \in Text /\ Len(x \o p) = o + Len(p)
  BY <1>1, ConcatProperties DEF Text
<1>4. x \o (p \o delta) = (x \o p) \o delta
  <2>1. x \in Seq(Units) /\ p \in Seq(Units) /\ delta \in Seq(Units)
    BY <1>1 DEF Text
  <2> HIDE DEF x, p
  <2> QED BY <2>1, ConcatAssociative
<1> HIDE DEF s, l
<1>5. ASSUME j < o PROVE FALSE
  <2>1. x # <<>>
    <3>1. Len(<<>>) = 0
      OBVIOUS
    <3> QED BY <1>2, <1>5, <3>1
  <2>2. Len(p) = Keep
    BY <2>1 DEF Clean
  <2>3. j + l <= Len(x \o p)
    <3> HIDE DEF x, p, o
    <3> QED BY <1>1, <1>2, <1>3, <1>5, <2>2
  <2>4. At(x \o p, j, s)
    <3>1. At((x \o p) \o delta, j, s)
      BY <1>4 DEF s
    <3> HIDE DEF x, p
    <3> QED BY <1>1, <1>3, <2>3, <3>1, AtStays DEF l
  <2>5. j \in 0 .. Len(x \o p)
    <3> HIDE DEF x, p, o
    <3> QED BY <1>2, <2>3
  <2>6. j \in Occurrences(x \o p, s)
    <3> HIDE DEF x, p
    <3> QED BY <1>1, <1>3, <2>4, <2>5, OccursAt
  <2> QED BY <2>6 DEF Clean, s
<1>6. j >= o /\ j - o \in Nat /\ o + (j - o) = j
  BY <1>2, <1>5
<1>7. At(p \o delta, j - o, s)
  <2>1. At(x \o (p \o delta), o + (j - o), s)
    BY <1>6 DEF s
  <2> HIDE DEF x, p
  <2> QED BY <1>1, <1>3, <1>6, <2>1, AtAfter DEF o
<1> QED BY <1>6, <1>7 DEF s

(* What an accumulator has of its text *)
HeldText(a) == a.text \o a.pending

(* It is a text, also with more behind it. *)
LEMMA HeldType ==
  ASSUME NEW a \in Accumulators, NEW delta \in Text
  PROVE  /\ HeldText(a) \in Text /\ a.text \in Text /\ a.pending \in Text
         /\ a.pending \o delta \in Text
         /\ a.text \o (a.pending \o delta) = HeldText(a) \o delta
<1> DEFINE x == a.text
           p == a.pending
<1>1. x \in Seq(Units) /\ p \in Seq(Units) /\ delta \in Seq(Units)
  BY DEF Accumulators, Text
<1> HIDE DEF x, p
<1>2. x \o p \in Seq(Units) /\ p \o delta \in Seq(Units)
  BY <1>1, ConcatProperties
<1>3. x \o (p \o delta) = (x \o p) \o delta
  BY <1>1, ConcatAssociative
<1> QED BY <1>1, <1>2, <1>3 DEF Text, HeldText, x, p

(* It stopped where its stop sequence first occurs. *)
StoppedRight(a, whole) ==
  /\ Begins(a.text \o a.matched, whole)
  /\ Occurrences(a.text \o a.matched, a.matched) = {Len(a.text)}

(* That sequence is the first of the list to occur in the text up to its   *)
(* end.                                                                    *)
FirstListed(a) ==
  \E i \in DOMAIN request.stops :
    /\ request.stops[i] = a.matched
    /\ NoneListedBefore(a.text \o a.matched, i)

(* Text that passes is emitted or held back, *)
LEMMA PassesKeeps ==
  ASSUME request \in ModelRequests, NEW a \in Accumulators, NEW delta \in Text,
         NEW r \in Accumulators, TextPasses(a, r, a.pending \o delta)
  PROVE  /\ Begins(r.text, HeldText(a) \o delta)
         /\ r.stop \in {a.stop, "max_tokens"}
         /\ r.stop = "none" => HeldText(r) = HeldText(a) \o delta
         /\ r.stop = "none" /\ Clean(a) => Clean(r)
<1> DEFINE x == a.text
           w == a.pending \o delta
<1>1. x \in Text /\ w \in Text /\ x \o w = HeldText(a) \o delta
  BY HeldType
<1>2. PICK n \in 0 .. Len(w) :
        /\ n = IF Len(w) - Keep > 0 THEN Len(w) - Keep ELSE 0
        /\ r.pending = From(w, n)
        /\ \E more \in Text :
             /\ Begins(more, First(w, n))
             /\ r.stop = "none" => more = First(w, n)
             /\ r.text = a.text \o more
  BY DEF TextPasses
<1>3. PICK more \in Text :
             /\ Begins(more, First(w, n))
             /\ r.stop = "none" => more = First(w, n)
             /\ r.text = a.text \o more
  BY <1>2
<1>4. r.stop \in {a.stop, "max_tokens"}
  BY DEF TextPasses
<1>5. /\ First(w, n) \in Text /\ From(w, n) \in Text
      /\ First(w, n) \o From(w, n) = w /\ Begins(First(w, n), w)
      /\ Len(From(w, n)) = Len(w) - n
  BY <1>1, Cut, FirstBegins
<1> HIDE DEF w
<1>6. Begins(r.text, HeldText(a) \o delta)
  <2>1. Begins(more, w)
    BY <1>1, <1>3, <1>5, BeginsMore
  <2>2. Begins(x \o more, x \o w)
    BY <1>1, <2>1, BeginsBehind
  <2> QED BY <1>1, <1>3, <2>2
<1>7. ASSUME r.stop = "none"
      PROVE  HeldText(r) = x \o w /\ r.text = x \o First(w, n)
  <2> DEFINE y == First(w, n)
             z == From(w, n)
  <2>1. r.text = x \o y /\ r.pending = z
    BY <1>2, <1>3, <1>7
  <2>2. x \in Seq(Units) /\ y \in Seq(Units) /\ z \in Seq(Units)
    BY <1>1, <1>5 DEF Text
  <2>a. y \o z = w
    BY <1>5
  <2> HIDE DEF x, y, z
  <2>3. (x \o y) \o z = x \o (y \o z)
    BY <2>2, ConcatAssociative
  <2> QED BY <2>1, <2>a, <2>3 DEF HeldText, y
<1>8. ASSUME r.stop = "none", Clean(a)
      PROVE  Clean(r)
  <2>1. Keep \in Nat /\ Len(w) \in Nat /\ Len(r.pending) = Len(w) - n
    BY <1>1, <1>2, <1>5, KeepType DEF Text
  <2> DEFINE o == Len(w)
             k == Keep
             l == Len(r.pending)
  <2>n. o \in Nat /\ k \in Nat /\ l = o - n /\ n = IF o - k > 0 THEN o - k ELSE 0
    BY <1>2, <2>1
  <2>2. Len(r.pending) <= Keep
    <3> HIDE DEF o, k, l
    <3>1. l <= k
      BY <2>n
    <3> QED BY <3>1 DEF l, k
  <2>3. r.text # <<>> => Len(r.pending) = Keep
    <3>1. CASE n > 0
      <4> HIDE DEF o, k, l
      <4>1. l = k
        BY <2>n, <3>1
      <4> QED BY <4>1 DEF l, k
    <3>2. CASE ~(n > 0)
      <4>1. n = 0
        BY <3>2
      <4>2. First(w, n) = <<>>
        BY <4>1, SubSeqEmpty, 0 \in Int, 1 \in Int, 0 < 1 DEF First
      <4>3. r.text = x
        BY <1>1, <1>7, <1>8, <4>2, ConcatEmptySeq DEF Text
      <4>4. r.text # <<>> => Len(a.pending) = Keep
        BY <1>8, <4>3 DEF Clean
      <4>5. Len(w) = Len(a.pending) + Len(delta) /\ Len(delta) \in Nat
        BY HeldType, ConcatProperties DEF Text, w
      <4> DEFINE p == Len(a.pending)
                 d == Len(delta)
      <4>6. o = p + d /\ d \in Nat /\ (r.text # <<>> => p = k)
        BY <4>4, <4>5
      <4>7. p \in Nat
        BY HeldType DEF Text
      <4> HIDE DEF o, k, l, p, d
      <4>8. r.text # <<>> => l = k
        BY <2>n, <4>1, <4>6, <4>7
      <4> QED BY <4>8 DEF l, k
    <3> QED BY <3>1, <3>2
  <2>4. ASSUME NEW i \in DOMAIN request.stops, NEW j \in Occurrences(HeldText(r), request.stops[i])
        PROVE  FALSE
    <3> DEFINE s == request.stops[i]
    <3>1. s \in Text \ {<<>>}
      BY KeepType
    <3>2. x \o w \in Text /\ HeldText(r) = x \o w
      BY <1>1, <1>7, <1>8, ConcatProperties DEF Text
    <3>3. j \in 0 .. Len(x \o w) /\ At(x \o w, j, s)
      <4> HIDE DEF s, x
      <4>1. j \in Occurrences(x \o w, s)
        BY <3>2 DEF s
      <4> QED BY <3>1, <3>2, <4>1, OccursAt
    <3>4. j \in Nat
      BY <3>3
    <3>5. j >= Len(x) /\ At(w, j - Len(x), s)
      BY <1>8, <3>3, <3>4, NoneBefore DEF w
    <3>6. j - Len(x) \in 0 .. Len(w)
      <4>1. Len(s) \in Nat /\ Len(x) \in Nat /\ Len(w) \in Nat
        BY <1>1, <3>1 DEF Text
      <4>2. j - Len(x) + Len(s) <= Len(w)
        BY <3>5 DEF At
      <4> HIDE DEF s, x
      <4> QED BY <3>4, <3>5, <4>1, <4>2
    <3>7. j - Len(x) \in Occurrences(w, s)
      <4> HIDE DEF s, x
      <4> QED BY <1>1, <3>1, <3>5, <3>6, OccursAt
    <3> QED BY <3>7 DEF TextPasses, w
  <2> QED BY <2>2, <2>3, <2>4 DEF Clean, HeldText
<1> QED BY <1>1, <1>4, <1>6, <1>7, <1>8

(* and a stop sequence ends it where it first occurs. *)
LEMMA StopsAreRight ==
  ASSUME request \in ModelRequests, NEW a \in Accumulators, NEW delta \in Text,
         NEW r \in Accumulators, TextStops(a, r, a.pending \o delta)
  PROVE  /\ Begins(r.text, HeldText(a) \o delta)
         /\ r.stop = "stop_sequence"
         /\ Clean(a) => StoppedRight(r, HeldText(a) \o delta) /\ FirstListed(r)
<1> DEFINE x == a.text
           w == a.pending \o delta
<1>1. x \in Text /\ w \in Text /\ x \o w = HeldText(a) \o delta
  BY HeldType
<1>2. PICK i \in DOMAIN request.stops :
        /\ Occurrences(w, request.stops[i]) # {}
        /\ NoneListedBefore(w, i)
        /\ r.text = a.text \o First(w, Min(Occurrences(w, request.stops[i])))
        /\ r.pending = <<>> /\ r.stop = "stop_sequence" /\ r.matched = request.stops[i]
  BY DEF TextStops
<1> DEFINE s == request.stops[i]
           c == Min(Occurrences(w, s))
           y == First(w, c)
<1>3. s \in Text \ {<<>>}
  BY KeepType
<1>4. c \in Occurrences(w, s) /\ \A j \in Occurrences(w, s) : c <= j
  <2> HIDE DEF s, w
  <2>1. Occurrences(w, s) \subseteq Nat
    BY <1>1, <1>3, OccursAt
  <2> QED BY <1>2, <2>1, MinOf DEF s
<1> HIDE DEF s, c, w
<1>5. c \in 0 .. Len(w) /\ At(w, c, s)
  BY <1>1, <1>3, <1>4, OccursAt
<1>6. y \in Text /\ Len(y) = c /\ Begins(y, w)
  BY <1>1, <1>5, Cut, FirstBegins
<1>7. Begins(y \o s, w)
  BY <1>1, <1>3, <1>5, UpToIt
<1> DEFINE u == r.text \o s
<1>8. r.text = x \o y /\ r.matched = s /\ r.text \in Text
  BY <1>2, HeldType DEF s, c
<1> HIDE DEF x, y
<1>9. y \o s \in Text /\ u \in Text /\ Len(r.text) = Len(x) + c /\ Len(u) = Len(r.text) + Len(s)
      /\ Len(x) \in Nat /\ Len(s) \in Nat /\ Len(r.text) \in Nat
  <2>1. y \o s \in Text
    BY <1>3, <1>6, ConcatProperties DEF Text
  <2>2. u \in Text /\ Len(u) = Len(r.text) + Len(s)
    BY <1>3, <1>8, ConcatProperties DEF Text
  <2>3. Len(r.text) = Len(x) + c
    BY <1>1, <1>6, <1>8, ConcatProperties DEF Text
  <2>4. Len(x) \in Nat /\ Len(s) \in Nat /\ Len(r.text) \in Nat
    BY <1>1, <1>3, <1>8 DEF Text
  <2> QED BY <2>1, <2>2, <2>3, <2>4
<1>10. u = x \o (y \o s)
  <2>1. x \in Seq(Units) /\ y \in Seq(Units) /\ s \in Seq(Units)
    BY <1>1, <1>3, <1>6 DEF Text
  <2> HIDE DEF s
  <2>2. (x \o y) \o s = x \o (y \o s)
    BY <2>1, ConcatAssociative
  <2> QED BY <1>8, <2>2 DEF u
<1>11. Begins(u, x \o w)
  BY <1>1, <1>7, <1>9, <1>10, BeginsBehind
<1>12. Begins(r.text, x \o w)
  BY <1>1, <1>6, <1>8, BeginsBehind
<1>13. ASSUME Clean(a)
       PROVE  Occurrences(u, s) = {Len(r.text)}
  <2> HIDE DEF u
  <2>1. Len(r.text) \in Occurrences(u, s)
    <3>1. At(s, 0, s)
      <4>1. 0 + Len(s) <= Len(s) /\ \A m \in 1 .. Len(s) : 0 + m = m
        BY <1>9
      <4> QED BY <4>1 DEF At
    <3>2. At(r.text \o s, Len(r.text) + 0, s)
      BY <1>3, <1>8, <3>1, AtAfter
    <3>3. Len(r.text) + 0 = Len(r.text) /\ Len(r.text) \in 0 .. Len(u)
      BY <1>9
    <3> QED BY <1>3, <1>9, <3>2, <3>3, OccursAt DEF u
  <2>2. ASSUME NEW j \in Occurrences(u, s)
        PROVE  j = Len(r.text)
    <3>1. j \in 0 .. Len(u) /\ At(u, j, s)
      BY <1>3, <1>9, <2>2, OccursAt
    <3>2. j \in Nat /\ j + Len(s) <= Len(u)
      BY <3>1 DEF At
    <3>3. PICK z \in Text : x \o w = u \o z
      BY <1>11 DEF Begins
    <3>4. At(x \o w, j, s)
      BY <1>3, <1>9, <3>1, <3>2, <3>3, AtStays
    <3>5. j >= Len(x) /\ At(w, j - Len(x), s)
      BY <1>13, <3>2, <3>4, NoneBefore DEF w, s, x
    <3>6. j - Len(x) \in 0 .. Len(w)
      <4>1. Len(w) \in Nat
        BY <1>1 DEF Text
      <4>2. j - Len(x) + Len(s) <= Len(w)
        BY <3>5 DEF At
      <4> QED BY <1>9, <3>2, <3>5, <4>1, <4>2
    <3>7. j - Len(x) \in Occurrences(w, s)
      BY <1>1, <1>3, <3>5, <3>6, OccursAt
    <3>8. c <= j - Len(x)
      BY <1>4, <3>7
    <3> DEFINE o == Len(x)
               t == Len(r.text)
               l == Len(s)
    <3>9. o \in Nat /\ t \in Nat /\ l \in Nat /\ c \in Nat /\ t = o + c /\ j + l <= t + l /\ c <= j - o
      BY <1>5, <1>9, <3>2, <3>8
    <3> HIDE DEF o, t, l
    <3>10. j = t
      BY <3>2, <3>9
    <3> QED BY <3>10 DEF t
  <2> QED BY <2>1, <2>2
<1>14. ASSUME Clean(a), NEW k \in DOMAIN request.stops, k < i,
              NEW j \in Occurrences(u, request.stops[k])
       PROVE  FALSE
  <2> DEFINE q == request.stops[k]
  <2>1. q \in Text \ {<<>>}
    BY KeepType
  <2>2. j \in Occurrences(u, q)
    BY <1>14
  <2>3. Occurrences(w, q) = {}
    BY <1>2, <1>14 DEF NoneListedBefore, w
  <2>t. k \in DOMAIN request.stops
    BY <1>14
  <2>4. \A n \in Nat : At(x \o w, n, q) => n >= Len(x) /\ At(w, n - Len(x), q)
    <3> TAKE n \in Nat
    <3> HAVE At(x \o w, n, q)
    <3> QED BY <1>14, <2>t, NoneBefore DEF w, x
  <2> HIDE DEF u, q
  <2>5. j \in 0 .. Len(u) /\ At(u, j, q)
    BY <1>9, <2>1, <2>2, OccursAt
  <2>6. j \in Nat /\ j + Len(q) <= Len(u)
    BY <2>5 DEF At
  <2>7. PICK z \in Text : x \o w = u \o z
    BY <1>11 DEF Begins
  <2>8. At(x \o w, j, q)
    BY <1>9, <2>1, <2>5, <2>6, <2>7, AtStays
  <2>9. j >= Len(x) /\ At(w, j - Len(x), q)
    BY <2>4, <2>6, <2>8
  <2>10. j - Len(x) \in 0 .. Len(w)
    <3>1. Len(w) \in Nat /\ Len(q) \in Nat
      BY <1>1, <2>1 DEF Text
    <3>2. j - Len(x) + Len(q) <= Len(w)
      BY <2>9 DEF At
    <3> QED BY <1>9, <2>6, <2>9, <3>1, <3>2
  <2>11. j - Len(x) \in Occurrences(w, q)
    BY <1>1, <2>1, <2>9, <2>10, OccursAt
  <2> QED BY <2>3, <2>11
<1>15. ASSUME Clean(a)
       PROVE  FirstListed(r)
  <2>1. NoneListedBefore(u, i)
    <3> HIDE DEF u
    <3> QED BY <1>14, <1>15 DEF NoneListedBefore
  <2>2. request.stops[i] = r.matched /\ u = r.text \o r.matched
    BY <1>2, <1>8
  <2> QED BY <2>1, <2>2 DEF FirstListed
<1> QED BY <1>1, <1>2, <1>8, <1>11, <1>12, <1>13, <1>15 DEF StoppedRight

(* So text is emitted, held back, or ended by a stop sequence. *)
LEMMA TextAdds ==
  ASSUME request \in ModelRequests, NEW a \in Accumulators, NEW delta \in Text
  PROVE  LET r == AccumulateText(a, delta)
         IN /\ r \in Accumulators
            /\ r.thinking = a.thinking /\ r.tagBuf = a.tagBuf /\ r.inside = a.inside
            /\ Begins(r.text, HeldText(a) \o delta)
            /\ r.stop = "none" => a.stop = "none" /\ HeldText(r) = HeldText(a) \o delta
            /\ r.stop = "none" /\ Clean(a) => Clean(r)
            /\ r.stop = "stop_sequence" /\ a.stop # "stop_sequence" /\ Clean(a) =>
                 StoppedRight(r, HeldText(a) \o delta) /\ FirstListed(r)
<1> DEFINE r == AccumulateText(a, delta)
           whole == HeldText(a) \o delta
<1>1. HeldText(a) \in Text /\ a.text \in Text /\ a.pending \in Text
  BY HeldType
<1>2. CASE delta = <<>>
  <2>1. r = a
    BY <1>2 DEF AccumulateText
  <2>2. whole = HeldText(a)
    BY <1>1, <1>2, ConcatEmptySeq DEF Text
  <2>3. Begins(a.text, whole)
    BY <1>1, <2>2, BeginsJoined DEF HeldText
  <2> HIDE DEF r, whole
  <2> QED BY <2>1, <2>2, <2>3 DEF r, whole
<1>3. CASE delta # <<>>
  <2> DEFINE w == a.pending \o delta
  <2>1. /\ r \in Accumulators
        /\ r.thinking = a.thinking /\ r.tagBuf = a.tagBuf /\ r.inside = a.inside
        /\ TextPasses(a, r, w) \/ TextStops(a, r, w)
    BY <1>3, TextEither
  <2> HIDE DEF r
  <2>2. CASE TextPasses(a, r, w)
    <3>1. /\ Begins(r.text, whole)
          /\ r.stop \in {a.stop, "max_tokens"}
          /\ r.stop = "none" => HeldText(r) = whole
          /\ r.stop = "none" /\ Clean(a) => Clean(r)
      BY <2>1, <2>2, PassesKeeps
    <3> HIDE DEF whole
    <3> QED BY <2>1, <3>1 DEF r, whole
  <2>3. CASE TextStops(a, r, w)
    <3>1. /\ Begins(r.text, whole)
          /\ r.stop = "stop_sequence"
          /\ Clean(a) => StoppedRight(r, whole) /\ FirstListed(r)
      BY <2>1, <2>3, StopsAreRight
    <3> HIDE DEF whole
    <3> QED BY <2>1, <3>1 DEF r, whole
  <2> QED BY <2>1, <2>2, <2>3
<1> QED BY <1>2, <1>3

(* No stop sequence is in what has been emitted and held back. *)
NoStop(a) == \A i \in DOMAIN request.stops : Occurrences(HeldText(a), request.stops[i]) = {}

(* What was held back comes out at the end. *)
LEMMA FinalizeAdds ==
  ASSUME request \in ModelRequests, NEW a \in Accumulators
  PROVE  LET r == FlushPending(FinalizeTags(a))
         IN r.stop = "none" =>
              /\ a.stop = "none"
              /\ Clean(a) => NoStop(r)
              /\ a.inside => r.text = HeldText(a) /\ r.thinking = a.thinking \o a.tagBuf
              /\ ~a.inside => r.text = HeldText(a) \o a.tagBuf /\ r.thinking = a.thinking
<1> DEFINE rest == [a EXCEPT !.tagBuf = <<>>]
           t == FinalizeTags(a)
           drained == [t EXCEPT !.pending = <<>>]
           b == ApplyMaxTokensBudget(drained, t.pending)
           r == FlushPending(t)
<1>1. /\ a.tagBuf \in Text /\ rest \in Accumulators
      /\ rest.stop = a.stop /\ rest.text = a.text /\ rest.thinking = a.thinking
      /\ HeldText(rest) = HeldText(a) /\ (Clean(a) => Clean(rest))
  <2>1. a.tagBuf \in Text /\ <<>> \in Text
    BY DEF Accumulators, Text
  <2>2. /\ rest \in Accumulators
        /\ rest.stop = a.stop /\ rest.pending = a.pending
        /\ rest.text = a.text /\ rest.thinking = a.thinking
    BY <2>1 DEF Accumulators
  <2> HIDE DEF rest
  <2> QED BY <2>1, <2>2 DEF HeldText, Clean
<1>2. /\ t \in Accumulators
      /\ t.stop = "none" =>
           /\ a.stop = "none"
           /\ Clean(a) => Clean(t)
           /\ a.inside => HeldText(t) = HeldText(a) /\ t.thinking = a.thinking \o a.tagBuf
           /\ ~a.inside => HeldText(t) = HeldText(a) \o a.tagBuf /\ t.thinking = a.thinking
  <2>1. CASE a.inside
    <3>1. t = AccumulateThinking(rest, a.tagBuf)
      BY <2>1 DEF FinalizeTags
    <3> HIDE DEF rest, t
    <3>2. /\ \E more \in Text :
               /\ Begins(more, a.tagBuf)
               /\ t.stop = "none" => more = a.tagBuf
               /\ t.thinking = rest.thinking \o more
          /\ t \in Accumulators
          /\ t.stop \in {rest.stop, "max_tokens"}
          /\ t.text = rest.text /\ t.pending = rest.pending
      BY <1>1, <3>1, ThinkingAdds
    <3>3. Clean(rest) => Clean(t)
      BY <3>2 DEF Clean
    <3> QED BY <1>1, <2>1, <3>2, <3>3 DEF HeldText
  <2>2. CASE ~a.inside
    <3>1. t = AccumulateText(rest, a.tagBuf)
      BY <2>2 DEF FinalizeTags
    <3> HIDE DEF rest, t
    <3>2. /\ t \in Accumulators /\ t.thinking = rest.thinking
          /\ t.stop = "none" => rest.stop = "none" /\ HeldText(t) = HeldText(rest) \o a.tagBuf
          /\ t.stop = "none" /\ Clean(rest) => Clean(t)
      BY <1>1, <3>1, TextAdds
    <3> QED BY <1>1, <2>2, <3>2
  <2> QED BY <2>1, <2>2
<1> HIDE DEF t, rest
<1>3. /\ t.pending \in Text /\ t.text \in Text /\ drained \in Accumulators
      /\ drained.stop = t.stop /\ drained.text = t.text /\ drained.thinking = t.thinking
      /\ drained.pending = <<>>
  <2>1. t.pending \in Text /\ t.text \in Text /\ <<>> \in Text
    BY <1>2 DEF Accumulators, Text
  <2> QED BY <1>2, <2>1 DEF Accumulators
<1>4. /\ r.stop = "none" => t.stop = "none" /\ r.text = HeldText(t) /\ r.thinking = t.thinking
      /\ r.pending = <<>>
  <2>1. CASE t.pending = <<>> \/ t.stop # "none"
    <3>1. r = drained
      BY <2>1 DEF FlushPending
    <3>2. t.pending = <<>> => HeldText(t) = t.text
      BY <1>3, ConcatEmptySeq DEF HeldText, Text
    <3> HIDE DEF r, drained
    <3> QED BY <1>3, <2>1, <3>1, <3>2
  <2>2. CASE t.pending # <<>> /\ t.stop = "none"
    <3>1. r = Told(b.acc, b.out)
      BY <2>2 DEF FlushPending, Told
    <3>2. /\ b.acc \in Accumulators /\ b.out \in Text
          /\ b.acc.stop = "none" => b.out = t.pending
          /\ b.acc.text = drained.text /\ b.acc.thinking = drained.thinking
          /\ b.acc.pending = drained.pending
      BY <1>3, BudgetLets
    <3> HIDE DEF drained, b, r
    <3>3. /\ r.stop = b.acc.stop /\ r.thinking = b.acc.thinking /\ r.text = b.acc.text \o b.out
          /\ r.pending = b.acc.pending
      BY <3>1, <3>2 DEF Told, Accumulators
    <3> QED BY <1>3, <2>2, <3>2, <3>3 DEF HeldText
  <2> QED BY <2>1, <2>2
<1> HIDE DEF r
<1>5. ASSUME r.stop = "none", Clean(a)
      PROVE  NoStop(r)
  <2>1. Clean(t) /\ r.text = HeldText(t) /\ r.pending = <<>>
    BY <1>2, <1>4, <1>5
  <2>2. HeldText(t) \in Text
    BY <1>2, ConcatProperties DEF HeldText, Accumulators, Text
  <2>3. HeldText(r) = HeldText(t)
    BY <2>1, <2>2, ConcatEmptySeq DEF HeldText, Text
  <2> QED BY <2>1, <2>3 DEF NoStop, Clean, HeldText
<1> QED BY <1>2, <1>4, <1>5 DEF r, t

(* A part of a text is made of its units, *)
LEMMA PartOf ==
  ASSUME NEW S, NEW s \in Seq(S), NEW n \in 0 .. Len(s)
  PROVE  First(s, n) \in Seq(S) /\ From(s, n) \in Seq(S)
<1>1. Len(s) \in Nat /\ \A i \in 1 .. Len(s) : s[i] \in S
  OBVIOUS
<1>2. 1 \in Int /\ n \in Int /\ n + 1 \in Int /\ Len(s) \in Int
  BY <1>1
<1>3. (\A i \in 1 .. n : s[i] \in S) /\ (\A i \in n + 1 .. Len(s) : s[i] \in S)
  BY <1>1
<1>4. SubSeq(s, 1, n) \in Seq(S)
  BY <1>2, <1>3, SubSeqProperties
<1>5. SubSeq(s, n + 1, Len(s)) \in Seq(S)
  BY <1>2, <1>3, SubSeqProperties
<1> QED BY <1>4, <1>5 DEF First, From

(* so is its beginning, *)
LEMMA BeginningOf ==
  ASSUME NEW S, NEW x \in Text, NEW y \in Seq(S), Begins(x, y)
  PROVE  x \in Seq(S)
<1>1. PICK z \in Text : y = x \o z
  BY DEF Begins
<1>2. /\ Len(x) \in Nat /\ Len(z) \in Nat /\ Len(y) = Len(x) + Len(z)
      /\ \A i \in 1 .. Len(x) + Len(z) : y[i] = IF i <= Len(x) THEN x[i] ELSE z[i - Len(x)]
  BY <1>1, ConcatProperties DEF Text
<1>3. \A i \in 1 .. Len(x) : i \in 1 .. Len(x) + Len(z) /\ i <= Len(x)
  BY <1>2
<1>4. \A i \in 1 .. Len(x) : x[i] \in S
  <2> TAKE i \in 1 .. Len(x)
  <2>1. x[i] = y[i] /\ i \in 1 .. Len(y)
    BY <1>2, <1>3
  <2> QED BY <2>1
<1>5. SubSeq(x, 1, Len(x)) \in Seq(S)
  BY <1>2, <1>4, SubSeqProperties, 1 \in Int, Len(x) \in Int
<1>6. SubSeq(x, 1, Len(x)) = x
  BY SubSeqFull DEF Text
<1> QED BY <1>5, <1>6

(* and what follows a text is behind it. *)
LEMMA FromAfter ==
  ASSUME NEW x \in Text, NEW y \in Text
  PROVE  From(x \o y, Len(x)) = y
<1> DEFINE z == x \o y
           v == From(z, Len(x))
<1>1. /\ Len(x) \in Nat /\ Len(y) \in Nat /\ z \in Text /\ Len(z) = Len(x) + Len(y)
      /\ \A i \in 1 .. Len(x) + Len(y) : z[i] = IF i <= Len(x) THEN x[i] ELSE y[i - Len(x)]
  BY ConcatProperties DEF Text
<1> HIDE DEF z
<1>2. /\ v \in Text /\ Len(v) = Len(z) - Len(x)
      /\ \A m \in 1 .. Len(z) - Len(x) : v[m] = z[Len(x) + m]
  <2>1. Len(x) \in 0 .. Len(z)
    BY <1>1
  <2> QED BY <1>1, <2>1, Cut, CutAt
<1> HIDE DEF v
<1>3. Len(z) - Len(x) = Len(y)
  BY <1>1
<1>4. ASSUME NEW m \in 1 .. Len(y)
      PROVE  v[m] = y[m]
  <2>1. Len(x) + m \in 1 .. Len(x) + Len(y) /\ ~(Len(x) + m <= Len(x)) /\ Len(x) + m - Len(x) = m
    BY <1>1
  <2>2. z[Len(x) + m] = y[m]
    BY <1>1, <2>1
  <2> QED BY <1>2, <1>3, <2>2
<1>5. v = y
  BY <1>2, <1>3, <1>4, SeqEqual DEF Text
<1> QED BY <1>5 DEF v, z

(* The rest of a longer text is longer by as much. *)
LEMMA FromLonger ==
  ASSUME NEW s \in Text, NEW e \in Text, NEW k \in 0 .. Len(s)
  PROVE  From(s \o e, k) = From(s, k) \o e
<1> DEFINE x == First(s, k)
           y == From(s, k)
<1>1. x \in Text /\ y \in Text /\ Len(x) = k /\ x \o y = s
  BY Cut, FirstBegins
<1> HIDE DEF x, y
<1>2. s \o e = x \o (y \o e) /\ y \o e \in Text
  <2>1. x \in Seq(Units) /\ y \in Seq(Units) /\ e \in Seq(Units)
    BY <1>1 DEF Text
  <2>2. (x \o y) \o e = x \o (y \o e)
    BY <2>1, ConcatAssociative
  <2>3. y \o e \in Text
    BY <2>1, ConcatProperties DEF Text
  <2> QED BY <1>1, <2>2, <2>3
<1>3. From(x \o (y \o e), Len(x)) = y \o e
  BY <1>1, <1>2, FromAfter
<1> QED BY <1>1, <1>2, <1>3 DEF y

-----------------------------------------------------------------------------
(* The accumulator and the text it has read *)

(* Upstream's text has none of the units of its reasoning. *)
Plain == Units \ ThoughtUnits

(* Such texts are texts, and upstream sends them. *)
LEMMA PlainIsText ==
  /\ Seq(Plain) \subseteq Text /\ Pieces \subseteq Seq(Plain) /\ <<>> \in Seq(Plain)
  /\ Thoughts \subseteq Seq(ThoughtUnits)
BY AccumulatorAssumption DEF Plain, Text

(* Two of them make one. *)
LEMMA PlainJoined ==
  ASSUME NEW x \in Seq(Plain), NEW y \in Seq(Plain)
  PROVE  x \o y \in Seq(Plain)
BY ConcatProperties

(* So what tags enclose has none, *)
LEMMA PlainRound ==
  ASSUME NEW p \in Parses, p.tagBuf \in Seq(Plain), p.thinking \in Seq(Plain)
  PROVE  ParseRound(p).tagBuf \in Seq(Plain) /\ ParseRound(p).thinking \in Seq(Plain)
<1> DEFINE b == p.inside
           tag == TagAfter(b)
           kept == p.tagBuf
           i == CutsAt(kept, tag)
           found == Occurrences(kept, tag) # {}
           more == First(kept, i)
           q == ParseRound(p)
           j == IF found THEN i + Len(tag) ELSE i
<1>1. b \in BOOLEAN /\ kept \in Text /\ Len(kept) \in Nat
  BY DEF Parses, Text
<1>2. /\ q.tagBuf = From(kept, j)
      /\ q.thinking = IF b THEN p.thinking \o more ELSE p.thinking
  BY RoundIs
<1>3. tag \in Text \ {<<>>} /\ Len(tag) \in Nat
  BY <1>1, TagAfterType
<1>4. i \in 0 .. Len(kept) /\ (found => i + Len(tag) <= Len(kept))
  BY <1>1, <1>3, CutIsRight
<1> HIDE DEF i, found, tag, q
<1>5. j \in 0 .. Len(kept)
  BY <1>1, <1>3, <1>4
<1>6. more \in Seq(Plain) /\ From(kept, j) \in Seq(Plain)
  BY <1>4, <1>5, PartOf
<1>7. p.thinking \o more \in Seq(Plain)
  BY <1>6, PlainJoined
<1> QED BY <1>2, <1>6, <1>7 DEF q

(* whatever the rounds. *)
LEMMA PlainParsed ==
  ASSUME NEW a, a.tagBuf \in Seq(Plain), a.inside \in BOOLEAN, NEW delta \in Seq(Plain)
  PROVE  ParseThinkingTags(a, delta).thinking \in Seq(Plain)
<1> DEFINE whole == a.tagBuf \o delta
           o == Len(whole)
<1>1. a.tagBuf \in Text /\ delta \in Text
  BY PlainIsText
<1>2. PICK f : IsParse(a, delta, f)
  BY <1>1, ParseRounds
<1>3. whole \in Seq(Plain) /\ o \in Nat
  <2>1. whole \in Seq(Plain)
    BY PlainJoined
  <2> QED BY <2>1
<1>4. /\ f[0] = ParseStart(a, delta)
      /\ ParseThinkingTags(a, delta) = f[o]
      /\ \A n \in Nat : f[n] \in Parses /\ f[n + 1] = ParseRound(f[n])
  BY <1>2 DEF IsParse
<1> DEFINE Good == {n \in Nat : f[n].tagBuf \in Seq(Plain) /\ f[n].thinking \in Seq(Plain)}
<1>5. 0 \in Good
  <2> DEFINE start == ParseStart(a, delta)
  <2>1. start.tagBuf = whole /\ start.thinking = <<>>
    BY DEF ParseStart
  <2> HIDE DEF start, whole
  <2>2. f[0].tagBuf \in Seq(Plain) /\ f[0].thinking \in Seq(Plain)
    BY <1>3, <1>4, <2>1, PlainIsText DEF start
  <2> QED BY <2>2
<1>6. ASSUME NEW n \in Nat, n \in Good
      PROVE  n + 1 \in Good
  <2>1. f[n] \in Parses /\ f[n + 1] = ParseRound(f[n])
        /\ f[n].tagBuf \in Seq(Plain) /\ f[n].thinking \in Seq(Plain)
    BY <1>4, <1>6
  <2>2. f[n + 1].tagBuf \in Seq(Plain) /\ f[n + 1].thinking \in Seq(Plain)
    BY <2>1, PlainRound
  <2>3. n + 1 \in Nat
    OBVIOUS
  <2> QED BY <2>2, <2>3
<1>7. o \in Good
  <2> HIDE DEF Good, o
  <2> QED BY <1>3, <1>5, <1>6, Induction
<1> QED BY <1>4, <1>7

(* What a text says as a whole *)
Whole(T) == Reading(T)[Len(T)]

(* What has been read is the beginning of what every longer text says. *)
LEMMA WholeFollows ==
  ASSUME NEW T \in Text, NEW k \in 0 .. Len(T), NEW b, NEW x \in Text, NEW y \in Text,
         ReadsTo(T, k, b, x, y), NEW e \in Text
  PROVE  /\ Whole(T \o e).text \in Text /\ Whole(T \o e).thinking \in Text
         /\ Begins(x, Whole(T \o e).text) /\ Begins(y, Whole(T \o e).thinking)
         /\ Len(Whole(T \o e).text) <= Len(x) + (Len(T \o e) - k)
<1> DEFINE s == T \o e
           r == Reading(s)
           m == Len(s)
<1>1. s \in Text /\ Len(s) = Len(T) + Len(e) /\ Len(e) \in Nat /\ Len(T) \in Nat
  BY ConcatProperties DEF Text
<1>2. r[k] = At0(b, x, y)
  BY DEF ReadsTo
<1>3. Whole(s) = r[m]
  BY DEF Whole
<1> HIDE DEF s
<1>4. IsReading(s, r)
  BY <1>1, ReadingOf
<1>5. k \in 0 .. Len(s) /\ m \in k .. Len(s)
  BY <1>1
<1> HIDE DEF r, m
<1>6. /\ r[k] \in Readings /\ r[m] \in Readings
      /\ Begins(r[k].text, r[m].text) /\ Begins(r[k].thinking, r[m].thinking)
      /\ Len(r[m].text) <= Len(r[k].text) + (m - k)
  BY <1>1, <1>4, <1>5, ReadingGrows
<1>7. r[k].text = x /\ r[k].thinking = y
  BY <1>2 DEF At0
<1>8. r[m].text \in Text /\ r[m].thinking \in Text
  BY <1>6 DEF Readings
<1> QED BY <1>3, <1>6, <1>7, <1>8 DEF s, m

(* The accumulator has read its text as the reading does, but for what it  *)
(* holds of a tag, *)
FollowsText(a, T) ==
  \E k \in 0 .. Len(T) :
    /\ a.tagBuf = From(T, k)
    /\ ReadsTo(T, k, a.inside, HeldText(a), WithoutThoughts(a.thinking))

(* or it stopped before: what it has begins what any longer text says, *)
Behind(a, T) ==
  \A e \in Text : /\ Begins(a.text, Whole(T \o e).text)
                  /\ Begins(WithoutThoughts(a.thinking), Whole(T \o e).thinking)

(* and a stop sequence that stopped it had not occurred before. *)
Right(a, T) ==
  a.stop = "stop_sequence" => \A e \in Text : StoppedRight(a, Whole(T \o e).text)

(* More text follows a longer one. *)
LEMMA LongerText ==
  ASSUME NEW T \in Text, NEW more \in Text, NEW e \in Text
  PROVE  /\ T \o more \in Text /\ more \o e \in Text
         /\ (T \o more) \o e = T \o (more \o e)
BY ConcatAssociative, ConcatProperties DEF Text

(* What has been read is read in it, *)
LEMMA ReadsLonger ==
  ASSUME NEW T \in Text, NEW more \in Text, NEW k \in 0 .. Len(T), NEW b, NEW x, NEW y,
         ReadsTo(T, k, b, x, y)
  PROVE  k \in 0 .. Len(T \o more) /\ ReadsTo(T \o more, k, b, x, y)
<1>1. Len(T \o more) = Len(T) + Len(more) /\ Len(more) \in Nat /\ Len(T) \in Nat
  BY ConcatProperties DEF Text
<1>2. k \in 0 .. Len(T \o more)
  BY <1>1
<1>3. ASSUME NEW e \in Text
      PROVE  Reading((T \o more) \o e)[k] = At0(b, x, y)
  <2>1. more \o e \in Text /\ (T \o more) \o e = T \o (more \o e)
    BY LongerText
  <2>2. Reading(T \o (more \o e))[k] = At0(b, x, y)
    BY <2>1 DEF ReadsTo
  <2> QED BY <2>1, <2>2
<1> QED BY <1>2, <1>3 DEF ReadsTo

(* and what has stopped stays behind it. *)
LEMMA StaysBehind ==
  ASSUME NEW a, NEW T \in Text, NEW more \in Text, Behind(a, T), Right(a, T)
  PROVE  Behind(a, T \o more) /\ Right(a, T \o more)
<1>1. ASSUME NEW e \in Text
      PROVE  more \o e \in Text /\ (T \o more) \o e = T \o (more \o e)
  BY LongerText
<1>2. Behind(a, T \o more)
  BY <1>1 DEF Behind
<1>3. Right(a, T \o more)
  BY <1>1 DEF Right
<1> QED BY <1>2, <1>3

(* One that follows its text is behind it. *)
LEMMA FollowsIsBehind ==
  ASSUME NEW a \in Accumulators, NEW T \in Text, FollowsText(a, T)
  PROVE  Behind(a, T)
<1> DEFINE x == HeldText(a)
           y == WithoutThoughts(a.thinking)
<1>1. PICK k \in 0 .. Len(T) : ReadsTo(T, k, a.inside, x, y)
  BY DEF FollowsText
<1>2. a.text \in Text /\ a.pending \in Text /\ a.thinking \in Text /\ x \in Text
  BY ConcatProperties DEF Accumulators, Text, HeldText
<1>3. y \in Text
  <2>1. <<>> \in Text
    BY DEF Text
  <2> QED BY <1>2, <2>1, Sifted
<1>4. Begins(a.text, x)
  BY <1>2, BeginsJoined DEF HeldText
<1> HIDE DEF x, y
<1>5. ASSUME NEW e \in Text
      PROVE  /\ Begins(a.text, Whole(T \o e).text)
             /\ Begins(y, Whole(T \o e).thinking)
  <2>1. /\ Whole(T \o e).text \in Text
        /\ Begins(x, Whole(T \o e).text) /\ Begins(y, Whole(T \o e).thinking)
    BY <1>1, <1>2, <1>3, WholeFollows
  <2> QED BY <1>2, <1>4, <2>1, BeginsMore
<1> QED BY <1>5 DEF Behind, y

(* What upstream adds is parsed behind what it holds. *)
LEMMA FollowsOn ==
  ASSUME NEW a \in Accumulators, NEW T \in Text, NEW more \in Text, FollowsText(a, T)
  PROVE  Parsed(T \o more, ParseStart(a, more), HeldText(a), WithoutThoughts(a.thinking))
<1> DEFINE x == HeldText(a)
           y == WithoutThoughts(a.thinking)
           p == ParseStart(a, more)
           s == T \o more
<1>1. PICK k \in 0 .. Len(T) : a.tagBuf = From(T, k) /\ ReadsTo(T, k, a.inside, x, y)
  BY DEF FollowsText
<1>2. a.thinking \in Text /\ x \in Text /\ <<>> \in Text
  BY ConcatProperties DEF Accumulators, Text, HeldText
<1>3. y \in Text
  BY <1>2, Sifted
<1>4. x \o <<>> = x /\ y \o <<>> = y
  <2> HIDE DEF x, y
  <2> QED BY <1>2, <1>3, ConcatEmptySeq DEF Text
<1>5. /\ p.tagBuf = a.tagBuf \o more /\ p.inside = a.inside
      /\ p.text = <<>> /\ p.thinking = <<>>
  BY DEF ParseStart
<1>6. From(s, k) = From(T, k) \o more
  BY FromLonger
<1>7. k \in 0 .. Len(s) /\ ReadsTo(s, k, a.inside, x, y)
  BY <1>1, ReadsLonger
<1> HIDE DEF x, y, p, s
<1>8. p.tagBuf = From(s, k)
  BY <1>1, <1>5, <1>6
<1>9. ReadsTo(s, k, p.inside, x \o p.text, y \o p.thinking)
  BY <1>4, <1>5, <1>7
<1>10. Parsed(s, p, x, y)
  BY <1>7, <1>8, <1>9 DEF Parsed
<1> QED BY <1>10 DEF x, y, p, s

(* More of upstream's text: what the parser makes of it is thought, and    *)
(* then told.                                                              *)
Parsing(a, p) ==
  [a EXCEPT !.tagBuf = p.tagBuf, !.inside = p.inside, !.suppress = @ \/ p.seen]

(* The accumulator after that *)
TakesText(a, more) ==
  LET p == ParseThinkingTags(a, more)
  IN AccumulateText(AccumulateThinking(Parsing(a, p), p.thinking), p.text)

(* Parsing changes neither text nor thinking. *)
LEMMA ParsingType ==
  ASSUME NEW a \in Accumulators, NEW p \in Parses
  PROVE  LET r == Parsing(a, p)
         IN /\ r \in Accumulators
            /\ r.tagBuf = p.tagBuf /\ r.inside = p.inside
            /\ r.stop = a.stop /\ r.text = a.text /\ r.thinking = a.thinking /\ r.pending = a.pending
BY DEF Accumulators, Parses, Parsing

(* Text and thinking both grow by a beginning of what was parsed, by all of *)
(* it while nothing stops the answer.                                      *)
LEMMA TextIsTaken ==
  ASSUME request \in ModelRequests, NEW a \in Accumulators, a.stop = "none", Clean(a),
         NEW more \in Text
  PROVE  LET p == ParseThinkingTags(a, more)
             r == TakesText(a, more)
             x == HeldText(a) \o p.text
         IN /\ p \in Parses /\ r \in Accumulators
            /\ r.tagBuf = p.tagBuf /\ r.inside = p.inside
            /\ \E t \in Text : Begins(t, p.thinking) /\ r.thinking = a.thinking \o t
            /\ r.stop = "none" => r.thinking = a.thinking \o p.thinking
            /\ Begins(r.text, x)
            /\ r.stop = "none" => HeldText(r) = x /\ Clean(r)
            /\ r.stop = "stop_sequence" => StoppedRight(r, x) /\ FirstListed(r)
<1> DEFINE p == ParseThinkingTags(a, more)
           turned == Parsing(a, p)
           thinks == AccumulateThinking(turned, p.thinking)
           r == AccumulateText(thinks, p.text)
           x == HeldText(a) \o p.text
<1>1. p \in Parses
  <2>1. a.tagBuf \in Text /\ a.inside \in BOOLEAN
    BY DEF Accumulators
  <2> QED BY <2>1, ParseType
<1> HIDE DEF p
<1>2. p.text \in Text /\ p.thinking \in Text
  BY <1>1 DEF Parses
<1>3. /\ turned \in Accumulators
      /\ turned.tagBuf = p.tagBuf /\ turned.inside = p.inside
      /\ turned.stop = "none" /\ turned.text = a.text
      /\ turned.thinking = a.thinking /\ turned.pending = a.pending
  BY <1>1, ParsingType
<1> HIDE DEF turned
<1>4. /\ \E t \in Text :
           /\ Begins(t, p.thinking)
           /\ thinks.stop = "none" => t = p.thinking
           /\ thinks.thinking = turned.thinking \o t
      /\ thinks \in Accumulators
      /\ thinks.stop \in {"none", "max_tokens"}
      /\ thinks.text = turned.text /\ thinks.pending = turned.pending
      /\ thinks.tagBuf = turned.tagBuf /\ thinks.inside = turned.inside
  BY <1>2, <1>3, ThinkingAdds DEF SameRest
<1> HIDE DEF thinks
<1>5. HeldText(thinks) = HeldText(a) /\ Clean(thinks)
  <2>1. thinks.text = a.text /\ thinks.pending = a.pending
    BY <1>3, <1>4
  <2> QED BY <2>1 DEF HeldText, Clean
<1>6. /\ r \in Accumulators
      /\ r.thinking = thinks.thinking /\ r.tagBuf = thinks.tagBuf /\ r.inside = thinks.inside
      /\ Begins(r.text, x)
      /\ r.stop = "none" => thinks.stop = "none" /\ HeldText(r) = x
      /\ r.stop = "none" => Clean(r)
      /\ r.stop = "stop_sequence" => StoppedRight(r, x) /\ FirstListed(r)
  <2> DEFINE d == p.text
             z == AccumulateText(thinks, d)
  <2>1. thinks \in Accumulators /\ d \in Text /\ thinks.stop # "stop_sequence"
    BY <1>2, <1>4
  <2> HIDE DEF d
  <2>2. /\ z \in Accumulators
        /\ z.thinking = thinks.thinking /\ z.tagBuf = thinks.tagBuf /\ z.inside = thinks.inside
        /\ Begins(z.text, HeldText(thinks) \o d)
        /\ z.stop = "none" => thinks.stop = "none" /\ HeldText(z) = HeldText(thinks) \o d
        /\ z.stop = "none" /\ Clean(thinks) => Clean(z)
        /\ z.stop = "stop_sequence" /\ thinks.stop # "stop_sequence" /\ Clean(thinks) =>
             StoppedRight(z, HeldText(thinks) \o d) /\ FirstListed(z)
    BY <2>1, TextAdds
  <2>3. r = z /\ x = HeldText(thinks) \o d
    BY <1>5 DEF d
  <2> HIDE DEF r, z, x
  <2> QED BY <1>5, <2>1, <2>2, <2>3
<1>7. r = TakesText(a, more)
  BY DEF TakesText, r, thinks, turned, p
<1> HIDE DEF r, x
<1>8. PICK t \in Text : /\ Begins(t, p.thinking)
                        /\ thinks.stop = "none" => t = p.thinking
                        /\ thinks.thinking = turned.thinking \o t
  BY <1>4
<1>9. r.thinking = a.thinking \o t
  BY <1>3, <1>6, <1>8
<1>10. r.stop = "none" => r.thinking = a.thinking \o p.thinking
  BY <1>6, <1>8, <1>9
<1>11. r.tagBuf = p.tagBuf /\ r.inside = p.inside
  BY <1>3, <1>4, <1>6
<1> QED BY <1>1, <1>6, <1>7, <1>8, <1>9, <1>10, <1>11 DEF x, p

(* So the accumulator still follows its text, or stops where it should. *)
LEMMA TakesTextRight ==
  ASSUME request \in ModelRequests, NEW a \in Accumulators, a.stop = "none", Clean(a),
         NEW T \in Seq(Plain), NEW more \in Seq(Plain), FollowsText(a, T)
  PROVE  LET r == TakesText(a, more)
         IN /\ r.stop = "none" => FollowsText(r, T \o more) /\ Settled(r) /\ Clean(r)
            /\ r.stop # "none" => Behind(r, T \o more) /\ Right(r, T \o more)
            /\ r.stop = "stop_sequence" => FirstListed(r)
<1> DEFINE p == ParseThinkingTags(a, more)
           r == TakesText(a, more)
           s == T \o more
           x == HeldText(a) \o p.text
           w == WithoutThoughts(a.thinking)
           y == w \o p.thinking
<1>1. T \in Text /\ more \in Text /\ s \in Text /\ <<>> \in Text
  BY PlainIsText, PlainJoined
<1>2. /\ p \in Parses /\ r \in Accumulators
      /\ r.tagBuf = p.tagBuf /\ r.inside = p.inside
      /\ \E t \in Text : Begins(t, p.thinking) /\ r.thinking = a.thinking \o t
      /\ r.stop = "none" => r.thinking = a.thinking \o p.thinking
      /\ Begins(r.text, x)
      /\ r.stop = "none" => HeldText(r) = x /\ Clean(r)
      /\ r.stop = "stop_sequence" => StoppedRight(r, x) /\ FirstListed(r)
  BY <1>1, TextIsTaken
<1>3. /\ a.tagBuf \in Text /\ a.inside \in BOOLEAN /\ a.thinking \in Text
      /\ HeldText(a) \in Text
  BY ConcatProperties DEF Accumulators, Text, HeldText
<1>4. w \in Text
  BY <1>1, <1>3, Sifted
<1>5. Parsed(s, p, HeldText(a), w) /\ Settled(p)
  <2>1. Parsed(s, ParseStart(a, more), HeldText(a), w)
    BY <1>1, FollowsOn
  <2> HIDE DEF s, w, p
  <2>2. Parsed(s, ParseThinkingTags(a, more), HeldText(a), w) /\ Settled(ParseThinkingTags(a, more))
    BY <1>1, <1>3, <1>4, <2>1, ParseReads
  <2> QED BY <2>2 DEF p
<1>6. p.thinking \in Seq(Plain)
  <2>1. PICK k \in 0 .. Len(T) : a.tagBuf = From(T, k)
    BY DEF FollowsText
  <2>2. a.tagBuf \in Seq(Plain)
    BY <2>1, PartOf
  <2> QED BY <1>3, <2>2, PlainParsed
<1>7. p.text \in Text /\ p.thinking \in Text
  BY <1>2 DEF Parses
<1> HIDE DEF p, s, w, r
<1>8. x \in Text /\ y \in Text
  BY <1>3, <1>4, <1>7, ConcatProperties DEF Text
<1>9. PICK k \in 0 .. Len(s) : p.tagBuf = From(s, k) /\ ReadsTo(s, k, p.inside, x, y)
  BY <1>5 DEF Parsed
<1>10. ASSUME NEW e \in Text
       PROVE  /\ Whole(s \o e).text \in Text /\ Whole(s \o e).thinking \in Text
              /\ Begins(x, Whole(s \o e).text) /\ Begins(y, Whole(s \o e).thinking)
  <2> HIDE DEF x, y
  <2> QED BY <1>1, <1>8, <1>9, WholeFollows
<1>11. PICK t \in Text : Begins(t, p.thinking) /\ r.thinking = a.thinking \o t
  BY <1>2
<1>12. WithoutThoughts(r.thinking) = w \o t /\ t \in Seq(Plain)
  <2>1. t \in Seq(Plain)
    BY <1>6, <1>11, BeginningOf
  <2>2. t \in Seq(Units \ ThoughtUnits)
    BY <2>1 DEF Plain
  <2> QED BY <1>3, <1>11, <2>1, <2>2, Sifted DEF w
<1>13. ASSUME r.stop = "none"
       PROVE  FollowsText(r, s) /\ Settled(r) /\ Clean(r)
  <2>1. WithoutThoughts(r.thinking) = y
    <3>1. r.thinking = a.thinking \o p.thinking
      BY <1>2, <1>13
    <3>2. p.thinking \in Seq(Units \ ThoughtUnits)
      BY <1>6 DEF Plain
    <3>3. WithoutThoughts(a.thinking \o p.thinking) = WithoutThoughts(a.thinking) \o p.thinking
      BY <1>3, <1>7, <3>2, Sifted
    <3> QED BY <3>1, <3>3 DEF w
  <2>2. HeldText(r) = x /\ Clean(r)
    BY <1>2, <1>13
  <2>3. r.tagBuf = p.tagBuf /\ r.inside = p.inside
    BY <1>2
  <2> HIDE DEF x, y
  <2>4. FollowsText(r, s)
    BY <1>9, <2>1, <2>2, <2>3 DEF FollowsText
  <2>5. Settled(r)
    BY <1>5, <2>3 DEF Settled
  <2> QED BY <2>2, <2>4, <2>5
<1>14. Behind(r, s)
  <2>1. r.text \in Text
    BY <1>2 DEF Accumulators
  <2>2. w \o t \in Text /\ Begins(w \o t, y)
    BY <1>4, <1>7, <1>11, BeginsBehind, ConcatProperties DEF Text
  <2>3. Begins(r.text, x)
    BY <1>2
  <2> DEFINE v == w \o t
  <2>4. WithoutThoughts(r.thinking) = v /\ v \in Text /\ Begins(v, y)
    BY <1>12, <2>2
  <2> HIDE DEF x, y, v
  <2>5. ASSUME NEW e \in Text
        PROVE  Begins(r.text, Whole(s \o e).text) /\ Begins(v, Whole(s \o e).thinking)
    <3>1. /\ Whole(s \o e).text \in Text /\ Whole(s \o e).thinking \in Text
          /\ Begins(x, Whole(s \o e).text) /\ Begins(y, Whole(s \o e).thinking)
      BY <1>10
    <3> QED BY <1>8, <2>1, <2>3, <2>4, <3>1, BeginsMore
  <2> QED BY <2>4, <2>5 DEF Behind
<1>15. Right(r, s)
  <2> SUFFICES ASSUME r.stop = "stop_sequence", NEW e \in Text
               PROVE  StoppedRight(r, Whole(s \o e).text)
    BY DEF Right
  <2>1. StoppedRight(r, x)
    BY <1>2
  <2>2. Whole(s \o e).text \in Text /\ Begins(x, Whole(s \o e).text)
    BY <1>10
  <2>3. r.text \o r.matched \in Text
    BY <1>2, ConcatProperties DEF Accumulators, Text
  <2> HIDE DEF x
  <2>4. Begins(r.text \o r.matched, Whole(s \o e).text)
    BY <1>8, <2>1, <2>2, <2>3, BeginsMore DEF StoppedRight
  <2> QED BY <2>1, <2>4 DEF StoppedRight
<1> QED BY <1>2, <1>13, <1>14, <1>15 DEF r, s

(* The end: what is held of a tag was none. *)
LEMMA RestIsRead ==
  ASSUME NEW T \in Text, NEW k \in 0 .. Len(T), NEW b \in BOOLEAN, NEW x \in Text, NEW y \in Text,
         ReadsTo(T, k, b, x, y), Len(From(T, k)) < Len(TagAfter(b))
  PROVE  Whole(T) = With(b, x, y, From(T, k))
<1> DEFINE r == Reading(T)
           m == Len(T)
           tag == TagAfter(b)
<1>1. m \in Nat /\ k \in Nat /\ k <= m /\ m \in k .. Len(T)
  BY DEF Text
<1>2. T \o <<>> = T /\ <<>> \in Text
  BY ConcatEmptySeq DEF Text
<1>3. r[k] = At0(b, x, y)
  BY <1>2 DEF ReadsTo
<1>4. IsReading(T, r)
  BY ReadingOf
<1>5. Len(From(T, k)) = m - k
  BY Cut
<1>6. Len(tag) \in Nat
  BY TagAfterType
<1>7. ASSUME NEW i \in k .. m - 1
      PROVE  ~At(T, i, tag)
  <2> DEFINE l == Len(tag)
  <2>1. l \in Nat /\ m - k < l
    BY <1>5, <1>6
  <2> HIDE DEF l, m
  <2>2. ~(i + l <= m)
    BY <1>1, <2>1
  <2> QED BY <2>2 DEF At, l, m
<1>8. SubSeq(T, k + 1, m) = From(T, k)
  BY DEF From
<1> HIDE DEF r, m, tag
<1>9. r[m] = With(b, x, y, SubSeq(T, k + 1, m))
  BY <1>1, <1>3, <1>4, <1>7, RunOfUnits DEF tag
<1> QED BY <1>8, <1>9 DEF Whole, r, m

(* So a complete answer is what the text says as a whole. *)
LEMMA FinalizeRight ==
  ASSUME request \in ModelRequests, NEW a \in Accumulators, NEW T \in Seq(Plain),
         a.stop = "none" => FollowsText(a, T) /\ Settled(a) /\ Clean(a)
  PROVE  LET r == FlushPending(FinalizeTags(a))
         IN r.stop = "none" =>
              /\ r.text = Whole(T).text
              /\ WithoutThoughts(r.thinking) = Whole(T).thinking
              /\ NoStop(r)
<1> DEFINE r == FlushPending(FinalizeTags(a))
           x == HeldText(a)
           y == WithoutThoughts(a.thinking)
           d == a.tagBuf
<1> SUFFICES ASSUME r.stop = "none"
             PROVE  /\ r.text = Whole(T).text
                    /\ WithoutThoughts(r.thinking) = Whole(T).thinking
                    /\ NoStop(r)
  OBVIOUS
<1>1. /\ a.stop = "none"
      /\ Clean(a) => NoStop(r)
      /\ a.inside => r.text = x /\ r.thinking = a.thinking \o d
      /\ ~a.inside => r.text = x \o d /\ r.thinking = a.thinking
  BY FinalizeAdds
<1> HIDE DEF r
<1>2. PICK k \in 0 .. Len(T) : d = From(T, k) /\ ReadsTo(T, k, a.inside, x, y)
  BY <1>1 DEF FollowsText
<1>3. T \in Text /\ <<>> \in Text
  BY PlainIsText
<1>4. a.inside \in BOOLEAN /\ a.thinking \in Text /\ x \in Text /\ d \in Text
  BY ConcatProperties DEF Accumulators, Text, HeldText
<1>5. y \in Text
  BY <1>3, <1>4, Sifted
<1>6. d \in Seq(Units \ ThoughtUnits)
  <2>1. d \in Seq(Plain)
    BY <1>2, PartOf
  <2> QED BY <2>1 DEF Plain
<1>7. Len(d) < Len(TagAfter(a.inside))
  BY <1>1 DEF Settled
<1>8. WithoutThoughts(a.thinking \o d) = y \o d
  BY <1>4, <1>6, Sifted
<1> HIDE DEF x, d
<1>9. Whole(T) = With(a.inside, x, y, d)
  <2>1. Len(From(T, k)) < Len(TagAfter(a.inside))
    BY <1>2, <1>7
  <2> HIDE DEF y
  <2>2. Whole(T) = With(a.inside, x, y, From(T, k))
    BY <1>2, <1>3, <1>4, <1>5, <2>1, RestIsRead
  <2> QED BY <1>2, <2>2
<1>10. CASE a.inside
  <2>1. Whole(T) = At0(TRUE, x, y \o d)
    BY <1>9, <1>10 DEF With
  <2>2. Whole(T).text = x /\ Whole(T).thinking = y \o d
    BY <2>1 DEF At0
  <2> QED BY <1>1, <1>8, <1>10, <2>2
<1>12. NoStop(r)
  BY <1>1
<1>11. CASE ~a.inside
  <2>1. Whole(T) = At0(FALSE, x \o d, y)
    BY <1>4, <1>9, <1>11 DEF With
  <2>2. Whole(T).text = x \o d /\ Whole(T).thinking = y
    BY <2>1 DEF At0
  <2> QED BY <1>1, <1>11, <2>2
<1> QED BY <1>10, <1>11, <1>12

-----------------------------------------------------------------------------
(* The inductive invariant of CutsAreInvisible and StopsExactly: what the  *)
(* accumulator has read of its text, or where it stopped *)

CutsInv ==
  /\ AccumulatorInv
  /\ lastContent \in Seq(Plain)
  /\ ~finished /\ acc.stop = "none" =>
       FollowsText(acc, lastContent) /\ Settled(acc) /\ Clean(acc)
  /\ ~finished /\ acc.stop # "none" => Behind(acc, lastContent) /\ Right(acc, lastContent)
  /\ ~finished /\ acc.stop = "stop_sequence" => FirstListed(acc)
  /\ finished /\ acc.stop = "none" =>
       acc.text = Read.text /\ Tagged = Read.thinking /\ NoStop(acc)

(* A new accumulator has read nothing. *)
LEMMA FreshFollows ==
  ASSUME request \in ModelRequests
  PROVE  FollowsText(Fresh, <<>>) /\ Settled(Fresh) /\ Clean(Fresh)
<1>1. /\ Fresh.tagBuf = <<>> /\ Fresh.inside = FALSE /\ Fresh.text = <<>>
      /\ Fresh.pending = <<>> /\ Fresh.thinking = <<>>
  BY DEF Fresh
<1>2. <<>> \in Text /\ Len(<<>>) = 0 /\ <<>> \o <<>> = <<>>
  BY DEF Text
<1>3. WithoutThoughts(<<>>) = <<>>
  <2>1. PICK w : IsSifted(<<>>, w)
    BY <1>2, SiftedText
  <2> QED BY <1>2, <2>1 DEF IsSifted
<1>4. ReadsTo(<<>>, 0, FALSE, <<>>, <<>>)
  <2> SUFFICES ASSUME NEW e \in Text
               PROVE  Reading(<<>> \o e)[0] = At0(FALSE, <<>>, <<>>)
    BY DEF ReadsTo
  <2>1. <<>> \o e \in Text
    BY <1>2, ConcatProperties DEF Text
  <2> QED BY <2>1, ReadingOf DEF IsReading
<1>5. From(<<>>, 0) = <<>>
  <2>1. 0 \in 0 .. Len(<<>>)
    BY <1>2
  <2>2. From(<<>>, 0) \in Text /\ Len(From(<<>>, 0)) = 0
    BY <1>2, <2>1, Cut
  <2> QED BY <2>2, EmptySeq DEF Text
<1>6. FollowsText(Fresh, <<>>)
  <2>1. 0 \in 0 .. Len(<<>>)
    BY <1>2
  <2>2. HeldText(Fresh) = <<>>
    BY <1>1, <1>2 DEF HeldText
  <2> QED BY <1>1, <1>3, <1>4, <1>5, <2>1, <2>2 DEF FollowsText
<1>7. Settled(Fresh)
  <2> DEFINE l == Len(TagAfter(Fresh.inside))
             h == Len(Fresh.tagBuf)
  <2>1. l \in Nat /\ l > 1
    BY <1>1, TagAfterType
  <2>2. h = 0
    BY <1>1, <1>2
  <2> HIDE DEF l, h
  <2>3. h < l
    BY <2>1, <2>2
  <2> QED BY <2>3 DEF Settled, l, h
<1>8. Clean(Fresh)
  <2>1. Keep \in Nat
    BY KeepType
  <2>2. ASSUME NEW i \in DOMAIN request.stops
        PROVE  Occurrences(<<>>, request.stops[i]) = {}
    <3> DEFINE p == request.stops[i]
    <3>1. p \in Text \ {<<>>}
      BY KeepType
    <3> HIDE DEF p
    <3>2. Len(p) \in Nat /\ Len(p) # 0
      BY <3>1, EmptySeq DEF Text
    <3>3. Occurrences(<<>>, p) = {}
      BY <1>2, <3>2 DEF Occurrences
    <3> QED BY <3>3 DEF p
  <2>3. Fresh.text \o Fresh.pending = <<>>
    BY <1>1, <1>2
  <2>4. Len(Fresh.pending) <= Keep
    <3> DEFINE h == Len(Fresh.pending)
    <3>1. h = 0
      BY <1>1, <1>2
    <3> HIDE DEF h
    <3>2. h <= Keep
      BY <2>1, <3>1
    <3> QED BY <3>2 DEF h
  <2> QED BY <1>1, <2>2, <2>3, <2>4 DEF Clean
<1> QED BY <1>6, <1>7, <1>8

(* More of upstream's text *)
LEMMA AssistantResponseRight ==
  ASSUME CutsInv, NEW piece \in Pieces, AssistantResponse(piece)
  PROVE  CutsInv'
<1> DEFINE tells == TakesText(acc, piece)
           T == lastContent
<1>1. /\ piece \in Seq(Plain) /\ piece \in Text /\ T \in Seq(Plain) /\ T \in Text
      /\ lastContent' = T \o piece
      /\ ~finished /\ finished' = finished /\ request' = request
      /\ request \in ModelRequests /\ acc \in Accumulators
  BY PlainIsText DEF CutsInv, AccumulatorInv, AssistantResponse
<1>2. ComputeDelta(T \o piece, T) = piece
  BY <1>1, DeltaIsPiece
<1>3. acc' = IF piece = <<>> \/ acc.stop # "none" THEN acc ELSE tells
  BY <1>2 DEF AssistantResponse, TakesText, Parsing
<1>4. AccumulatorInv' /\ lastContent' \in Seq(Plain)
  BY <1>1, AssistantResponseKeeps, PlainJoined DEF CutsInv
<1> HIDE DEF T, tells
<1>5. CASE acc.stop # "none"
  <2>1. Behind(acc, T) /\ Right(acc, T)
    BY <1>1, <1>5 DEF CutsInv, T
  <2>2. Behind(acc, T \o piece) /\ Right(acc, T \o piece)
    BY <1>1, <2>1, StaysBehind
  <2>3. acc' = acc
    BY <1>3, <1>5
  <2>4. acc.stop = "stop_sequence" => FirstListed(acc)'
    BY <1>1, <2>3 DEF CutsInv, FirstListed, NoneListedBefore
  <2> QED BY <1>1, <1>4, <1>5, <2>2, <2>3, <2>4 DEF CutsInv
<1>6. CASE acc.stop = "none"
  <2>1. FollowsText(acc, T) /\ Settled(acc) /\ Clean(acc)
    BY <1>1, <1>6 DEF CutsInv, T
  <2>2. CASE piece = <<>>
    <3>1. lastContent' = lastContent
      BY <1>1, <2>2, ConcatEmptySeq DEF T, Text
    <3>2. acc' = acc
      BY <1>3, <2>2
    <3>3. Clean(acc)'
      BY <1>1, <2>1, <3>2 DEF Clean, Keep
    <3> QED BY <1>1, <1>4, <1>6, <2>1, <3>1, <3>2, <3>3 DEF CutsInv, T
  <2>3. CASE piece # <<>>
    <3>1. /\ tells.stop = "none" => FollowsText(tells, T \o piece) /\ Settled(tells) /\ Clean(tells)
          /\ tells.stop # "none" => Behind(tells, T \o piece) /\ Right(tells, T \o piece)
          /\ tells.stop = "stop_sequence" => FirstListed(tells)
      BY <1>1, <1>6, <2>1, TakesTextRight DEF tells
    <3>2. acc' = tells
      BY <1>3, <1>6, <2>3
    <3>3. Clean(tells) => Clean(acc)'
      BY <1>1, <3>2 DEF Clean, Keep
    <3>4. FirstListed(tells) => FirstListed(acc)'
      BY <1>1, <3>2 DEF FirstListed, NoneListedBefore
    <3> QED BY <1>1, <1>4, <3>1, <3>2, <3>3, <3>4 DEF CutsInv
  <2> QED BY <2>2, <2>3
<1> QED BY <1>5, <1>6

(* Reasoning, which has no part in the text *)
LEMMA ReasoningRight ==
  ASSUME CutsInv, NEW piece \in Thoughts, ReasoningContent(piece)
  PROVE  CutsInv'
<1> DEFINE r == AccumulateThinking(acc, piece)
           T == lastContent
<1>1. /\ piece \in Text /\ piece \in Seq(ThoughtUnits)
      /\ lastThinking \in Text /\ T \in Text
      /\ lastContent' = lastContent
      /\ ~finished /\ finished' = finished /\ request' = request
      /\ request \in ModelRequests /\ acc \in Accumulators
  BY PlainIsText, TagsType DEF CutsInv, AccumulatorInv, ReasoningContent
<1>2. ComputeDelta(lastThinking \o piece, lastThinking) = piece
  BY <1>1, DeltaIsPiece
<1>3. acc' = IF acc.stop # "none" THEN acc ELSE r
  BY <1>2 DEF ReasoningContent
<1>4. AccumulatorInv' /\ lastContent' \in Seq(Plain)
  BY <1>1, ReasoningKeeps DEF CutsInv
<1>5. CASE acc.stop # "none"
  <2>1. acc' = acc
    BY <1>3, <1>5
  <2>2. acc.stop = "stop_sequence" => FirstListed(acc)'
    BY <1>1, <2>1 DEF CutsInv, FirstListed, NoneListedBefore
  <2> QED BY <1>1, <1>4, <1>5, <2>1, <2>2 DEF CutsInv
<1>6. CASE acc.stop = "none"
  <2>1. FollowsText(acc, T) /\ Settled(acc) /\ Clean(acc)
    BY <1>1, <1>6 DEF CutsInv
  <2>2. PICK t \in Text : Begins(t, piece) /\ r.thinking = acc.thinking \o t
    BY <1>1, ThinkingAdds
  <2>3. /\ r.stop \in {"none", "max_tokens"}
        /\ r.text = acc.text /\ r.pending = acc.pending
        /\ r.tagBuf = acc.tagBuf /\ r.inside = acc.inside
        /\ r \in Accumulators
    BY <1>1, <1>6, ThinkingAdds DEF SameRest
  <2> HIDE DEF r, T
  <2>4. WithoutThoughts(r.thinking) = WithoutThoughts(acc.thinking)
    <3>1. t \in Seq(ThoughtUnits)
      BY <1>1, <2>2, BeginningOf
    <3>2. acc.thinking \in Text
      BY <1>1 DEF Accumulators
    <3>3. WithoutThoughts(acc.thinking \o t) = WithoutThoughts(acc.thinking)
      BY <3>1, <3>2, Sifted
    <3> QED BY <2>2, <3>3
  <2>5. HeldText(r) = HeldText(acc)
    BY <2>3 DEF HeldText
  <2>6. FollowsText(r, T)
    BY <2>1, <2>3, <2>4, <2>5 DEF FollowsText
  <2>7. Settled(r)
    BY <2>1, <2>3 DEF Settled
  <2>8. Clean(r)
    BY <2>1, <2>3 DEF Clean
  <2>9. Behind(r, T)
    BY <1>1, <2>3, <2>6, FollowsIsBehind
  <2>10. Right(r, T)
    BY <2>3 DEF Right
  <2>11. acc' = r
    BY <1>3, <1>6
  <2>12. Clean(acc)'
    BY <1>1, <2>8, <2>11 DEF Clean, Keep
  <2> QED BY <1>1, <1>4, <2>3, <2>6, <2>7, <2>9, <2>10, <2>11, <2>12 DEF CutsInv, T
<1> QED BY <1>5, <1>6

(* A tool's input may end the answer where it is. *)
LEMMA ToolUseRight ==
  ASSUME CutsInv, NEW n \in Inputs, ToolUseEvent(n)
  PROVE  CutsInv'
<1> DEFINE T == lastContent
<1>1. /\ lastContent' = lastContent /\ T \in Text
      /\ ~finished /\ finished' = finished /\ request' = request
      /\ request \in ModelRequests /\ acc \in Accumulators
      /\ acc.stop = "none"
  BY PlainIsText DEF CutsInv, AccumulatorInv, ToolUseEvent
<1>2. AccumulatorInv' /\ lastContent' \in Seq(Plain)
  BY <1>1, ToolUseKeeps DEF CutsInv
<1>3. PICK c, s : acc' = [acc EXCEPT !.count = c, !.stop = s] /\ s \in {"none", "max_tokens"}
  BY <1>1 DEF ToolUseEvent
<1> DEFINE r == acc'
<1>4. /\ r.stop = s /\ r.text = acc.text /\ r.pending = acc.pending
      /\ r.tagBuf = acc.tagBuf /\ r.inside = acc.inside /\ r.thinking = acc.thinking
  BY <1>1, <1>3 DEF Accumulators
<1>5. FollowsText(acc, T) /\ Settled(acc) /\ Clean(acc)
  BY <1>1 DEF CutsInv
<1>6. Behind(acc, T)
  BY <1>1, <1>5, FollowsIsBehind
<1> HIDE DEF r, T
<1>7. HeldText(r) = HeldText(acc)
  BY <1>4 DEF HeldText
<1>8. FollowsText(r, T)
  BY <1>4, <1>5, <1>7 DEF FollowsText
<1>9. Settled(r)
  BY <1>4, <1>5 DEF Settled
<1>10. Clean(acc)'
  BY <1>1, <1>4, <1>5 DEF Clean, Keep, r
<1>11. Behind(r, T)
  BY <1>4, <1>6 DEF Behind
<1>12. Right(r, T)
  BY <1>3, <1>4 DEF Right
<1> QED BY <1>1, <1>2, <1>3, <1>4, <1>8, <1>9, <1>10, <1>11, <1>12 DEF CutsInv, T, r

(* The end keeps the invariant, *)
LEMMA FinalizeIsRight ==
  ASSUME CutsInv, FinalizeStream
  PROVE  CutsInv'
<1> DEFINE r == FlushPending(FinalizeTags(acc))
           T == lastContent
<1>1. /\ acc' = r /\ ~finished /\ finished' = TRUE
      /\ lastContent' = lastContent
      /\ request \in ModelRequests /\ acc \in Accumulators
      /\ T \in Seq(Plain) /\ request' = request
      /\ acc.stop = "none" => FollowsText(acc, T) /\ Settled(acc) /\ Clean(acc)
  BY DEF CutsInv, AccumulatorInv, FinalizeStream
<1>2. AccumulatorInv'
  BY FinalizeKeeps DEF CutsInv
<1>3. r.stop = "none" =>
        /\ r.text = Whole(T).text
        /\ WithoutThoughts(r.thinking) = Whole(T).thinking
        /\ NoStop(r)
  BY <1>1, FinalizeRight
<1> HIDE DEF r
<1>5. Read' = Whole(T)
  BY <1>1 DEF Read, Whole
<1>6. Tagged' = WithoutThoughts(r.thinking)
  BY <1>1 DEF Tagged
<1>7. NoStop(r) => NoStop(acc)'
  BY <1>1 DEF NoStop, HeldText
<1> QED BY <1>1, <1>2, <1>3, <1>5, <1>6, <1>7 DEF CutsInv

(* and so does a new accumulator. *)
LEMMA ForgetIsRight ==
  ASSUME CutsInv, Forget
  PROVE  CutsInv'
<1>1. /\ acc' = Fresh /\ finished' = FALSE /\ lastContent' = <<>> /\ request' = request
      /\ request \in ModelRequests
  BY DEF CutsInv, AccumulatorInv, Forget
<1>2. AccumulatorInv'
  BY ForgetKeeps DEF CutsInv
<1>3. FollowsText(Fresh, <<>>) /\ Settled(Fresh) /\ Clean(Fresh)
  BY <1>1, FreshFollows
<1>4. Clean(acc)'
  BY <1>1, <1>3 DEF Clean, Keep
<1>5. Fresh.stop = "none" /\ <<>> \in Seq(Plain)
  BY PlainIsText DEF Fresh
<1> QED BY <1>1, <1>2, <1>3, <1>4, <1>5 DEF CutsInv

(* So every step keeps it. *)
LEMMA CutsStep ==
  ASSUME CutsInv, [ResponseNext]_responseVars
  PROVE  CutsInv'
<1>1. CASE UNCHANGED accVars
  <2>1. AccumulatorInv'
    BY AccumulatorStep DEF CutsInv
  <2>2. Clean(acc) => Clean(acc)'
    BY <1>1 DEF accVars, Clean, Keep
  <2>3. /\ FirstListed(acc) => FirstListed(acc)'
        /\ NoStop(acc) => NoStop(acc)'
    BY <1>1 DEF accVars, FirstListed, NoneListedBefore, NoStop, HeldText
  <2> QED BY <1>1, <2>1, <2>2, <2>3 DEF accVars, CutsInv, Read, Tagged
<1>2. CASE UpstreamSends
  BY <1>2, AssistantResponseRight, ReasoningRight, ToolUseRight DEF UpstreamSends
<1>3. CASE Forget
  BY <1>3, ForgetIsRight
<1>4. CASE FinalizeStream
  BY <1>4, FinalizeIsRight
<1> QED BY <1>1, <1>2, <1>3, <1>4, AccumulatorSteps

(* The reading of a whole text is of texts. *)
LEMMA ReadType ==
  ASSUME NEW T \in Text
  PROVE  Whole(T).text \in Text /\ Whole(T).thinking \in Text /\ T \o <<>> = T
<1> DEFINE r == Reading(T)
           m == Len(T)
<1>1. m \in 0 .. Len(T) /\ 0 \in 0 .. Len(T) /\ m \in 0 .. m
  BY DEF Text
<1>2. IsReading(T, r)
  BY ReadingOf
<1>3. r[m] \in Readings
  BY <1>1, <1>2, ReadingGrows
<1>4. T \o <<>> = T
  BY ConcatEmptySeq DEF Text
<1> QED BY <1>3, <1>4 DEF Whole, Readings

(* The accumulator holds back no more than may be part of a tag and of a   *)
(* stop sequence.                                                          *)
LEMMA LittleIsHeldBack ==
  ASSUME request \in ModelRequests, NEW a \in Accumulators, NEW T \in Text,
         FollowsText(a, T), Settled(a), Clean(a)
  PROVE  Len(a.text) >= Len(Whole(T).text) - MostHeldBack
<1> DEFINE x == HeldText(a)
           y == WithoutThoughts(a.thinking)
           o == Len(OpenTag)
           c == Len(CloseTag)
           most == Max({o, c})
           l == Len(TagAfter(a.inside))
           h == Len(a.tagBuf)
           p == Len(a.pending)
           t == Len(a.text)
           n == Len(T)
           z == Len(Whole(T).text)
<1>1. PICK k \in 0 .. n : a.tagBuf = From(T, k) /\ ReadsTo(T, k, a.inside, x, y)
  BY DEF FollowsText
<1>2. /\ a.text \in Text /\ a.pending \in Text /\ a.thinking \in Text /\ a.inside \in BOOLEAN
      /\ <<>> \in Text /\ x \in Text
  BY ConcatProperties DEF Accumulators, Text, HeldText
<1>3. y \in Text
  BY <1>2, Sifted
<1>4. z <= Len(x) + (n - k)
  <2> HIDE DEF x, y
  <2>1. Len(Whole(T \o <<>>).text) <= Len(x) + (Len(T \o <<>>) - k)
    BY <1>1, <1>2, <1>3, WholeFollows
  <2> QED BY <2>1, ReadType
<1>5. Len(x) = t + p
  BY <1>2, ConcatProperties DEF HeldText, Text
<1>6. h = n - k
  BY <1>1, Cut
<1>7. t \in Nat /\ p \in Nat /\ n \in Nat /\ o \in Nat /\ c \in Nat /\ l \in Nat /\ z \in Nat
      /\ Keep \in Nat
  BY <1>2, TagsType, TagAfterType, ReadType, KeepType DEF Text
<1>8. h < l /\ p <= Keep
  BY DEF Settled, Clean
<1>9. l \in {o, c}
  BY DEF TagAfter
<1> DEFINE S == {o, c}
           b == o + c
<1>10. MostHeldBack = Keep + Max(S) - 1
  BY DEF MostHeldBack
<1> HIDE DEF o, c, l, h, p, t, n, z, x, y
<1>11. b \in Nat /\ S \subseteq 0 .. b /\ S # {}
  BY <1>7
<1> HIDE DEF S, b
<1>12. Max(S) \in S /\ \A v \in S : Max(S) >= v
  BY <1>11, MaxOf
<1> DEFINE u == Max(S)
<1>13. u \in Nat /\ l <= u
  BY <1>9, <1>11, <1>12 DEF S
<1> HIDE DEF u
<1>14. t >= z - (Keep + u - 1)
  BY <1>1, <1>4, <1>5, <1>6, <1>7, <1>8, <1>13
<1> QED BY <1>10, <1>14 DEF t, z, u

(* The invariant implies the one property *)
LEMMA CutsAreRight ==
  ASSUME CutsInv
  PROVE  CutsAreInvisible
<1> DEFINE T == lastContent
<1>1. /\ T \in Text /\ acc \in Accumulators /\ request \in ModelRequests
      /\ acc.text \in Text /\ acc.thinking \in Text
  BY DEF CutsInv, AccumulatorInv, Accumulators
<1>2. Read = Whole(T) /\ Tagged = WithoutThoughts(acc.thinking)
  BY DEF Read, Whole, Tagged
<1>3. acc.stop = "none" /\ finished => acc.text = Read.text /\ Tagged = Read.thinking
  BY DEF CutsInv
<1>4. ASSUME ~finished
      PROVE  IsPrefix(acc.text, Read.text) /\ IsPrefix(Tagged, Read.thinking)
  <2>1. Behind(acc, T)
    <3>1. CASE acc.stop = "none"
      <4>1. FollowsText(acc, T)
        BY <1>4, <3>1 DEF CutsInv
      <4> QED BY <1>1, <4>1, FollowsIsBehind
    <3>2. CASE acc.stop # "none"
      BY <1>4, <3>2 DEF CutsInv
    <3> QED BY <3>1, <3>2
  <2> HIDE DEF T
  <2>2. <<>> \in Text /\ Tagged \in Text
    <3>1. <<>> \in Text
      BY DEF Text
    <3> QED BY <1>1, <1>2, <3>1, Sifted
  <2>3. Begins(acc.text, Whole(T \o <<>>).text) /\ Begins(Tagged, Whole(T \o <<>>).thinking)
    BY <1>2, <2>1, <2>2 DEF Behind
  <2>4. Whole(T).text \in Text /\ Whole(T).thinking \in Text /\ T \o <<>> = T
    BY <1>1, ReadType
  <2> QED BY <1>1, <1>2, <2>2, <2>3, <2>4, BeginsIsPrefix
<1>5. ASSUME acc.stop = "none", ~finished
      PROVE  Len(acc.text) >= Len(Read.text) - MostHeldBack
  <2>1. FollowsText(acc, T) /\ Settled(acc) /\ Clean(acc)
    BY <1>5 DEF CutsInv
  <2> QED BY <1>1, <1>2, <2>1, LittleIsHeldBack
<1> QED BY <1>3, <1>4, <1>5 DEF CutsAreInvisible

(* and the other. *)
LEMMA StopsAreExact ==
  ASSUME CutsInv
  PROVE  StopsExactly
<1> DEFINE T == lastContent
           upTo == acc.text \o acc.matched
<1>1. T \in Text /\ acc \in Accumulators
  BY DEF CutsInv, AccumulatorInv
<1>2. Read = Whole(T)
  BY DEF Read, Whole
<1>3. upTo \in Text /\ <<>> \in Text
  BY <1>1, ConcatProperties DEF Accumulators, Text
<1> HIDE DEF T
<1>4. ASSUME acc.stop = "stop_sequence", ~finished
      PROVE  /\ IsPrefix(upTo, Read.text) /\ Occurrences(upTo, acc.matched) = {Len(acc.text)}
             /\ FirstListed(acc)
  <2>1. Right(acc, T) /\ FirstListed(acc)
    BY <1>4 DEF CutsInv, T
  <2>2. Whole(T).text \in Text /\ T \o <<>> = T
    BY <1>1, ReadType
  <2>3. StoppedRight(acc, Whole(T).text)
    BY <1>3, <1>4, <2>1, <2>2 DEF Right
  <2>4. Begins(upTo, Whole(T).text) /\ Occurrences(upTo, acc.matched) = {Len(acc.text)}
    BY <2>3 DEF StoppedRight
  <2> HIDE DEF upTo
  <2> QED BY <1>2, <1>3, <2>1, <2>2, <2>4, BeginsIsPrefix
<1>5. ASSUME acc.stop = "none"
      PROVE  \A i \in DOMAIN request.stops : Occurrences(acc.text \o acc.pending, request.stops[i]) = {}
  <2>1. CASE finished
    <3>1. NoStop(acc)
      BY <1>5, <2>1 DEF CutsInv
    <3> QED BY <3>1 DEF NoStop, HeldText
  <2>2. CASE ~finished
    <3>1. Clean(acc)
      BY <1>5, <2>2 DEF CutsInv
    <3> QED BY <3>1 DEF Clean
  <2> QED BY <2>1, <2>2
<1> QED BY <1>4, <1>5 DEF StopsExactly, FirstListed, NoneListedBefore

(* The first state has read nothing. *)
LEMMA CutsInit ==
  ASSUME ResponseInit
  PROVE  CutsInv
<1>1. /\ request \in ModelRequests /\ lastContent = <<>> /\ acc = Fresh /\ finished = FALSE
  BY DEF ResponseInit, CollectInit, AccInit
<1>2. AccumulatorInv
  BY AccumulatorInit
<1>3. FollowsText(Fresh, <<>>) /\ Settled(Fresh) /\ Clean(Fresh)
  BY <1>1, FreshFollows
<1>4. Fresh.stop = "none" /\ <<>> \in Seq(Plain)
  BY PlainIsText DEF Fresh
<1> QED BY <1>1, <1>2, <1>3, <1>4 DEF CutsInv

(* Of every request, for every text, tags, stop sequences and budget, and  *)
(* however upstream cuts what it sends: while it streams, what is emitted  *)
(* is the beginning of what the text says when it is read as a whole, but  *)
(* for less than a tag and a stop sequence; a complete answer is all of it *)
(* (thinking_tags.go, stop_sequence.go).                                   *)
THEOREM CutsDoNotShow == ResponseSpec => []CutsAreInvisible
<1>1. ResponseInit => CutsInv
  BY CutsInit
<1>2. CutsInv /\ [ResponseNext]_responseVars => CutsInv'
  BY CutsStep
<1>3. CutsInv => CutsAreInvisible
  BY CutsAreRight
<1> QED BY <1>1, <1>2, <1>3, PTL DEF ResponseSpec

(* For as many: no stop sequence is missed, in whatever pieces it comes;   *)
(* the one that stops the answer ends the text where it first occurs in    *)
(* what the text says, with none of those listed before it up to there,    *)
(* until the stream is finalized (stop_sequence.go).                       *)
THEOREM StopsAtTheSequence == ResponseSpec => []StopsExactly
<1>1. ResponseInit => CutsInv
  BY CutsInit
<1>2. CutsInv /\ [ResponseNext]_responseVars => CutsInv'
  BY CutsStep
<1>3. CutsInv => StopsExactly
  BY StopsAreExact
<1> QED BY <1>1, <1>2, <1>3, PTL DEF ResponseSpec

-----------------------------------------------------------------------------
(* The budget, with what is held back until the end *)

(* Little is held back: of a stop sequence and of a tag.  A stop sequence  *)
(* leaves the budget under its limit, or thinking has reached it.          *)
HoldsLittle(a) ==
  /\ Len(a.pending) <= Keep
  /\ Settled(a)
  /\ request.budget > 0 /\ a.stop = "stop_sequence" => a.count < Most \/ a.thinking # <<>>

(* An answer of text alone is at the budget or over it, by less than a tag. *)
Over(a, n) ==
  request.budget > 0 /\ a.stop = "max_tokens" /\ a.thinking = <<>> /\ n = 0 =>
    Most <= Len(a.text) /\ Len(a.text) <= Most + (Len(OpenTag) - 1)

BudgetInv ==
  /\ AccumulatorInv
  /\ ~finished => HoldsLittle(acc)
  /\ finished => Over(acc, tools)

(* Text leaves no more behind than begins a stop sequence, and without one *)
(* it emits no more than it is.                                            *)
LEMMA TextHolds ==
  ASSUME request \in ModelRequests, NEW a \in Accumulators, Len(a.pending) <= Keep,
         NEW delta \in Text
  PROVE  LET r == AccumulateText(a, delta)
         IN /\ Len(r.pending) <= Keep
            /\ r.stop # "stop_sequence" =>
                 Len(a.text) <= Len(r.text) /\ Len(r.text) <= Len(a.text) + Len(delta)
<1> DEFINE r == AccumulateText(a, delta)
           w == a.pending \o delta
           o == Len(w)
           k == Keep
           d == Len(delta)
           p == Len(a.pending)
           x == Len(a.text)
<1>1. /\ a.text \in Text /\ a.pending \in Text /\ w \in Text
      /\ o \in Nat /\ k \in Nat /\ d \in Nat /\ p \in Nat /\ x \in Nat
      /\ o = p + d /\ p <= k
  <2>1. a.text \in Text /\ a.pending \in Text /\ w \in Text /\ k \in Nat
    BY HeldType, KeepType
  <2>2. Len(a.pending \o delta) = Len(a.pending) + Len(delta)
    BY <2>1, ConcatProperties DEF Text
  <2>3. d \in Nat /\ p \in Nat /\ x \in Nat
    BY <2>1 DEF Text
  <2>4. o \in Nat
    <3> HIDE DEF w
    <3> QED BY <2>1 DEF Text
  <2> QED BY <2>1, <2>2, <2>3, <2>4
<1>2. CASE delta = <<>>
  <2>1. r = a
    BY <1>2 DEF AccumulateText
  <2> HIDE DEF r, x, d
  <2>2. x <= x /\ x <= x + d
    BY <1>1
  <2> QED BY <2>1, <2>2 DEF r, x, d
<1>3. CASE delta # <<>> /\ TextStops(a, r, w)
  <2>1. r.pending = <<>> /\ r.stop = "stop_sequence"
    BY <1>3 DEF TextStops
  <2>2. Len(<<>>) = 0 /\ 0 <= k
    BY <1>1
  <2> HIDE DEF r
  <2> QED BY <2>1, <2>2 DEF r
<1>4. CASE delta # <<>> /\ TextPasses(a, r, w)
  <2>1. PICK n \in 0 .. Len(w) :
          /\ n = IF Len(w) - Keep > 0 THEN Len(w) - Keep ELSE 0
          /\ r.pending = From(w, n)
          /\ \E more \in Text :
               /\ Begins(more, First(w, n))
               /\ r.stop = "none" => more = First(w, n)
               /\ r.text = a.text \o more
    BY <1>4 DEF TextPasses
  <2>2. PICK more \in Text : Begins(more, First(w, n)) /\ r.text = a.text \o more
    BY <2>1
  <2>3. PICK z \in Text : First(w, n) = more \o z
    BY <2>2 DEF Begins
  <2> DEFINE m == Len(more)
             q == Len(z)
             v == Len(r.pending)
             u == Len(r.text)
  <2>4. /\ m \in Nat /\ q \in Nat /\ m + q = n
        /\ v = o - n /\ u = x + m
    <3> HIDE DEF w, r
    <3>1. Len(First(w, n)) = n /\ Len(From(w, n)) = Len(w) - n
      BY <1>1, Cut
    <3>2. Len(more \o z) = Len(more) + Len(z) /\ Len(a.text \o more) = Len(a.text) + Len(more)
      BY <1>1, ConcatProperties DEF Text
    <3>3. Len(more) \in Nat /\ Len(z) \in Nat
      BY DEF Text
    <3> QED BY <2>1, <2>2, <2>3, <3>1, <3>2, <3>3
  <2>5. n \in Nat /\ n = IF o - k > 0 THEN o - k ELSE 0
    BY <2>1
  <2> HIDE DEF r, w, o, k, d, p, x, m, q, v, u
  <2>6. v <= k /\ x <= u /\ u <= x + d
    <3>1. n <= d /\ v <= k
      BY <1>1, <2>4, <2>5
    <3> QED BY <1>1, <2>4, <3>1
  <2> QED BY <2>6 DEF v, u, k, x, d, r
<1>5. delta # <<>> => TextPasses(a, r, w) \/ TextStops(a, r, w)
  BY TextEither
<1> QED BY <1>2, <1>3, <1>4, <1>5

(* Under the budget, thinking is not cut to nothing. *)
LEMMA ThinkingShows ==
  ASSUME request \in ModelRequests, NEW a \in Accumulators, NEW delta \in Text, delta # <<>>,
         request.budget > 0, a.count < Most
  PROVE  AccumulateThinking(a, delta).thinking # <<>>
<1> DEFINE total == a.count + Len(delta)
           room == Max({0, Most - a.count})
           b == ApplyMaxTokensBudget(a, delta)
           r == AccumulateThinking(a, delta)
<1>1. a.count \in Nat /\ Len(delta) \in Nat /\ total \in Nat /\ Len(delta) # 0
  BY EmptySeq DEF Accumulators, Text
<1>2. /\ request.budget \in Nat /\ Most \in Nat
      /\ total \div RunesPerToken < request.budget <=> total < Most
  <2> HIDE DEF total
  <2> QED BY <1>1, TokensBelow
<1>3. b.out \in Text /\ b.acc \in Accumulators /\ b.acc.thinking = a.thinking
  BY BudgetLets
<1>4. Len(b.out) # 0
  <2>1. CASE total < Most
    <3>1. b.out = delta
      BY <1>2, <2>1 DEF ApplyMaxTokensBudget
    <3> QED BY <1>1, <3>1
  <2>2. CASE ~(total < Most)
    <3>1. room = IF Most - a.count > 0 THEN Most - a.count ELSE 0
      <4>1. Most - a.count \in Int
        BY <1>1, <1>2
      <4> QED BY <4>1, MaxOfTwo
    <3>2. room \in 0 .. Len(delta) /\ room # 0
      <4> HIDE DEF room
      <4> QED BY <1>1, <1>2, <2>2, <3>1
    <3>3. b.out = First(delta, room)
      <4>1. b = [acc |-> [a EXCEPT !.count = @ + room, !.stop = "max_tokens"], out |-> First(delta, room)]
        BY <1>2, <2>2 DEF ApplyMaxTokensBudget, Most
      <4> HIDE DEF room
      <4> QED BY <4>1
    <3> HIDE DEF room, b
    <3>4. Len(First(delta, room)) = room
      BY <3>2, Cut
    <3> QED BY <3>2, <3>3, <3>4
  <2> QED BY <2>1, <2>2
<1>5. r = [b.acc EXCEPT !.thinking = @ \o b.out]
  BY DEF AccumulateThinking
<1> HIDE DEF b, r
<1>6. r.thinking = a.thinking \o b.out
  BY <1>3, <1>5 DEF Accumulators
<1>7. a.thinking \in Text /\ Len(a.thinking) \in Nat /\ Len(b.out) \in Nat
  BY <1>3 DEF Accumulators, Text
<1>8. Len(a.thinking \o b.out) = Len(a.thinking) + Len(b.out)
  BY <1>3, <1>7, ConcatProperties DEF Text
<1>9. Len(r.thinking) # 0
  <2> DEFINE m == Len(a.thinking)
             n == Len(b.out)
  <2>1. m \in Nat /\ n \in Nat /\ n # 0 /\ Len(r.thinking) = m + n
    BY <1>4, <1>6, <1>7, <1>8
  <2> HIDE DEF m, n
  <2>2. m + n # 0
    BY <2>1
  <2> QED BY <2>1, <2>2
<1>10. Len(<<>>) = 0
  OBVIOUS
<1> QED BY <1>9, <1>10 DEF r

(* The end of an answer that had stopped before: what was held of a tag is *)
(* all that comes.                                                         *)
LEMMA FinalizedLate ==
  ASSUME request \in ModelRequests, NEW a \in Accumulators, NEW n \in Nat,
         a.stop # "none", Exact(a, n), HoldsLittle(a)
  PROVE  Over(FlushPending(FinalizeTags(a)), n)
<1> DEFINE rest == [a EXCEPT !.tagBuf = <<>>]
           t == FinalizeTags(a)
           drained == [t EXCEPT !.pending = <<>>]
           r == FlushPending(t)
           z == Len(a.tagBuf)
<1>1. /\ rest \in Accumulators /\ a.tagBuf \in Text /\ a.inside \in BOOLEAN
      /\ rest.stop = a.stop /\ rest.text = a.text /\ rest.thinking = a.thinking
      /\ rest.count = a.count /\ rest.pending = a.pending
  <2>1. a.tagBuf \in Text /\ <<>> \in Text /\ a.inside \in BOOLEAN
    BY DEF Accumulators, Text
  <2> QED BY <2>1 DEF Accumulators
<1> HIDE DEF rest
<1>2. ASSUME a.inside
      PROVE  t \in Accumulators /\ t.stop # "none" /\ Over(t, n)
  <2>1. t = AccumulateThinking(rest, a.tagBuf)
    BY <1>2 DEF FinalizeTags, rest
  <2> HIDE DEF t
  <2>2. /\ \E more \in Text : t.thinking = rest.thinking \o more
        /\ t \in Accumulators /\ t.stop \in {rest.stop, "max_tokens"} /\ t.text = rest.text
    BY <1>1, <2>1, ThinkingAdds
  <2>3. t.thinking = <<>> => a.thinking = <<>>
    <3>1. PICK more \in Text : t.thinking = a.thinking \o more
      BY <1>1, <2>2
    <3> DEFINE x == a.thinking
    <3>2. x \in Text /\ Len(x) \in Nat /\ Len(more) \in Nat
      BY DEF Accumulators, Text
    <3> HIDE DEF x
    <3>3. Len(x \o more) = Len(x) + Len(more)
      BY <3>2, ConcatProperties DEF Text
    <3>4. t.thinking = <<>> => Len(x \o more) = 0
      BY <3>1 DEF x
    <3>5. t.thinking = <<>> => Len(x) = 0
      BY <3>2, <3>3, <3>4
    <3>6. Len(x) = 0 => x = <<>>
      BY <3>2, EmptySeq DEF Text
    <3> QED BY <3>5, <3>6 DEF x
  <2>4. ASSUME request.budget > 0, t.stop = "max_tokens", t.thinking = <<>>, n = 0
        PROVE  Len(t.text) = Most
    <3>1. CASE a.stop = "max_tokens"
      BY <1>1, <2>2, <2>3, <2>4, <3>1 DEF Exact
    <3>2. CASE a.stop = "stop_sequence"
      <4>1. rest.count < Most
        BY <1>1, <2>3, <2>4, <3>2 DEF HoldsLittle
      <4>2. a.tagBuf = <<>>
        BY <1>1, <2>1, <2>4, <4>1, ThinkingShows
      <4>3. t = rest
        BY <2>1, <4>2 DEF AccumulateThinking
      <4> QED BY <1>1, <2>4, <3>2, <4>3
    <3> QED BY <3>1, <3>2 DEF Accumulators
  <2>5. Most \in Nat /\ Len(OpenTag) \in Nat /\ Len(OpenTag) > 1
    BY TokensBelow, TagsType DEF Text
  <2>6. Over(t, n)
    <3> SUFFICES ASSUME request.budget > 0, t.stop = "max_tokens", t.thinking = <<>>, n = 0
                 PROVE  Most <= Len(t.text) /\ Len(t.text) <= Most + (Len(OpenTag) - 1)
      BY DEF Over
    <3> DEFINE u == Len(t.text)
               l == Len(OpenTag)
    <3>1. u = Most /\ l \in Nat /\ l > 1
      BY <2>4, <2>5
    <3> HIDE DEF u, l
    <3>2. Most <= u /\ u <= Most + (l - 1)
      BY <2>5, <3>1
    <3> QED BY <3>2 DEF u, l
  <2> QED BY <1>1, <2>2, <2>6
<1>3. ASSUME ~a.inside
      PROVE  t \in Accumulators /\ t.stop # "none" /\ Over(t, n)
  <2>1. t = AccumulateText(rest, a.tagBuf)
    BY <1>3 DEF FinalizeTags, rest
  <2> HIDE DEF t
  <2>2. /\ t \in Accumulators /\ t.thinking = rest.thinking
        /\ rest.stop # "none" => t.stop \in {rest.stop, "stop_sequence"}
    BY <1>1, <2>1, MoreText
  <2>3. t.stop # "stop_sequence" =>
          Len(rest.text) <= Len(t.text) /\ Len(t.text) <= Len(rest.text) + Len(a.tagBuf)
    <3>1. Len(rest.pending) <= Keep
      BY <1>1 DEF HoldsLittle
    <3> QED BY <1>1, <2>1, <3>1, TextHolds
  <2>4. Over(t, n)
    <3> SUFFICES ASSUME request.budget > 0, t.stop = "max_tokens", t.thinking = <<>>, n = 0
                 PROVE  Most <= Len(t.text) /\ Len(t.text) <= Most + (Len(OpenTag) - 1)
      BY DEF Over
    <3> DEFINE u == Len(t.text)
               l == Len(OpenTag)
    <3>1. a.stop = "max_tokens" /\ a.thinking = <<>>
      BY <1>1, <2>2
    <3>2. Len(rest.text) = Most
      BY <1>1, <3>1 DEF Exact
    <3>3. z < l
      BY <1>3 DEF HoldsLittle, Settled, TagAfter
    <3>4. z \in Nat /\ l \in Nat /\ u \in Nat /\ Most \in Nat
      <4>1. t.text \in Text /\ OpenTag \in Text
        BY <2>2, TagsType DEF Accumulators
      <4> QED BY <1>1, <4>1, TokensBelow DEF Text
    <3>5. Most <= u /\ u <= Most + z
      BY <2>3, <3>2
    <3> HIDE DEF u, l, z
    <3>6. Most <= u /\ u <= Most + (l - 1)
      BY <3>3, <3>4, <3>5
    <3> QED BY <3>6 DEF u, l
  <2> QED BY <1>1, <2>2, <2>4
<1>4. t \in Accumulators /\ t.stop # "none" /\ Over(t, n)
  BY <1>1, <1>2, <1>3
<1>5. r = drained
  BY <1>4 DEF FlushPending
<1> HIDE DEF t
<1>6. drained.stop = t.stop /\ drained.text = t.text /\ drained.thinking = t.thinking
  BY <1>4 DEF Accumulators
<1> HIDE DEF drained, r
<1>7. Over(r, n)
  BY <1>4, <1>5, <1>6 DEF Over
<1> QED BY <1>7 DEF r, t

(* Every step keeps that. *)
LEMMA BudgetStep ==
  ASSUME BudgetInv, [ResponseNext]_responseVars
  PROVE  BudgetInv'
<1>1. AccumulatorInv /\ AccumulatorInv' /\ request \in ModelRequests /\ acc \in Accumulators
  BY AccumulatorStep DEF BudgetInv, AccumulatorInv
<1>2. CASE UNCHANGED accVars
  <2>1. /\ HoldsLittle(acc) => HoldsLittle(acc)'
        /\ Over(acc, tools) => Over(acc, tools)'
    BY <1>2 DEF accVars, HoldsLittle, Settled, Keep, Over, Most
  <2> QED BY <1>1, <1>2, <2>1 DEF BudgetInv, accVars
<1>3. ASSUME NEW piece \in Pieces, AssistantResponse(piece) PROVE BudgetInv'
  <2> DEFINE p == ParseThinkingTags(acc, piece)
             turned == Parsing(acc, p)
             thinks == AccumulateThinking(turned, p.thinking)
             tells == AccumulateText(thinks, p.text)
  <2>1. /\ piece \in Text /\ lastContent \in Text /\ tools \in Nat
        /\ ComputeDelta(lastContent \o piece, lastContent) = piece
        /\ ~finished /\ finished' = finished /\ request' = request /\ HoldsLittle(acc)
        /\ Within(acc, tools)
    BY <1>3, TagsType, DeltaIsPiece DEF BudgetInv, AccumulatorInv, AssistantResponse
  <2>2. acc' = IF piece = <<>> \/ acc.stop # "none" THEN acc ELSE tells
    BY <1>3, <2>1 DEF AssistantResponse, Parsing
  <2>3. ASSUME acc.stop = "none"
        PROVE  HoldsLittle(tells)
    <3>1. p \in Parses /\ Settled(p)
      <4>1. acc.tagBuf \in Text /\ acc.inside \in BOOLEAN
        BY <1>1 DEF Accumulators
      <4> QED BY <2>1, <4>1, ParseType, ParseSettles
    <3> HIDE DEF p
    <3>2. p.text \in Text /\ p.thinking \in Text
      BY <3>1 DEF Parses
    <3>3. /\ turned \in Accumulators
          /\ turned.tagBuf = p.tagBuf /\ turned.inside = p.inside
          /\ turned.stop = "none" /\ turned.pending = acc.pending
          /\ turned.text = acc.text /\ turned.thinking = acc.thinking
      BY <1>1, <2>3, <3>1, ParsingType
    <3>c. turned.count = acc.count
      BY <1>1 DEF Parsing, Accumulators
    <3> HIDE DEF turned
    <3>4. Within(turned, tools)
      BY <2>1, <2>3, <3>3, <3>c DEF Within, Emitted
    <3>5. /\ thinks \in Accumulators /\ thinks.stop \in {"none", "max_tokens"}
          /\ thinks.pending = acc.pending
          /\ thinks.tagBuf = p.tagBuf /\ thinks.inside = p.inside
          /\ Within(thinks, tools)
          /\ request.budget > 0 /\ thinks.stop # "none" => thinks.thinking # <<>>
      BY <1>1, <2>1, <3>2, <3>3, <3>4, ThinkingAdds, MoreThinking DEF SameRest
    <3> HIDE DEF thinks
    <3>6. /\ tells.tagBuf = p.tagBuf /\ tells.inside = p.inside
          /\ tells.thinking = thinks.thinking
      BY <1>1, <3>2, <3>5, TextAdds
    <3>7. Len(tells.pending) <= Keep
      <4>1. Len(thinks.pending) <= Keep
        BY <2>1, <3>5 DEF HoldsLittle
      <4> QED BY <1>1, <3>2, <3>5, <4>1, TextHolds
    <3>8. ASSUME request.budget > 0, tells.stop = "stop_sequence"
          PROVE  tells.count < Most \/ tells.thinking # <<>>
      <4>1. CASE thinks.stop = "none"
        <5>1. tells.count = thinks.count
          BY <1>1, <2>1, <3>2, <3>5, <3>8, <4>1, MoreText
        <5> QED BY <3>5, <3>8, <4>1, <5>1 DEF Within
      <4> HIDE DEF tells
      <4> QED BY <3>5, <3>6, <3>8, <4>1
    <3> HIDE DEF tells
    <3>9. Settled(tells)
      BY <3>1, <3>6 DEF Settled
    <3> QED BY <3>7, <3>8, <3>9 DEF HoldsLittle
  <2> HIDE DEF tells
  <2>4. HoldsLittle(acc') => HoldsLittle(acc)'
    BY <2>1 DEF HoldsLittle, Settled, Keep, Most
  <2>5. HoldsLittle(acc')
    BY <2>1, <2>2, <2>3
  <2> QED BY <1>1, <2>1, <2>4, <2>5 DEF BudgetInv
<1>4. ASSUME NEW morsel \in Thoughts, ReasoningContent(morsel) PROVE BudgetInv'
  <2> DEFINE thinks == AccumulateThinking(acc, morsel)
  <2>1. /\ morsel \in Text /\ lastThinking \in Text
        /\ ComputeDelta(lastThinking \o morsel, lastThinking) = morsel
        /\ ~finished /\ finished' = finished /\ request' = request /\ HoldsLittle(acc)
    BY <1>4, TagsType, DeltaIsPiece DEF BudgetInv, AccumulatorInv, ReasoningContent
  <2>2. acc' = IF acc.stop # "none" THEN acc ELSE thinks
    BY <1>4, <2>1 DEF ReasoningContent
  <2>3. acc.stop = "none" => HoldsLittle(thinks)
    <3>1. /\ thinks.stop \in {acc.stop, "max_tokens"} /\ thinks.pending = acc.pending
          /\ thinks.tagBuf = acc.tagBuf /\ thinks.inside = acc.inside
      BY <1>1, <2>1, ThinkingAdds DEF SameRest
    <3> HIDE DEF thinks
    <3> QED BY <2>1, <3>1 DEF HoldsLittle, Settled
  <2> HIDE DEF thinks
  <2>4. HoldsLittle(acc') => HoldsLittle(acc)'
    BY <2>1 DEF HoldsLittle, Settled, Keep, Most
  <2> QED BY <1>1, <2>1, <2>2, <2>3, <2>4 DEF BudgetInv
<1>5. ASSUME NEW n \in Inputs, ToolUseEvent(n) PROVE BudgetInv'
  <2>1. ~finished /\ finished' = finished /\ request' = request /\ HoldsLittle(acc) /\ acc.stop = "none"
    BY <1>5 DEF BudgetInv, ToolUseEvent
  <2>2. PICK c, s : acc' = [acc EXCEPT !.count = c, !.stop = s] /\ s \in {"none", "max_tokens"}
    BY <1>5, <2>1 DEF ToolUseEvent
  <2> DEFINE r == acc'
  <2>3. /\ r.stop \in {"none", "max_tokens"} /\ r.pending = acc.pending
        /\ r.tagBuf = acc.tagBuf /\ r.inside = acc.inside
    BY <1>1, <2>2 DEF Accumulators
  <2> HIDE DEF r
  <2>4. HoldsLittle(r)
    BY <2>1, <2>3 DEF HoldsLittle, Settled
  <2>5. HoldsLittle(acc)'
    BY <2>1, <2>4 DEF HoldsLittle, Settled, Keep, Most, r
  <2> QED BY <1>1, <2>1, <2>5 DEF BudgetInv
<1>6. CASE Forget
  <2>1. acc' = Fresh /\ finished' = FALSE /\ request' = request
    BY <1>6 DEF Forget
  <2>2. HoldsLittle(Fresh)
    BY <1>1, FreshFollows DEF HoldsLittle, Clean, Fresh
  <2>3. HoldsLittle(acc)'
    BY <2>1, <2>2 DEF HoldsLittle, Settled, Keep, Most
  <2> QED BY <1>1, <2>1, <2>3 DEF BudgetInv
<1>7. CASE FinalizeStream
  <2>1. /\ acc' = FlushPending(FinalizeTags(acc)) /\ ~finished /\ finished' = TRUE
        /\ request' = request /\ tools' = tools /\ tools \in Nat
        /\ HoldsLittle(acc) /\ Within(acc, tools) /\ Exact(acc, tools)
    BY <1>7 DEF BudgetInv, AccumulatorInv, FinalizeStream
  <2> DEFINE r == FlushPending(FinalizeTags(acc))
  <2>2. Over(r, tools)
    <3>1. CASE acc.stop = "none"
      <4>1. Exact(r, tools)
        BY <1>1, <2>1, <3>1, Finalized
      <4>2. Most \in Nat /\ Len(OpenTag) \in Nat /\ Len(OpenTag) > 1
        BY <1>1, TokensBelow, TagsType DEF Text
      <4> DEFINE u == Len(r.text)
                 l == Len(OpenTag)
      <4>3. l \in Nat /\ l > 1
        BY <4>2
      <4> HIDE DEF l, u
      <4>4. u = Most => Most <= u /\ u <= Most + (l - 1)
        BY <4>2, <4>3
      <4>5. Over(r, tools) <=> (request.budget > 0 /\ r.stop = "max_tokens" /\ r.thinking = <<>> /\ tools = 0 =>
              Most <= u /\ u <= Most + (l - 1))
        BY DEF Over, u, l
      <4>6. Exact(r, tools) <=> (request.budget > 0 /\ r.stop = "max_tokens" /\ r.thinking = <<>> /\ tools = 0 =>
              u = Most)
        BY DEF Exact, u
      <4> QED BY <4>1, <4>4, <4>5, <4>6
    <3>2. CASE acc.stop # "none"
      BY <1>1, <2>1, <3>2, FinalizedLate
    <3> QED BY <3>1, <3>2
  <2>3. acc' = r
    BY <2>1
  <2> HIDE DEF r
  <2>4. Over(acc, tools)'
    BY <2>1, <2>2, <2>3 DEF Over, Most
  <2> QED BY <1>1, <2>1, <2>4 DEF BudgetInv
<1> QED BY <1>2, <1>3, <1>4, <1>5, <1>6, <1>7, AccumulatorSteps DEF UpstreamSends

(* Of every request, for every text, request and estimate of tokens, and   *)
(* however upstream cuts what it sends: what is emitted is counted and     *)
(* stays under the budget until something stops the answer, and an answer  *)
(* of text alone is cut at exactly its budget; once it is finalized it may *)
(* be over it by what had been held back, less than a tag (token_budget.go *)
(* and its callers, accumulator.go:129-149).                               *)
THEOREM BudgetIsKept == ResponseSpec => []BudgetCounts
<1>1. ASSUME ResponseInit PROVE BudgetInv
  <2>1. request \in ModelRequests /\ acc = Fresh /\ finished = FALSE
    BY <1>1 DEF ResponseInit, CollectInit, AccInit
  <2>2. HoldsLittle(Fresh)
    BY <2>1, FreshFollows DEF HoldsLittle, Clean, Fresh
  <2> QED BY <1>1, <2>1, <2>2, AccumulatorInit DEF BudgetInv
<1>2. BudgetInv /\ [ResponseNext]_responseVars => BudgetInv'
  BY BudgetStep
<1>3. ASSUME BudgetInv PROVE BudgetCounts
  <2>1. /\ Within(acc, tools) /\ (~finished => Exact(acc, tools)) /\ (finished => Over(acc, tools))
        /\ request \in ModelRequests /\ acc \in Accumulators /\ finished \in BOOLEAN
    BY <1>3 DEF BudgetInv, AccumulatorInv
  <2> DEFINE u == Len(acc.text)
             l == Len(OpenTag) - 1
             textAlone == acc.stop = "max_tokens" /\ acc.thinking = <<>> /\ tools = 0
  <2>2. u \in Nat /\ l \in Nat /\ Most \in Nat
    BY <2>1, TokensBelow, TagsType DEF Accumulators, Text
  <2>3. request.budget > 0 /\ textAlone =>
          (~finished => u = Most) /\ (finished => Most <= u /\ u <= Most + l)
    BY <2>1 DEF Exact, Over
  <2>4. request.budget > 0 /\ acc.stop = "none" =>
          acc.count = Len(acc.text) + Len(acc.thinking) + tools
          /\ Len(acc.text) + Len(acc.thinking) + tools < Most
    BY <2>1 DEF Within, Emitted
  <2> HIDE DEF u, l, textAlone
  <2>5. request.budget > 0 /\ textAlone =>
          Most <= u /\ u <= Most + (IF finished THEN l ELSE 0)
    BY <2>1, <2>2, <2>3
  <2> QED BY <2>4, <2>5 DEF BudgetCounts, Most, u, l, textAlone
<1> QED BY <1>1, <1>2, <1>3, PTL DEF ResponseSpec

=============================================================================
