---------------------------- MODULE Accumulator ----------------------------
(***************************************************************************)
(* What responseAccumulator of internal/respconv makes of upstream's text: *)
(* it cuts thinking out of it, stops at a stop sequence or at the token    *)
(* budget, and holds back what may be the beginning of a tag or of a stop  *)
(* sequence.  Upstream sends the text so far again and again, cut wherever *)
(* it likes.                                                               *)
(*                                                                         *)
(* A text is a sequence of units.  Both tags begin with the same unit and  *)
(* are told apart by the next; a token is RunesPerToken units.  The        *)
(* streaming path finishes at the first stop, the other reads on to the    *)
(* end of the stream: after a stop either may happen.  Usage figures,      *)
(* signatures and the calls of the tool search, which are not recorded,    *)
(* are left out.                                                           *)
(***************************************************************************)
EXTENDS Integers, SequencesExt

CONSTANTS
  OpenTag, CloseTag,   \* thinkingOpenTag, thinkingCloseTag
  RunesPerToken,       \* the 4 of the token estimate
  Pieces,              \* what upstream may add to its text at a time
  Thoughts,            \* what it may add to its reasoning
  Inputs,              \* lengths of a tool's input
  ModelRequests,       \* what a client may ask: [stops, budget]
  MaxText, MaxThought, MaxTools \* bounds

Texts == {OpenTag, CloseTag} \cup Pieces \cup Thoughts
            \cup UNION {ToSet(r.stops) : r \in ModelRequests}
Units == UNION {ToSet(t) : t \in Texts}
ThoughtUnits == UNION {ToSet(t) : t \in Thoughts}

(* initStopSequences drops empty sequences.  Reasoning has units of its    *)
(* own, for the properties to tell it from the thinking in tags.           *)
ASSUME AccumulatorAssumption ==
  /\ RunesPerToken \in Nat \ {0}
  /\ Pieces \subseteq Seq(Units \ ThoughtUnits)
  /\ Thoughts \subseteq Seq(ThoughtUnits)
  /\ \A t \in {OpenTag, CloseTag} : t \in Seq(Units) /\ Len(t) > 1
  /\ Inputs \subseteq Nat
  /\ \A r \in ModelRequests : r.budget \in Nat /\ r.stops \in Seq(Seq(Units) \ {<<>>})

VARIABLES
  request,      \* the stop sequences, and the token budget or 0
  lastContent,  \* upstream's text so far
  lastThinking, \* upstream's reasoning so far
  acc,          \* the rest of the accumulator
  tools,        \* units of tool input
  finished

accVars == <<request, lastContent, lastThinking, acc, tools, finished>>

(* newAccumulator *)
Fresh ==
  [inside    |-> FALSE,   \* thinkingTagInside
   tagBuf    |-> <<>>,    \* thinkingTagBuf
   suppress  |-> FALSE,   \* suppressReasoningContent
   pending   |-> <<>>,    \* stopSeqPending
   stop      |-> "none",  \* StopReason; LocalStop is stop # "none"
   matched   |-> <<>>,    \* StopSequence
   count     |-> 0,       \* outputRuneCount
   text      |-> <<>>,    \* TextBuf
   thinking  |-> <<>>]    \* ThinkingBuf

AccInit ==
  /\ request \in ModelRequests
  /\ lastContent = <<>> /\ lastThinking = <<>>
  /\ acc = Fresh
  /\ tools = 0
  /\ finished = FALSE

-----------------------------------------------------------------------------
(* Texts *)

First(s, n) == SubSeq(s, 1, n)
From(s, n) == SubSeq(s, n + 1, Len(s))

(* strings.Index for every occurrence *)
Occurrences(s, p) == {i \in 0 .. Len(s) - Len(p) : First(From(s, i), Len(p)) = p}

Smaller(m, n) == IF m < n THEN m ELSE n

(* The longest end of s that begins p without being all of it: kmpOverlap  *)
(* goes on to the next shorter border when it has matched the whole of p.  *)
Overlap(s, p) ==
  Max({n \in 0 .. Smaller(Len(s), Len(p) - 1) : From(s, Len(s) - n) = First(p, n)})

ComputeDelta(chunk, previous) ==
  CASE previous = <<>> -> chunk
    [] previous # <<>> /\ IsPrefix(previous, chunk) -> From(chunk, Len(previous))
    [] previous # <<>> /\ IsStrictPrefix(chunk, previous) -> <<>>
    [] OTHER -> From(chunk, Overlap(previous, chunk))

-----------------------------------------------------------------------------
(* Tags *)

(* Faulty: never holds back the beginning of a tag. *)
PartialNone(buf, tag) == 0

(* partialTagSuffix *)
Partial(buf, tag) == Overlap(buf, tag)

(* A round of the loop of parseThinkingTags: a tag found turns what is     *)
(* left over to the other side; with none left, all goes out but what may  *)
(* begin one.                                                              *)
ParseRound(p) ==
  LET tag   == IF p.inside THEN CloseTag ELSE OpenTag
      found == Occurrences(p.tagBuf, tag)
      i     == IF found # {} THEN Min(found) ELSE Len(p.tagBuf) - Partial(p.tagBuf, tag)
      out   == First(p.tagBuf, i)
  IN [text     |-> IF p.inside THEN p.text ELSE p.text \o out,
      thinking |-> IF p.inside THEN p.thinking \o out ELSE p.thinking,
      tagBuf   |-> From(p.tagBuf, IF found # {} THEN i + Len(tag) ELSE i),
      inside   |-> p.inside # (found # {}),
      seen     |-> p.seen \/ (found # {} /\ ~p.inside)]

(* A tag is longer than one unit: there are no more rounds than units, and *)
(* one more than needed changes nothing.                                   *)
ParseThinkingTags(a, delta) ==
  LET buf == a.tagBuf \o delta
      rounds[n \in Nat] ==
        IF n = 0
        THEN [text |-> <<>>, thinking |-> <<>>, tagBuf |-> buf, inside |-> a.inside, seen |-> FALSE]
        ELSE ParseRound(rounds[n - 1])
  IN rounds[Len(buf)]

-----------------------------------------------------------------------------
(* Stop sequences and the budget: each takes the accumulator and a delta,  *)
(* and yields the accumulator and what of the delta goes on.               *)

(* Faulty: holds back too little for a sequence cut by a chunk. *)
KeepTooLittle ==
  Max({0} \cup {Len(request.stops[i]) - 2 : i \in DOMAIN request.stops})

(* initStopSequences *)
Keep == Max({0} \cup {Len(request.stops[i]) - 1 : i \in DOMAIN request.stops})

(* The first sequence of the list that occurs, not the first to occur. *)
ApplyStopSequenceFilter(a, delta) ==
  LET pending == a.pending \o delta
      hits == {i \in DOMAIN request.stops : Occurrences(pending, request.stops[i]) # {}}
      n == Max({0, Len(pending) - Keep})
  IN IF hits # {}
     THEN LET s == request.stops[Min(hits)]
          IN [acc |-> [a EXCEPT !.pending = <<>>, !.stop = "stop_sequence", !.matched = s],
              out |-> First(pending, Min(Occurrences(pending, s)))]
     ELSE [acc |-> [a EXCEPT !.pending = From(pending, n)], out |-> First(pending, n)]

(* Faulty: lets the last unit of the budget pass without a stop. *)
ApplyMaxTokensBudgetLate(a, delta) ==
  LET total == a.count + Len(delta)
      room == Max({0, request.budget * RunesPerToken - a.count})
  IN IF request.budget = 0 \/ total <= request.budget * RunesPerToken
     THEN [acc |-> [a EXCEPT !.count = total], out |-> delta]
     ELSE [acc |-> [a EXCEPT !.count = @ + room, !.stop = "max_tokens"],
           out |-> First(delta, room)]

ApplyMaxTokensBudget(a, delta) ==
  LET total == a.count + Len(delta)
      room == Max({0, request.budget * RunesPerToken - a.count})
  IN IF request.budget = 0 \/ total \div RunesPerToken < request.budget
     THEN [acc |-> [a EXCEPT !.count = total], out |-> delta]
     ELSE [acc |-> [a EXCEPT !.count = @ + room, !.stop = "max_tokens"],
           out |-> First(delta, room)]

AccumulateThinking(a, thought) ==
  LET b == ApplyMaxTokensBudget(a, thought)
  IN IF thought = <<>> THEN a ELSE [b.acc EXCEPT !.thinking = @ \o b.out]

(* Past a stop the text is not counted, but it is kept. *)
AccumulateText(a, delta) ==
  LET f == ApplyStopSequenceFilter(a, delta)
      b == IF f.out = <<>> \/ f.acc.stop # "none" THEN f
           ELSE ApplyMaxTokensBudget(f.acc, f.out)
  IN IF delta = <<>> THEN a ELSE [b.acc EXCEPT !.text = @ \o b.out]

(* finalizeThinkingTags, whatever the stop *)
FinalizeTags(a) ==
  LET rest == [a EXCEPT !.tagBuf = <<>>]
  IN IF a.inside THEN AccumulateThinking(rest, a.tagBuf) ELSE AccumulateText(rest, a.tagBuf)

(* flushStopSeqPending *)
FlushPending(a) ==
  LET rest == [a EXCEPT !.pending = <<>>]
      b == ApplyMaxTokensBudget(rest, a.pending)
  IN IF a.pending = <<>> \/ a.stop # "none" THEN rest
     ELSE [b.acc EXCEPT !.text = @ \o b.out]

-----------------------------------------------------------------------------
(* The events of ProcessEvent, and FinalizeStream *)

AssistantResponse(piece) ==
  LET chunk == lastContent \o piece
      delta == ComputeDelta(chunk, lastContent)
      p == ParseThinkingTags(acc, delta)
      parsed == [acc EXCEPT !.tagBuf = p.tagBuf, !.inside = p.inside,
                            !.suppress = @ \/ p.seen]
  IN /\ ~finished /\ Len(chunk) <= MaxText
     /\ lastContent' = chunk
     /\ acc' = IF delta = <<>> \/ acc.stop # "none" THEN acc
               ELSE AccumulateText(AccumulateThinking(parsed, p.thinking), p.text)
     /\ UNCHANGED <<request, lastThinking, tools, finished>>

ReasoningContent(thought) ==
  LET chunk == lastThinking \o thought
      delta == ComputeDelta(chunk, lastThinking)
  IN /\ ~finished /\ Len(chunk) <= MaxThought /\ ~acc.suppress
     /\ lastThinking' = chunk
     /\ acc' = IF acc.stop # "none" THEN acc ELSE AccumulateThinking(acc, delta)
     /\ UNCHANGED <<request, lastContent, tools, finished>>

(* A tool's input cannot be cut: it is counted, and may end the answer. *)
ToolUseEvent(n) ==
  LET count == acc.count + n
  IN /\ ~finished /\ tools + n <= MaxTools /\ acc.stop = "none"
     /\ tools' = tools + n
     /\ acc' = [acc EXCEPT !.count = count,
                           !.stop = IF request.budget > 0 /\ count \div RunesPerToken >= request.budget
                                    THEN "max_tokens" ELSE @]
     /\ UNCHANGED <<request, lastContent, lastThinking, finished>>

FinalizeStream ==
  /\ ~finished
  /\ acc' = FlushPending(FinalizeTags(acc))
  /\ finished' = TRUE
  /\ UNCHANGED <<request, lastContent, lastThinking, tools>>

(* What upstream may send. *)
UpstreamSends ==
  \/ \E piece \in Pieces : AssistantResponse(piece)
  \/ \E thought \in Thoughts : ReasoningContent(thought)
  \/ \E n \in Inputs : ToolUseEvent(n)

(* Thinking, and nothing the client would see. *)
IsEmptyAnswer ==
  acc.stop = "none" /\ acc.thinking # <<>> /\ acc.text = <<>> /\ tools = 0

-----------------------------------------------------------------------------
(* The reference: the whole text, read once from the left, unit by unit.  *)

(* The n-th unit of s: within a tag, the first of one, or what it says.    *)
ReadUnit(s, n, r) ==
  LET tag == IF r.inside THEN CloseTag ELSE OpenTag
  IN CASE r.skip > 0 -> [r EXCEPT !.skip = @ - 1]
       [] r.skip = 0 /\ IsPrefix(tag, From(s, n - 1)) ->
            [r EXCEPT !.inside = ~@, !.skip = Len(tag) - 1]
       [] OTHER -> IF r.inside THEN [r EXCEPT !.thinking = Append(@, s[n])]
                   ELSE [r EXCEPT !.text = Append(@, s[n])]

Reading(s) ==
  LET upTo[n \in 0 .. Len(s)] ==
        IF n = 0 THEN [skip |-> 0, inside |-> FALSE, text |-> <<>>, thinking |-> <<>>]
        ELSE ReadUnit(s, n, upTo[n - 1])
  IN upTo

Read == Reading(lastContent)[Len(lastContent)]

(* The thinking that came from tags. *)
WithoutThoughts(s) ==
  LET upTo[n \in 0 .. Len(s)] ==
        CASE n = 0 -> <<>>
          [] n > 0 /\ s[n] \in ThoughtUnits -> upTo[n - 1]
          [] OTHER -> Append(upTo[n - 1], s[n])
  IN upTo[Len(s)]

Tagged == WithoutThoughts(acc.thinking)

MostHeldBack == Keep + Max({Len(OpenTag), Len(CloseTag)}) - 1

(* However upstream cuts its text, the client gets what the text as a      *)
(* whole says: a complete answer is the same for every cut, and while it   *)
(* streams the client has the beginning of it, but for what may be part of *)
(* a tag and of a stop sequence (thinking_tags.go, stop_sequence.go).      *)
CutsAreInvisible ==
  /\ acc.stop = "none" /\ finished => acc.text = Read.text /\ Tagged = Read.thinking
  /\ ~finished => IsPrefix(acc.text, Read.text) /\ IsPrefix(Tagged, Read.thinking)
  /\ acc.stop = "none" /\ ~finished => Len(acc.text) >= Len(Read.text) - MostHeldBack

(* No stop sequence is missed: an answer that none has stopped has none in *)
(* what was emitted and what is held back, whatever chunks they came in.   *)
(* One that stops it ends the text where it first occurs, and of the       *)
(* sequences listed before it none occurs up to there: the code takes the  *)
(* first of the list, not the first to occur, so one listed later may be   *)
(* left in the text when both come with the same chunk (the loop of        *)
(* stop_sequence.go:19).  Of an answer with a stop this is said until the  *)
(* stream is finalized, which adds the beginning of a tag that was held    *)
(* back.                                                                   *)
StopsExactly ==
  LET stops == request.stops
      upTo == acc.text \o acc.matched
  IN /\ acc.stop = "none" =>
          \A i \in DOMAIN stops : Occurrences(acc.text \o acc.pending, stops[i]) = {}
     /\ acc.stop = "stop_sequence" /\ ~finished =>
          /\ IsPrefix(upTo, Read.text)
          /\ Occurrences(upTo, acc.matched) = {Len(acc.text)}
          /\ \E i \in DOMAIN stops :
               /\ stops[i] = acc.matched
               /\ \A j \in DOMAIN stops : j < i => Occurrences(upTo, stops[j]) = {}

(* All that is emitted is counted and stays under the budget while nothing *)
(* has stopped the answer, and an answer of text alone is cut at exactly   *)
(* its budget (token_budget.go, and the tool calls of event_processor.go). *)
(* When the stream is finalized after that, what may begin a tag and was   *)
(* held back comes out without a budget (accumulator.go:129-149): the      *)
(* answer may then be longer, by less than a tag.                          *)
BudgetCounts ==
  LET most == request.budget * RunesPerToken
      emitted == Len(acc.text) + Len(acc.thinking) + tools
      late == IF finished THEN Len(OpenTag) - 1 ELSE 0
  IN request.budget > 0 =>
       /\ acc.stop = "none" => acc.count = emitted /\ emitted < most
       /\ acc.stop = "max_tokens" /\ acc.thinking = <<>> /\ tools = 0 =>
            most <= Len(acc.text) /\ Len(acc.text) <= most + late

=============================================================================
