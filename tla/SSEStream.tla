----------------------------- MODULE SSEStream -----------------------------
(***************************************************************************)
(* One streaming request: handleStreamingResponse reads the upstream's     *)
(* events (ParseStream) and the SSEWriter turns each into SSE events, which *)
(* the GateWriter holds back until the first visible output; beside it the *)
(* keepalive goroutine pings through the same writer.  executeWithRetry    *)
(* runs at most two attempts.                                              *)
(*                                                                         *)
(* A call of the SSEWriter is a sequence of SSE writes, each under writeMu: *)
(* "calls" holds the writer calls still to run, and a step of the handler  *)
(* makes one write, so that pings and a leaving client come between.       *)
(***************************************************************************)
EXTENDS Naturals, Sequences

CONSTANTS
    MaxEvents,   \* bound: upstream events in all
    MaxPings     \* bound: keepalive ticks in all

ASSUME StreamBounds == MaxEvents \in Nat /\ MaxPings \in Nat

Attempts == 1 .. 2
BlockTypes == {"thinking", "text", "tool_use", "redacted_thinking"}
LocalStops == {"max_tokens", "stop_sequence"}
Held == {"thinking", "text"}
Calls == BlockTypes \cup {"start", "tool_input", "close", "finish", "truncate",
          "fail", "message_delta", "truncated_delta", "message_stop", "error"}

VARIABLES
    pc,          \* where the handler is
    attempt,     \* executeWithRetry's attempt
    parsed,      \* how ParseStream is ending: "open" while it goes on
    verdict,     \* what the running HandleEvent will return
    invalid,     \* invalidReason and isException, as handleUpstreamError sees them
    calls,       \* writer calls still to run, innermost first
    started, activeType, blockIndex,   \* SSEWriter (blockIndex counts from 0 up)
    gate,        \* GateWriter.promoted, with Promote's flush as a step of its own
    buf, wire,   \* SSE events held back, and received by the client
    writeErr, gone, torn,
    thought, spoke, hasToolUse, held, localStop,   \* responseAccumulator
    done, keepalive, buffered, heard,  \* the keepalive of each attempt, and pings
    events, pings

handler == <<pc, attempt, parsed, verdict, invalid, calls>>
writer  == <<started, activeType, blockIndex>>
flags     == <<thought, spoke, hasToolUse, held, localStop>>
out     == <<buf, wire, writeErr, torn>>
ping    == <<keepalive, buffered, heard, pings>>
vars    == <<handler, writer, gate, out, gone, flags, done, ping, events>>

SSE(event, what, i) == [event |-> event, what |-> what, index |-> i]
JSON == SSE("json", "", 0)
EndOf(s) == s[Len(s)]

(* What readFrame reports as io.EOF: the end of the stream, and a           *)
(* connection that broke between two frames (frame.go:29-33).  Nothing      *)
(* behind it tells the two apart.                                           *)
EOF == {"eof", "dropped"}

TypeOK ==
    /\ pc \in {"calling", "reading", "handling", "deciding", "closing", "done"}
    /\ attempt \in Attempts
    /\ parsed \in {"open", "streamErr", "localStop", "severed"} \cup EOF
    /\ verdict \in BOOLEAN
    /\ invalid \in {"none", "exception", "retryable", "final"}
    /\ calls \in Seq(Calls)
    /\ started \in BOOLEAN
    /\ activeType \in BlockTypes \cup {""}
    /\ blockIndex \in Nat
    /\ gate \in {"buffering", "promoting", "direct"}
    /\ \A s \in {buf, wire} : \A i \in 1 .. Len(s) : s[i].index \in Nat
    /\ {writeErr, gone, torn, thought, spoke, hasToolUse} \subseteq BOOLEAN
    /\ held \subseteq Held
    /\ localStop \in LocalStops \cup {""}
    /\ done \in [Attempts -> BOOLEAN]
    /\ keepalive \in [Attempts -> {"waiting", "ticked", "buffered", "direct", "stopped", "unborn"}]
    /\ {buffered, heard, pings, events} \subseteq Nat

-----------------------------------------------------------------------------
Init ==
    /\ pc = "calling" /\ attempt = 1 /\ parsed = "open" /\ verdict = FALSE
    /\ invalid = "none" /\ calls = <<>>
    /\ started = FALSE /\ activeType = "" /\ blockIndex = 0
    /\ gate = "buffering" /\ buf = <<>> /\ buffered = 0
    /\ thought = FALSE /\ spoke = FALSE /\ hasToolUse = FALSE
    /\ held = {} /\ localStop = ""
    /\ wire = <<>> /\ writeErr = FALSE /\ gone = FALSE /\ torn = FALSE
    /\ done = [a \in Attempts |-> FALSE]
    /\ keepalive = [a \in Attempts |-> "unborn"]
    /\ heard = 0 /\ events = 0 /\ pings = 0

(* httpx.WriteError on the bare ResponseWriter ends the request.            *)
AnswerJSON ==
    /\ wire' = IF gone THEN wire ELSE Append(wire, JSON)
    /\ pc' = "done"

(* GenerateAssistantResponse fails for good.                                *)
CallFails ==
    /\ pc = "calling"
    /\ AnswerJSON
    /\ UNCHANGED <<attempt, parsed, verdict, invalid, calls, writer, gate, buf,
                   writeErr, torn, gone, flags, done, ping, events>>

(* It answers: NewGateWriter, NewSSEWriter and its keepalive goroutine.     *)
Answered ==
    /\ pc = "calling"
    /\ pc' = "reading"
    /\ keepalive' = [keepalive EXCEPT ![attempt] = "waiting"]
    /\ UNCHANGED <<attempt, parsed, verdict, invalid, calls, writer, gate, out,
                   gone, flags, done, buffered, heard, pings, events>>

-----------------------------------------------------------------------------
(* ParseStream's next frame, and what HandleEvent makes of it: the writer    *)
(* calls to run and the value to return.  A client found gone stops it.     *)

Received(todo, stop) ==
    /\ ~writeErr
    /\ pc' = "handling"
    /\ calls' = todo
    /\ verdict' = stop
    /\ UNCHANGED <<attempt, writer, gate, out, gone, done, ping>>

Counted ==
    /\ events < MaxEvents
    /\ events' = events + 1

If(b, call) == IF b THEN <<call>> ELSE <<>>

(* assistantResponseEvent: the tag parser may find thinking and text in one *)
(* delta, and may hold a tail back.                                         *)
Assistant ==
    \E think, text \in BOOLEAN, tail \in SUBSET Held, stop \in LocalStops \cup {""} :
        /\ Counted
        /\ thought' = (thought \/ think)
        /\ spoke' = (spoke \/ text)
        /\ held' = tail
        /\ localStop' = stop
        /\ Received(If(think, "thinking") \o If(text, "text") \o If(stop # "", "finish"),
                    stop # "")
        /\ UNCHANGED <<parsed, invalid, hasToolUse>>

(* Mutant: a thinking budget that is used up stops the stream unfinished.    *)
ReasoningUnfinished ==
    \E stop \in {"max_tokens", ""} :
        /\ Counted
        /\ thought' = TRUE
        /\ localStop' = stop
        /\ Received(<<"thinking">>, stop # "")
        /\ UNCHANGED <<parsed, invalid, spoke, hasToolUse, held>>

Reasoning ==
    \E stop \in {"max_tokens", ""} :
        /\ Counted
        /\ thought' = TRUE
        /\ localStop' = stop
        /\ Received(<<"thinking">> \o If(stop # "", "finish"), stop # "")
        /\ UNCHANGED <<parsed, invalid, spoke, hasToolUse, held>>

Redacted ==
    /\ Counted
    /\ Received(<<"redacted_thinking">>, FALSE)
    /\ UNCHANGED <<parsed, invalid, flags>>

(* toolUseEvent with its stop, or the call the end of the stream flushes.   *)
ToolUse ==
    \E stop \in {"max_tokens", ""}, end \in {"open"} \cup EOF :
        /\ Counted
        /\ hasToolUse' = TRUE
        /\ localStop' = stop
        /\ parsed' = end
        /\ Received(<<"tool_use">> \o If(stop # "", "finish"), stop # "")
        /\ UNCHANGED <<invalid, thought, spoke, held>>

(* invalidStateEvent and exception frames.                                  *)
Refused ==
    \E why \in {"exception", "retryable", "final"} :
        /\ Counted
        /\ invalid' = why
        /\ Received(If(started, "fail"), TRUE)
        /\ UNCHANGED <<parsed, flags>>

(* The callback sees that a write (a ping's, too) failed.                   *)
NoticeGone ==
    /\ writeErr
    /\ parsed' = "streamErr"
    /\ pc' = "deciding"
    /\ UNCHANGED <<attempt, verdict, invalid, calls, writer, gate, out, gone,
                   flags, done, ping, events>>

(* io.EOF; or a broken frame, the idle timeout, a cancelled context.        *)
Ends ==
    /\ parsed' \in EOF \cup {"severed"}
    /\ pc' = "deciding"
    /\ UNCHANGED <<attempt, verdict, invalid, calls, writer, gate, out, gone,
                   flags, done, ping, events>>

(* HandleEvent has returned to the callback.                                *)
Handled ==
    /\ pc = "handling"
    /\ calls = <<>>
    /\ parsed' = IF writeErr THEN "streamErr"
                 ELSE IF ~verdict THEN parsed
                 ELSE IF localStop # "" THEN "localStop" ELSE "streamErr"
    /\ pc' = IF parsed' = "open" THEN "reading" ELSE "deciding"
    /\ UNCHANGED <<attempt, verdict, invalid, calls, writer, gate, out, gone,
                   flags, done, ping, events>>

-----------------------------------------------------------------------------
(* The SSEWriter's calls, one write at a time.                              *)

Running(call) == calls # <<>> /\ Head(calls) = call /\ gate # "promoting"
Block == calls # <<>> /\ Head(calls) \in BlockTypes /\ gate # "promoting"
Return == calls' = Tail(calls)

PingHolds == keepalive[attempt] \in {"buffered", "direct"}

(* writeSSE and writeRawSSE: under writeMu, nothing after a failed write,   *)
(* to wherever GateWriter.Write sends it.                                   *)
WriteSSE(e) ==
    /\ ~PingHolds
    /\ UNCHANGED <<torn, gone, gate>>
    /\ \/ writeErr /\ UNCHANGED <<buf, wire, writeErr>>
       \/ /\ ~writeErr /\ gate = "buffering"
          /\ buf' = Append(buf, e)
          /\ UNCHANGED <<wire, writeErr>>
       \/ /\ ~writeErr /\ gate = "direct" /\ ~gone
          /\ wire' = Append(wire, e)
          /\ UNCHANGED <<buf, writeErr>>
       \/ /\ ~writeErr /\ gate = "direct" /\ gone
          /\ writeErr' \in BOOLEAN
          /\ UNCHANGED <<buf, wire>>

Quiet == UNCHANGED <<pc, attempt, parsed, verdict, invalid, done, ping, events>>

EnsureStarted ==
    /\ Block \/ Running("start")
    /\ ~started
    /\ started' = TRUE
    /\ WriteSSE(SSE("message_start", "", 0))
    /\ UNCHANGED <<calls, activeType, blockIndex, flags>> /\ Quiet

(* fireVisibleOutput, before the first text or tool block: Promote turns    *)
(* the gate over first and writes the buffer out next, without writeMu.     *)
FireVisibleOutput ==
    /\ Block /\ Head(calls) \in {"text", "tool_use"}
    /\ started
    /\ gate = "buffering"
    /\ gate' = "promoting"
    /\ UNCHANGED <<calls, writer, out, gone, flags>> /\ Quiet

(* A ping that is writing at the same time, to the buffer or to the client, *)
(* tears what either writes.                                                *)
Promote ==
    /\ gate = "promoting"
    /\ gate' = "direct"
    /\ wire' = IF gone THEN wire ELSE wire \o buf
    /\ heard' = IF gone THEN heard ELSE heard + buffered
    /\ buf' = <<>>
    /\ buffered' = 0
    /\ torn' = (torn \/ PingHolds)
    /\ UNCHANGED <<handler, writer, writeErr, gone, flags, done, keepalive, pings, events>>

Visible == Head(calls) \in {"text", "tool_use"} => gate = "direct"
Continues == activeType = Head(calls) /\ activeType \in {"text", "thinking"}

CloseActiveBlock ==
    /\ \/ Block /\ started /\ Visible /\ ~Continues /\ UNCHANGED calls
       \/ Running("close") /\ Return
    /\ activeType # ""
    /\ activeType' = ""
    /\ WriteSSE(SSE("content_block_stop", activeType, blockIndex - 1))
    /\ UNCHANGED <<started, blockIndex, flags>> /\ Quiet

(* Mutant: redacted_thinking does not count its block.                      *)
OpenBlockUncounted ==
    /\ Block /\ started /\ Visible
    /\ activeType = ""
    /\ activeType' = Head(calls)
    /\ blockIndex' = IF Head(calls) = "redacted_thinking" THEN blockIndex ELSE blockIndex + 1
    /\ calls' = CASE Head(calls) = "tool_use" -> <<"tool_input">> \o Tail(calls)
                  [] Head(calls) = "redacted_thinking" -> <<"close">> \o Tail(calls)
                  [] OTHER -> calls
    /\ WriteSSE(SSE("content_block_start", Head(calls), blockIndex))
    /\ UNCHANGED <<started, flags>> /\ Quiet

(* switchBlock, and the blocks HandleEvent opens itself.                    *)
OpenBlock ==
    /\ Block /\ started /\ Visible
    /\ activeType = ""
    /\ activeType' = Head(calls)
    /\ blockIndex' = blockIndex + 1
    /\ calls' = CASE Head(calls) = "tool_use" -> <<"tool_input">> \o Tail(calls)
                  [] Head(calls) = "redacted_thinking" -> <<"close">> \o Tail(calls)
                  [] OTHER -> calls
    /\ WriteSSE(SSE("content_block_start", Head(calls), blockIndex))
    /\ UNCHANGED <<started, flags>> /\ Quiet

WriteDelta ==
    /\ (Block /\ Continues /\ Visible) \/ Running("tool_input")
    /\ WriteSSE(SSE("content_block_delta", activeType, blockIndex - 1))
    /\ Return
    /\ UNCHANGED <<writer, flags>> /\ Quiet

AlreadyDone ==
    /\ (Running("start") /\ started) \/ (Running("close") /\ activeType = "")
    /\ Return
    /\ UNCHANGED <<writer, gate, out, gone, flags>> /\ Quiet

-----------------------------------------------------------------------------
(* Finish and TruncatedFinish: stopKeepalive, FinalizeStream (what was held *)
(* back comes out, up to the budget), and the closing events.               *)
Finalize ==
    /\ Running("finish") \/ Running("truncate")
    /\ \E rest \in SUBSET held, stop \in {localStop, "max_tokens"} :
        /\ stop # localStop => held # {} /\ localStop = ""
        /\ calls' = <<"start">> \o If("thinking" \in rest, "thinking")
                      \o If("text" \in rest, "text")
                      \o <<"close", IF Running("finish") THEN "message_delta"
                                    ELSE "truncated_delta", "message_stop">>
        /\ thought' = (thought \/ "thinking" \in rest)
        /\ spoke' = (spoke \/ "text" \in rest)
        /\ held' = {}
        /\ localStop' = stop
        /\ done' = [done EXCEPT ![attempt] = TRUE]
        /\ UNCHANGED <<pc, attempt, parsed, verdict, invalid, writer, gate, out,
                       gone, hasToolUse, ping, events>>

WriteError ==
    /\ Running("fail")
    /\ calls' = <<"close", "error">>
    /\ done' = [done EXCEPT ![attempt] = TRUE]
    /\ UNCHANGED <<pc, attempt, parsed, verdict, invalid, writer, gate, out, gone,
                   flags, ping, events>>

StopReason == IF localStop # "" THEN localStop
              ELSE IF hasToolUse THEN "tool_use" ELSE "end_turn"

(* Mutant: a cut stream keeps the reason of a complete one.                 *)
CutReasonKept == StopReason

(* TruncatedFinish's stop reason.                                           *)
CutReason == IF StopReason = "end_turn" THEN "max_tokens" ELSE StopReason

(* message_delta, message_stop and error.                                   *)
WriteClosing ==
    /\ \/ Running("message_delta") /\ WriteSSE(SSE("message_delta", StopReason, 0))
       \/ Running("truncated_delta") /\ WriteSSE(SSE("message_delta", CutReason, 0))
       \/ Running("message_stop") /\ WriteSSE(SSE("message_stop", "", 0))
       \/ Running("error") /\ WriteSSE(SSE("error", "", blockIndex))
    /\ Return
    /\ UNCHANGED <<writer, flags>> /\ Quiet

-----------------------------------------------------------------------------
(* After ParseStream.                                                       *)

(* A retryable reason goes back to executeWithRetry: the second attempt     *)
(* starts over on the same ResponseWriter.  The first one's keepalive goes  *)
(* on into its abandoned gate until the request's context ends.             *)
Restart ==
    /\ attempt = 1
    /\ attempt' = 2
    /\ pc' = "calling" /\ parsed' = "open" /\ verdict' = FALSE
    /\ invalid' = "none" /\ calls' = <<>>
    /\ started' = FALSE /\ activeType' = "" /\ blockIndex' = 0
    /\ buf' = <<>> /\ buffered' = 0
    /\ thought' = FALSE /\ spoke' = FALSE /\ hasToolUse' = FALSE
    /\ held' = {} /\ localStop' = ""
    /\ UNCHANGED <<gate, wire, writeErr, torn, gone, done, keepalive, heard, pings, events>>

Rejected ==
    /\ AnswerJSON
    /\ buf' = <<>>
    /\ UNCHANGED <<attempt, parsed, verdict, invalid, calls, writer, gate, writeErr,
                   torn, gone, flags, done, ping, events>>

(* Mutant: a retryable reason is retried behind visible output, too.        *)
ReconsiderAlways ==
    /\ pc = "deciding"
    /\ parsed = "streamErr"
    /\ IF invalid = "retryable" /\ attempt = 1 THEN Restart
       ELSE gate = "buffering" /\ Rejected

(* streamErr with nothing promoted: Discard and handleUpstreamError.        *)
Reconsider ==
    /\ pc = "deciding"
    /\ parsed = "streamErr"
    /\ gate = "buffering"
    /\ IF invalid = "retryable" /\ attempt = 1 THEN Restart ELSE Rejected

(* A broken stream with nothing promoted: writeStreamingOrJSONError.        *)
Broken ==
    /\ pc = "deciding"
    /\ parsed = "severed"
    /\ gate = "buffering"
    /\ Rejected

(* The writer calls that end the stream, by how ParseStream ended.          *)
Ending == [streamErr |-> <<"truncate">>, severed |-> <<"fail">>,
           eof |-> <<"finish">>, dropped |-> <<"finish">>]

Close ==
    /\ pc = "deciding"
    /\ parsed \in EOF \/ (parsed \in {"streamErr", "severed"} /\ gate = "direct")
    /\ pc' = "closing"
    /\ calls' = Ending[parsed]
    /\ UNCHANGED <<attempt, parsed, verdict, invalid, writer, gate, out, gone,
                   flags, done, ping, events>>

(* Finish has run already.                                                  *)
StoppedHere ==
    /\ pc = "deciding"
    /\ parsed = "localStop"
    /\ pc' = "done"
    /\ UNCHANGED <<attempt, parsed, verdict, invalid, calls, writer, gate, out,
                   gone, flags, done, ping, events>>

IsEmptyVisibleEndTurn == localStop = "" /\ thought /\ ~spoke /\ ~hasToolUse

Closed ==
    /\ pc = "closing"
    /\ calls = <<>>
    /\ IF parsed \in EOF /\ IsEmptyVisibleEndTurn /\ gate = "buffering"
       THEN IF attempt = 1 THEN Restart ELSE Rejected
       ELSE /\ pc' = "done"
            /\ UNCHANGED <<attempt, parsed, verdict, invalid, calls, writer, gate,
                           out, gone, flags, done, ping, events>>

-----------------------------------------------------------------------------
(* The keepalive goroutine of an attempt, and the client.                   *)

(* The ticker fires; a tick may win the select against a closed "done".     *)
Tick(a) ==
    /\ keepalive[a] = "waiting"
    /\ pings < MaxPings
    /\ pings' = pings + 1
    /\ keepalive' = [keepalive EXCEPT ![a] = "ticked"]
    /\ UNCHANGED <<handler, writer, gate, out, gone, flags, done, buffered, heard, events>>

(* writePing takes writeMu and GateWriter.Write reads "promoted", which     *)
(* Promote changes without that lock.                                       *)
WritePing(a) ==
    /\ keepalive[a] = "ticked"
    /\ keepalive' = [keepalive EXCEPT ![a] =
           IF a = attempt /\ writeErr THEN "waiting"
           ELSE IF a = attempt /\ gate # "buffering" THEN "direct" ELSE "buffered"]
    /\ UNCHANGED <<handler, writer, gate, out, gone, flags, done, buffered, heard, pings, events>>

PingWritten(a) ==
    /\ keepalive[a] \in {"buffered", "direct"}
    /\ keepalive' = [keepalive EXCEPT ![a] = "waiting"]
    /\ IF keepalive[a] = "buffered"
       THEN /\ buffered' = IF a = attempt THEN buffered + 1 ELSE buffered
            /\ UNCHANGED <<heard, writeErr>>
       ELSE /\ heard' = IF gone THEN heard ELSE heard + 1
            /\ IF gone THEN writeErr' \in BOOLEAN ELSE UNCHANGED writeErr
            /\ UNCHANGED buffered
    /\ UNCHANGED <<handler, writer, gate, buf, wire, torn, gone, flags, done, pings, events>>

(* Mutant: only the end of its own stream stops a keepalive.                *)
KeepaliveStopsOnDone(a) ==
    /\ keepalive[a] = "waiting"
    /\ done[a]
    /\ keepalive' = [keepalive EXCEPT ![a] = "stopped"]
    /\ UNCHANGED <<handler, writer, gate, out, gone, flags, done, buffered, heard, pings, events>>

KeepaliveStops(a) ==
    /\ keepalive[a] = "waiting"
    /\ done[a] \/ gone \/ pc = "done"
    /\ keepalive' = [keepalive EXCEPT ![a] = "stopped"]
    /\ UNCHANGED <<handler, writer, gate, out, gone, flags, done, buffered, heard, pings, events>>

ClientLeaves ==
    /\ ~gone
    /\ gone' = TRUE
    /\ UNCHANGED <<handler, writer, gate, out, flags, done, ping, events>>

-----------------------------------------------------------------------------
Receive == pc = "reading" /\ (Assistant \/ Reasoning \/ Redacted \/ ToolUse \/ Refused
                                 \/ NoticeGone \/ Ends)
Write   == EnsureStarted \/ FireVisibleOutput \/ Promote \/ CloseActiveBlock \/ OpenBlock
             \/ WriteDelta \/ AlreadyDone \/ Finalize \/ WriteError \/ WriteClosing
Settle  == Handled \/ Reconsider \/ Broken \/ Close \/ StoppedHere \/ Closed
Handle  == CallFails \/ Answered \/ Receive \/ Write \/ Settle
Keepalive(a) == WritePing(a) \/ PingWritten(a) \/ KeepaliveStops(a)

Next == Handle \/ ClientLeaves \/ \E a \in Attempts : Tick(a) \/ Keepalive(a)

StreamSpec == Init /\ [][Next]_vars

-----------------------------------------------------------------------------
(* The envelope of a stream, by neighbours: one message_start; blocks        *)
(* numbered from 0, one open at a time, each closed with its own number     *)
(* before the next; then message_delta and message_stop.  An error event    *)
(* stands between blocks, and the stream may go on behind it, when the      *)
(* upstream's error is followed by TruncatedFinish; a JSON error stands     *)
(* alone.                                                                   *)
Follows(a, b) ==
    \/ /\ b.event = "content_block_start"
       /\ \/ a.event \in {"message_start", "error"} /\ b.index = a.index
          \/ a.event = "content_block_stop" /\ b.index = a.index + 1
    \/ /\ b.event \in {"content_block_delta", "content_block_stop"}
       /\ a.event \in {"content_block_start", "content_block_delta"}
       /\ a.what = b.what /\ a.index = b.index
    \/ /\ b.event = "message_delta"
       /\ a.event \in {"message_start", "content_block_stop", "error"}
    \/ b.event = "message_stop" /\ a.event = "message_delta"
    \/ b.event = "error" /\ a.event \in {"message_start", "content_block_stop"}

WellFormed(s) ==
    /\ s # <<>> => s[1].event \in {"message_start", "json"}
    /\ \A i \in 1 .. Len(s) - 1 : Follows(s[i], s[i + 1])

(* What the client receives is at every moment the beginning of a           *)
(* well-formed answer, over every mix of blocks, tails held back, stops,    *)
(* errors, retries and a buffer promoted in the middle, unless a ping tore  *)
(* it (streaming.go HandleEvent, GateWriter, handleStreamingResponse).      *)
EnvelopeOK == ~torn => WellFormed(wire)

(* The handler never returns in the middle of an answer the client has      *)
(* begun to see: the answer ends with message_stop, or is a JSON error.     *)
(* Except on one path: a stream that breaks within a frame, falls idle or   *)
(* is cancelled once it is promoted ends with an error event and nothing    *)
(* behind it (response.go:108-111), the ending that TruncatedFinish is      *)
(* there to avoid (streaming.go:239-263: clients hang without its           *)
(* message_stop) and that streaming_test.go:348-355 rejects.                *)
NeverHalfAnswered ==
    pc = "done" /\ ~gone /\ wire # <<>> =>
        \/ EndOf(wire).event \in {"message_stop", "json"}
        \/ parsed = "severed" /\ EndOf(wire).event = "error"

(* An answer is reported complete only where readFrame has met the end of   *)
(* the body: never behind an error the upstream sends, a broken frame, the  *)
(* idle timeout or a cancelled context, and never before the end.  A        *)
(* connection that breaks between two frames is such an end to readFrame,   *)
(* and its answer does say "end_turn", which TruncatedFinish's comment      *)
(* calls false of a dropped connection (streaming.go:257-263).              *)
CompleteOnlyAtEOF ==
    parsed \notin EOF =>
        \A i \in 1 .. Len(wire) : wire[i].event = "message_delta" => wire[i].what # "end_turn"

(* A second attempt is invisible: it starts only while the client has       *)
(* received nothing of the first, not even a ping (gate_writer.go:13-15).    *)
RetryIsInvisible == [][attempt' # attempt => wire' = <<>> /\ heard' = 0]_vars

=============================================================================
