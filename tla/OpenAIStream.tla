---------------------------- MODULE OpenAIStream ----------------------------
(***************************************************************************)
(* A streaming request on the OpenAI route (server/openai.go): the request *)
(* of SSEStream runs with an interceptingWriter for its ResponseWriter,    *)
(* which hands every write to a pipe; at its other end the StreamTranslator *)
(* of internal/openai turns the SSE events into chunks for the client.     *)
(*                                                                         *)
(* io.Pipe has no buffer: a write waits until the translator reads, and    *)
(* nothing but the reader's end of the pipe, which the translator does not *)
(* close, lets a write fail.  So here "wire" of SSEStream is what went into *)
(* the pipe, its "gone" stays FALSE, and the client that may leave is the  *)
(* translator's.                                                           *)
(***************************************************************************)
EXTENDS SSEStream, FiniteSets

VARIABLES
    stage,      \* of streamChatCompletion: "running" the pipeline, its end of
                \* the pipe "closed", or "returned"
    reader,     \* the translator: "reading" the pipe, at "work" on what it has
                \* read, or "finished" or "left", which is to return early
    inbox,      \* the events it has read and not handled yet
    toolBlocks, \* the indexes of the tool blocks, in their order
    finish,     \* finishReason
    sentFinal,
    chunks,     \* what the client has received
    status,     \* the status of its response, 0 before its first byte
    left        \* the client is gone

translator == <<reader, inbox, toolBlocks, finish, sentFinal>>
client == <<chunks, status, left>>
openAIVars == <<vars, stage, translator, client>>

Chunk(kind, what, i) == [chunk |-> kind, what |-> what, index |-> i]
Done == Chunk("done", "", 0)
ErrorBody == Chunk("error", "", 0)

OpenAIInit ==
    /\ Init
    /\ stage = "running"
    /\ reader = "reading" /\ inbox = <<>>
    /\ toolBlocks = <<>> /\ finish = "" /\ sentFinal = FALSE
    /\ chunks = <<>> /\ status = 0 /\ left = FALSE

-----------------------------------------------------------------------------
(* The pipeline, and the pipe.                                              *)

(* interceptingWriter.bufferedErr: an error status came before any byte.    *)
BufferedErr == wire = <<JSON>>

Sent == IF wire' = <<JSON>> THEN <<>> ELSE SubSeq(wire', Len(wire) + 1, Len(wire'))

(* A step of SSEStream; if it writes, the translator takes all it writes.   *)
(* A ping is read, too, and dropped.                                        *)
Pipeline ==
    /\ Handle \/ \E a \in Attempts : Tick(a) \/ Keepalive(a)
    /\ Sent # <<>> \/ heard' # heard => reader = "reading"
    /\ IF Sent # <<>> THEN inbox' = Sent /\ reader' = "work"
                      ELSE UNCHANGED <<inbox, reader>>
    /\ UNCHANGED <<stage, toolBlocks, finish, sentFinal, client>>

(* HandleMessages has returned: pw.Close.                                   *)
ClosePipe ==
    /\ stage = "running" /\ pc = "done"
    /\ stage' = "closed"
    /\ UNCHANGED <<vars, translator, client>>

-----------------------------------------------------------------------------
(* The translator.                                                          *)

(* Mutant: tools are numbered as the blocks are.                            *)
ToolIndexOfBlock(i) == i

(* blockToolIdx *)
ToolIndex(i) == (CHOOSE n \in DOMAIN toolBlocks : toolBlocks[n] = i) - 1

MapFinishReason(stop, hasTools) ==
    CASE hasTools -> "tool_calls"
      [] ~hasTools /\ stop = "max_tokens" -> "length"
      [] ~hasTools /\ stop = "tool_use" -> "tool_calls"
      [] OTHER -> "stop"

(* Mutant: handleMessageDelta does not look at hasToolUse.                  *)
FinishOfStop(f) ==
    IF f.event = "message_delta" THEN MapFinishReason(f.what, FALSE) ELSE finish

(* handleMessageDelta *)
FinishReason(f) ==
    IF f.event = "message_delta" THEN MapFinishReason(f.what, toolBlocks # <<>>) ELSE finish

IsTool(f) == f.event = "content_block_start" /\ f.what = "tool_use"

(* handleMessageStop *)
FinishChunk ==
    Chunk("finish", IF finish = "" THEN MapFinishReason("", toolBlocks # <<>>) ELSE finish, 0)

(* The chunks of an event.                                                  *)
Emitted(f) ==
    CASE f.event = "message_start" -> <<Chunk("role", "", 0)>>
      [] IsTool(f) -> <<Chunk("tool", "", Len(toolBlocks))>>
      [] f.event = "content_block_delta" /\ f.what = "text" -> <<Chunk("content", "", 0)>>
      [] f.event = "content_block_delta" /\ f.what = "tool_use" ->
           <<Chunk("arguments", "", ToolIndex(f.index))>>
      [] f.event = "message_stop" /\ ~sentFinal -> <<FinishChunk>>
      [] f.event = "error" -> <<Chunk("finish", "content_filter", 0), Done>>
      [] OTHER -> <<>>

Write200(new) ==
    /\ chunks' = IF left THEN chunks ELSE chunks \o new
    /\ status' = IF new # <<>> /\ ~left /\ status = 0 THEN 200 ELSE status
    /\ UNCHANGED left

(* handleFrame; behind an error event it returns.                           *)
HandleFrame ==
    /\ reader = "work" /\ ~left
    /\ LET f == Head(inbox) IN
         /\ Write200(Emitted(f))
         /\ toolBlocks' = IF IsTool(f) THEN Append(toolBlocks, f.index) ELSE toolBlocks
         /\ finish' = FinishReason(f)
         /\ sentFinal' = (sentFinal \/ f.event = "message_stop")
         /\ reader' = CASE f.event = "error" -> "left"
                        [] f.event # "error" /\ Len(inbox) = 1 -> "reading"
                        [] OTHER -> "work"
    /\ inbox' = Tail(inbox)
    /\ UNCHANGED <<vars, stage>>

(* The client is gone: ctx.Err() or a write that fails.                     *)
Disconnected ==
    /\ reader = "work" /\ left
    /\ reader' = "left"
    /\ UNCHANGED <<vars, stage, inbox, toolBlocks, finish, sentFinal, client>>

(* Mutant: closes only a stream that has begun.                             *)
WriteDoneIfBegun ==
    /\ stage = "closed" /\ reader = "reading" /\ sentFinal
    /\ Write200(<<Done>>)
    /\ reader' = "finished"
    /\ UNCHANGED <<vars, stage, inbox, toolBlocks, finish, sentFinal>>

(* EOF.                                                                     *)
WriteDone ==
    /\ stage = "closed" /\ reader = "reading"
    /\ Write200(<<Done>>)
    /\ reader' = "finished"
    /\ UNCHANGED <<vars, stage, inbox, toolBlocks, finish, sentFinal>>

(* The translator has returned: relayErrorResponseRaw, whose status counts  *)
(* if nothing has been written.                                             *)
RelayError ==
    /\ stage = "closed" /\ reader \in {"finished", "left"}
    /\ stage' = "returned"
    /\ IF BufferedErr /\ ~left
       THEN /\ chunks' = Append(chunks, ErrorBody)
            /\ status' = IF status = 0 THEN 502 ELSE status
       ELSE UNCHANGED <<chunks, status>>
    /\ UNCHANGED <<vars, translator, left>>

LeaveOpenAI ==
    /\ ~left /\ stage # "returned"
    /\ left' = TRUE
    /\ UNCHANGED <<vars, stage, translator, chunks, status>>

-----------------------------------------------------------------------------
Translator == HandleFrame \/ Disconnected \/ WriteDone
Chat == ClosePipe \/ RelayError

OpenAINext == Pipeline \/ Translator \/ Chat \/ LeaveOpenAI

OpenAISpec == OpenAIInit /\ [][OpenAINext]_openAIVars

(* The goroutines go on running where the pipe lets them.                   *)
FairOpenAISpec ==
    OpenAISpec /\ WF_openAIVars(Pipeline) /\ WF_openAIVars(Translator) /\ WF_openAIVars(Chat)

-----------------------------------------------------------------------------
(* Where the first n chunks begin a tool call.                              *)
Heads(n) == {i \in 1 .. n : chunks[i].chunk = "tool"}

ChunkFollows(a, b) ==
    CASE b.chunk \in {"content", "tool", "finish"} -> a.chunk \in {"role", "content", "arguments"}
      [] b.chunk = "arguments" -> a.chunk = "tool" /\ a.index = b.index
      [] b.chunk = "done" -> a.chunk = "finish"
      [] OTHER -> b = ErrorBody /\ a = Done

(* At every moment the client has the beginning of a well-formed stream:    *)
(* the role, then text and tool calls numbered 0, 1, 2 ... whatever blocks  *)
(* lie between them (translate_stream.go:16-20), each named before its      *)
(* arguments; one finish, and [DONE] behind it.  A [DONE] with no finish    *)
(* before it stands first: nothing was streamed.                            *)
ChunksWellFormed ==
    ~torn =>
        /\ chunks # <<>> => chunks[1].chunk \in {"role", "done"}
        /\ \A i \in 1 .. Len(chunks) - 1 : ChunkFollows(chunks[i], chunks[i + 1])
        /\ \A i \in Heads(Len(chunks)) : chunks[i].index = Cardinality(Heads(i - 1))

Reason(answer) == answer[CHOOSE i \in DOMAIN answer : answer[i].event = "message_delta"].what

(* convertAssistantContent, over the blocks of the answer without streaming. *)
ConvertAssistantContent(answer) ==
    LET blocks == {i \in DOMAIN answer : answer[i].event = "content_block_start"}
        tools == {i \in blocks : answer[i].what = "tool_use"}
    IN  [text |-> \E i \in blocks : answer[i].what = "text",
         toolCalls |-> Cardinality(tools),
         finish |-> MapFinishReason(Reason(answer), tools # {})]

(* A stream that ran to its end tells the client what the same answer would *)
(* have told it without streaming: its text, its tool calls and the reason  *)
(* it finished.                                                             *)
StreamAgrees ==
    reader = "finished" /\ ~left /\ Len(chunks) > 1 /\ wire # <<JSON>> =>
        ConvertAssistantContent(wire)
        = [text |-> \E i \in DOMAIN chunks : chunks[i].chunk = "content",
           toolCalls |-> Cardinality(Heads(Len(chunks))),
           finish |-> chunks[CHOOSE i \in DOMAIN chunks : chunks[i].chunk = "finish"].what]

(* A request whose translator reads to the end of the stream returns.       *)
StreamReturns == <>(stage = "returned" \/ reader = "left")

-----------------------------------------------------------------------------
(* What the repository says and the code does not do.                       *)

(* config.go:58: RequestTimeout "is the maximum duration for a single       *)
(* /v1/messages request including streaming": the pipeline comes to an end. *)
PipelineEnds == <>(pc = "done")

=============================================================================
