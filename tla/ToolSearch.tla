----------------------------- MODULE ToolSearch -----------------------------
(***************************************************************************)
(* A client's conversation with the proxy, request by request.             *)
(*                                                                         *)
(* On the Anthropic route with a tool search tool among its tools, a       *)
(* request runs the rounds of the toolSearchOrchestrator                   *)
(* (messages/toolsearch.go): the upstream is offered the active tools and  *)
(* ToolSearch; when it calls ToolSearch, the tools found join the active   *)
(* ones, the search is appended to the conversation, and the next round    *)
(* asks again.  What the client is shown comes back in its next request.   *)
(* On the OpenAI route the conversation goes through TranslateRequest.     *)
(*                                                                         *)
(* Ids and texts are numbered as they are made.                            *)
(***************************************************************************)
EXTENDS RequestConversion, FiniteSets

CONSTANTS
    ActiveTools,     \* the names of the tools of a request, in order
    DeferredTools,   \* and of those with defer_loading
    Queries,         \* what the model searches for
    Outputs,         \* the tool results of a client's message
    MaxChat,         \* bound: messages on the OpenAI route
    MaxMessages,     \* bound: messages after which no more are written, and
    MaxRequests,     \*   requests, on the Anthropic route
    MaxBlocks        \* bound: the model's blocks and searches, and results, in all

MaxToolSearchRounds == 3
DefaultMaxResults == 5
KiroToolSearchName == "ToolSearch"
SearchToolName == "tool_search_tool"     \* the client's name for it
SystemPrompt == <<Word("system", "prompt")>>

VARIABLES
    options,    \* the route, and what the client asks for
    chat,       \* the OpenAI conversation
    messages,   \* the Anthropic one
    stage,      \* "composing", "calling" the upstream, or "answered"
    working,    \* msgs of the orchestrator
    tools,      \* toolsearch.Context: the active and the deferred tools
    round, run, \* the round, and the run of the orchestrator (two at most)
    shown,      \* the blocks of the answer
    promoted,   \* the gate of this run
    delivered,  \* bytes have reached the client
    answer,     \* how the request was answered, "" before
    made, requests, spoken

request == <<working, tools, round, run, shown, promoted, delivered, answer>>
vars == <<options, chat, messages, stage, request, made, requests, spoken>>

(* A request's tools have different names, none the proxy's own, and so     *)
(* have their short forms, which end in 13 digits of a hash.                *)
OwnTools == ToSet(ActiveTools) \cup DeferredTools
ASSUME ToolsAssumption ==
    /\ ActiveTools \in Seq(ToSet(ActiveTools)) /\ IsInjective(ActiveTools)
    /\ ToSet(ActiveTools) \cap DeferredTools = {}
    /\ KiroToolSearchName \notin OwnTools \cup DOMAIN ShortNames
    /\ \A n1, n2 \in OwnTools \cup {"", SearchToolName, KiroToolSearchName} :
          Shorten(n1) = Shorten(n2) => n1 = n2

ASSUME QueriesAssumption ==
    \A q \in Queries : q.names \in Seq(ToSet(q.names)) /\ q.maxResults \in Nat

(* How many, a text or an image in each, and references to the request's    *)
(* tools; a text of the user's own may follow.                              *)
ASSUME OutputsAssumption ==
    \A out \in Outputs : /\ out.count \in Nat /\ out.what \in {"out", "image"}
                         /\ out.refs \in Seq(OwnTools) /\ out.text \in BOOLEAN

Said(n) == <<Word("said", n)>>

Init ==
    /\ options \in [openAI : BOOLEAN, stream : BOOLEAN, noTools : BOOLEAN]
    /\ options.openAI \/ ~options.noTools
    /\ options.openAI => ~options.stream
    /\ chat = <<>> /\ messages = <<>>
    /\ stage = "composing"
    /\ working = <<>> /\ tools = [active |-> <<>>, deferred |-> {}]
    /\ round = 0 /\ run = 0 /\ shown = <<>>
    /\ promoted = FALSE /\ delivered = FALSE /\ answer = ""
    /\ made = 1 /\ requests = 0 /\ spoken = 0

-----------------------------------------------------------------------------
(* The client's messages.                                                   *)

(* On the OpenAI route; a call has one result at most, but a result may     *)
(* have no call.                                                            *)
ComposeChat ==
    /\ options.openAI
    /\ Len(chat) < MaxChat
    /\ \E role \in {"system", "user", "assistant", "tool"}, n \in 0 .. 2, id \in 0 .. made - 1,
          image \in {"", "data"} :
        /\ n > 0 => role = "assistant" /\ ActiveTools # <<>>
        /\ id > 0 => role = "tool" /\ \A k \in DOMAIN chat : chat[k].id # id
        /\ image # "" => role \in {"user", "tool"}
        /\ chat' = Append(chat, ChatMessage(role,
                     IF role = "tool" THEN <<Word("out", made)>> ELSE Said(made + n), image,
                     [k \in 1 .. n |-> Call(made + k - 1, ActiveTools[1], TRUE)], id))
        /\ made' = made + n + 1
    /\ UNCHANGED <<options, messages, stage, request, requests, spoken>>

UseIDs == UNION {{b.id : b \in ToSet(Of(messages[i].blocks, LAMBDA b : b.type = "tool_use"))} :
                    i \in DOMAIN messages}

(* On the Anthropic route: text in any role, or the results of tools in a   *)
(* user's or a developer's message; two may be of one use, and some of none. *)
ComposeMessage ==
    /\ ~options.openAI
    /\ stage = "composing"
    /\ Len(messages) < MaxMessages
    /\ \/ \E role \in {"user", "assistant", "developer"} :
             messages' = Append(messages, StringMessage(role, Said(made))) /\ UNCHANGED spoken
       \/ \E role \in {"user", "developer"}, out \in Outputs :
             /\ spoken' = spoken + out.count /\ spoken' <= MaxBlocks
             /\ \E ids \in [1 .. out.count -> UseIDs \cup {NoID}] :
                messages' = Append(messages, Message(role,
                   [n \in 1 .. out.count |-> ToolResult(ids[n], <<Word(out.what, <<made, n>>)>>, out.refs)]
                   \o (IF out.text THEN <<TextBlock(Said(made))>> ELSE <<>>)))
    /\ made' = made + 1
    /\ UNCHANGED <<options, chat, stage, request, requests>>

-----------------------------------------------------------------------------
(* The tools of a request.                                                  *)

Promote(ctx, name) ==
    IF name \in ctx.deferred
    THEN [active |-> Append(ctx.active, name), deferred |-> ctx.deferred \ {name}]
    ELSE ctx

PromoteTools(ctx, names) ==
    LET after[n \in 0 .. Len(names)] == IF n = 0 THEN ctx ELSE Promote(after[n - 1], names[n])
    IN  after[Len(names)]

NewContext == [active |-> ActiveTools, deferred |-> DeferredTools]

ExtractToolReferences(msgs) == Concat(LAMBDA m : Concat(LAMBDA b : b.refs, m.blocks), msgs)

(* toolsearch.Search: "select:" takes the names given, other queries rank   *)
(* the tools that match them, up to maxResults; 0 stands for none given.    *)
Search(query, deferred) ==
    LET found == Only(query.names, deferred)
        limit == IF query.maxResults = 0 THEN DefaultMaxResults ELSE query.maxResults
    IN  IF query.select \/ Len(found) <= limit THEN found ELSE SubSeq(found, 1, limit)

-----------------------------------------------------------------------------
(* A request: HandleMessages and runToolSearch.                             *)

Payload == BuildPayload(SystemPrompt, working, tools.active, <<KiroToolSearchName>>, TRUE)

Send ==
    /\ ~options.openAI
    /\ stage = "composing"
    /\ requests < MaxRequests
    /\ messages # <<>>
    /\ requests' = requests + 1
    /\ stage' = "calling"
    /\ working' = messages
    /\ tools' = PromoteTools(NewContext, ExtractToolReferences(messages))
    /\ round' = 1 /\ run' = 1
    /\ shown' = <<>> /\ promoted' = FALSE /\ delivered' = FALSE /\ answer' = ""
    /\ UNCHANGED <<options, chat, messages, made, spoken>>

(* The request is over; "s" is what its blocks are, "p" says whether the    *)
(* gate has been promoted.                                                  *)
Over(how, s, p) ==
    /\ stage' = "answered"
    /\ answer' = how
    /\ shown' = s
    /\ promoted' = p
    /\ delivered' = (delivered \/ p)
    /\ UNCHANGED <<working, tools, round, run>>

(* Mutant: JSON whatever has been sent.                                     *)
ErrorAsJSON(s, p) == Over("json", s, p)

(* writeStreamingOrJSONError *)
StreamingOrJSONError(s, p) == Over(IF p THEN "error" ELSE "json", s, p)

(* Finish, into the gate; without streaming, the JSON of the whole.         *)
Finish(s, p) == Over(IF options.stream /\ ~p THEN "lost" ELSE "complete", s, p)

(* GenerateAssistantResponse fails: no other account is tried.              *)
CallFails ==
    /\ stage = "calling"
    /\ StreamingOrJSONError(shown, promoted)
    /\ UNCHANGED <<options, chat, messages, made, requests, spoken>>

(* The blocks of a reply in front of what ends it; tools are called by the  *)
(* names offered, and shown by their own.  Its tail may be held back.       *)
Contents ==
    {<<>>, <<Plain("thinking")>>, <<TextBlock(Said(made))>>}
        \cup {<<ToolUse(made, Restore(NameMap(working, tools.active), ConvertTools(tools.active)[n]))>> :
                n \in DOMAIN tools.active}

Spoken(content) == spoken' = spoken + Len(content) /\ spoken' <= MaxBlocks
Tail1 == <<TextBlock(Said(made + 1))>>
IsVisible(blocks) == options.stream /\ \E n \in DOMAIN blocks : blocks[n].type \in {"text", "tool_use"}

(* IsEmptyVisibleEndTurn, of the round, behind a gate still closed.         *)
EmptyVisibleEndTurn(blocks, p) == blocks = <<Plain("thinking")>> /\ ~p

(* The second run keeps the tools found by the first.                       *)
RetryEmpty(s) ==
    IF run = 1
    THEN /\ run' = 2 /\ round' = 1
         /\ working' = messages
         /\ shown' = <<>>
         /\ UNCHANGED <<stage, tools, promoted, delivered, answer>>
    ELSE Over("json", <<>>, promoted)

(* The upstream's reply ends without a search.                              *)
Replied ==
    /\ stage = "calling"
    /\ \E content \in Contents, tail \in {<<>>, Tail1} :
         LET all == content \o tail
             p == promoted \/ IsVisible(content)
         IN  /\ Spoken(all)
             /\ \/ IF EmptyVisibleEndTurn(all, p) THEN RetryEmpty(shown)
                   ELSE Finish(shown \o all, p \/ IsVisible(tail))
                \/ \* a local stop, which finishes by itself
                   Finish(shown \o all, p \/ IsVisible(tail))
    /\ made' = made + 2
    /\ UNCHANGED <<options, chat, messages, requests>>

(* Or breaks off, or with an error event: then a stream that the client has *)
(* begun to see just ends behind it.                                        *)
Broken ==
    /\ stage = "calling"
    /\ \E content \in Contents :
         LET s == shown \o content
             p == promoted \/ IsVisible(content)
         IN  /\ Spoken(content)
             /\ StreamingOrJSONError(s, p) \/ (p /\ Over("open", s, p))
    /\ made' = made + 1
    /\ UNCHANGED <<options, chat, messages, requests>>

-----------------------------------------------------------------------------
(* It calls ToolSearch.                                                     *)

ServerToolUse(id) == Block("server_tool_use", id, SearchToolName, <<>>, <<>>)
SearchResult(id, found) == Block("tool_search_tool_result", id, "", <<>>, found)

(* Mutant: the names are not shortened.                                     *)
FoundInFull(found) == [n \in DOMAIN found |-> Word("found", found[n])]

(* What the model is told; a search error finds nothing.                    *)
Found(found) == [n \in DOMAIN found |-> Word("found", Shorten(found[n]))]

AppendSearchMessages(id, found) ==
    working \o <<Message("assistant", <<Block("server_tool_use", id, KiroToolSearchName, <<>>, <<>>)>>),
                 Message("user", <<ToolResult(id, <<Word("result", id)>> \o Found(found), <<>>)>>)>>

(* The stream is left where the search is called for, and a tail held back  *)
(* is lost with the accumulator, but for the last round's, which Finish     *)
(* writes.  Without streaming all of the reply is read.                     *)
SearchedFor(content, tail, after, query) ==
    LET found == IF query.valid THEN Search(query, tools.deferred) ELSE <<>>
        search == <<ServerToolUse(made + 2), SearchResult(made + 2, found)>>
        s == shown \o content \o (IF options.stream THEN <<>> ELSE tail \o after) \o search
    IN  IF round = MaxToolSearchRounds
        THEN Finish(IF options.stream THEN s \o tail ELSE s, options.stream)
        ELSE /\ round' = round + 1
             /\ working' = AppendSearchMessages(made + 2, found)
             /\ tools' = PromoteTools(tools, found)
             /\ shown' = s
             /\ promoted' = options.stream
             /\ delivered' = options.stream
             /\ UNCHANGED <<stage, run, answer>>

Searched ==
    /\ stage = "calling"
    /\ \E content \in Contents, tail, after \in {<<>>, Tail1}, query \in Queries :
         /\ tail = <<>> \/ after = <<>>
         /\ Spoken(content \o tail \o after \o <<query>>)
         /\ SearchedFor(content, tail, after, query)
    /\ made' = made + 3
    /\ UNCHANGED <<options, chat, messages, requests>>

(* Its input is no JSON.                                                    *)
SearchedBadly ==
    /\ stage = "calling"
    /\ \E content \in Contents :
         /\ Spoken(content)
         /\ StreamingOrJSONError(shown \o content, promoted \/ IsVisible(content))
    /\ made' = made + 1
    /\ UNCHANGED <<options, chat, messages, requests>>

-----------------------------------------------------------------------------
(* The client takes a complete answer into its conversation.                *)
Read ==
    /\ stage = "answered"
    /\ stage' = "composing"
    /\ messages' = IF answer = "complete" /\ shown # <<>>
                   THEN Append(messages, Message("assistant", shown)) ELSE messages
    /\ working' = <<>> /\ tools' = [active |-> <<>>, deferred |-> {}]
    /\ round' = 0 /\ run' = 0 /\ shown' = <<>>
    /\ promoted' = FALSE /\ delivered' = FALSE /\ answer' = ""
    /\ UNCHANGED <<options, chat, made, requests, spoken>>

Next == ComposeChat \/ ComposeMessage \/ Send \/ CallFails \/ Replied \/ Broken
          \/ Searched \/ SearchedBadly \/ Read

Spec == Init /\ [][Next]_vars

-----------------------------------------------------------------------------
(* The payload the upstream is sent, on either route.                       *)

ChatTools == IF options.noTools THEN <<>> ELSE ActiveTools
ChatRequest == TranslateRequest(chat)

Sending == stage = "calling" \/ (Accepted(chat) /\ ChatRequest.messages # <<>>)
SentMessages == IF options.openAI THEN ChatRequest.messages ELSE working
Sent == IF options.openAI
        THEN BuildPayload(ChatRequest.system, SentMessages, ChatTools, <<>>, FALSE)
        ELSE Payload
Turns == Append(Sent.history, Sent.current)

(* Whatever conversation a client sends, and in every round, the payload's  *)
(* turns alternate from the user's to the user's, and each tool result      *)
(* stands right behind the turn whose tool use it answers, in the order of  *)
(* the uses (Normalize, ReorderToolResults, translateMessages).  Except for *)
(* the results a client puts in a developer's message: the search for       *)
(* orphans skips it (message_normalizer.go:78) before normalizeRoles makes  *)
(* it a user's, and they may answer nothing.                                *)
TurnsOK(turns, unchecked) ==
    \A i \in DOMAIN turns :
        /\ turns[i].role = IF i % 2 = 1 THEN "user" ELSE "assistant"
        /\ \A n \in DOMAIN turns[i].results :
              turns[i].results[n].id \notin unchecked =>
                \E u \in DOMAIN turns[i - 1].uses :
                  /\ turns[i - 1].uses[u].id = turns[i].results[n].id
                  /\ n > 1 => \E v \in 1 .. u - 1 :
                        turns[i - 1].uses[v].id = turns[i].results[n - 1].id
DeveloperResults ==
    UNION {{b.id : b \in {b \in ToSet(m.blocks) : IsToolResult(b)}} :
              m \in {m \in ToSet(SentMessages) : m.role = "developer"}}
PayloadWellFormed == Sending => TurnsOK(Turns, DeveloperResults) /\ Len(Turns) % 2 = 1

(* Nothing that was said, by whomever, and no text of a tool's result is    *)
(* lost or doubled on the way, and what was said stays in its order (all of *)
(* reqconv).  Except that of several results of one use in a message the    *)
(* last alone is kept (tool_results.go:74-77).  Thinking, images in the     *)
(* history and in results, references in results, and the search results a  *)
(* client sends back do not count: they are dropped.                        *)
Words(turns) == Concat(LAMBDA e : e.text \o Concat(LAMBDA r : r.text, e.results), turns)
Given == IF options.openAI THEN Concat(LAMBDA m : m.text, chat)
         ELSE Concat(LAMBDA m : Concat(LAMBDA b : b.text, m.blocks), working)
IsSaid(w) == w[1] = "said"
Counts(w) == w[1] \in {"said", "out", "result"}
Overwritten ==
    LET Again(m, n) == /\ IsToolResult(m.blocks[n])
                       /\ \E k \in DOMAIN m.blocks : /\ k > n /\ IsToolResult(m.blocks[k])
                                                     /\ m.blocks[k].id = m.blocks[n].id
    IN  UNION {UNION {ToSet(m.blocks[n].text) : n \in {n \in DOMAIN m.blocks : Again(m, n)}} :
                  m \in ToSet(SentMessages)}
NothingLost ==
    Sending =>
        LET given == SelectSeq(Given, Counts)
            taken == SelectSeq(Words(Turns), Counts)
        IN  /\ IsInjective(taken) /\ ToSet(taken) \subseteq ToSet(given)
            /\ ToSet(given) \ ToSet(taken) \subseteq Overwritten
            /\ SelectSeq(taken, IsSaid) = SelectSeq(given, IsSaid)

(* The tools the model has been told it found, in this request's rounds or  *)
(* in an earlier request the client has brought back, are offered to it,    *)
(* under the very names it was told, and each tool once.                    *)
FoundToolsOffered ==
    stage = "calling" =>
        /\ \A w \in ToSet(Words(Turns)) : w[1] = "found" => w[2] \in ToSet(Sent.tools)
        /\ \A name \in ToSet(ExtractToolReferences(messages)) : Shorten(name) \in ToSet(Sent.tools)
        /\ IsInjective(Sent.tools)

(* The client is only ever shown calls of tools by the names it gave them,  *)
(* through every shortening on the way to the upstream and back.            *)
OwnNames ==
    \A n \in DOMAIN shown :
        shown[n].type = "tool_use" => shown[n].name \in OwnTools

(* A second run, and an error answered as JSON, come only while the client  *)
(* has received nothing.                                                    *)
AnsweredOnce ==
    [][(run' = 2 /\ run = 1) \/ (answer' = "json" /\ answer # "json") => ~delivered']_vars

=============================================================================
