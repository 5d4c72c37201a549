------------------------- MODULE RequestConversion -------------------------
(***************************************************************************)
(* What a request goes through before the upstream sees it: an OpenAI      *)
(* conversation becomes an Anthropic one (openai/translate_request.go), and *)
(* an Anthropic one the history, the current message and the tools of a    *)
(* Kiro payload (internal/reqconv).                                        *)
(*                                                                         *)
(* A text is a sequence of words, each a pair <<kind, whose>>; joining     *)
(* texts is concatenation, and the empty text is <<>>.                     *)
(***************************************************************************)
EXTENDS Naturals, SequencesExt

CONSTANTS
    ShortNames   \* the short form of each tool name over 64 bytes

Word(kind, whose) == <<kind, whose>>

-----------------------------------------------------------------------------
(* Content blocks and messages.                                             *)

NoID == 0
Block(type, id, name, text, refs) ==
    [type |-> type, id |-> id, name |-> name, text |-> text, refs |-> refs]
TextBlock(text) == Block("text", NoID, "", text, <<>>)
ToolUse(id, name) == Block("tool_use", id, name, <<>>, <<>>)
ToolResult(id, text, refs) == Block("tool_result", id, "", text, refs)
Plain(type) == Block(type, NoID, "", <<>>, <<>>)

Message(role, blocks) == [role |-> role, isString |-> FALSE, blocks |-> blocks]
StringMessage(role, text) == [role |-> role, isString |-> TRUE, blocks |-> <<TextBlock(text)>>]

IsToolUse(b) == b.type \in {"tool_use", "server_tool_use"}
IsToolResult(b) == b.type \in {"tool_result", "tool_search_tool_result"}

(* The elements of a sequence that are in a set.                            *)
Only(s, S) ==
    LET kept[n \in 0 .. Len(s)] ==
            IF n = 0 THEN <<>>
            ELSE IF s[n] \in S THEN Append(kept[n - 1], s[n]) ELSE kept[n - 1]
    IN  kept[Len(s)]
Of(blocks, Is(_)) == Only(blocks, {b \in ToSet(blocks) : Is(b)})
IDs(blocks) == [n \in DOMAIN blocks |-> blocks[n].id]
Concat(F(_), s) == FlattenSeq([n \in DOMAIN s |-> F(s[n])])

-----------------------------------------------------------------------------
(* OpenAI to Anthropic: TranslateRequest.  A chat message has a role, a     *)
(* text, perhaps an image, an assistant's calls and a tool's call id.       *)

ChatMessage(role, text, image, calls, id) ==
    [role |-> role, text |-> text, image |-> image, calls |-> calls, id |-> id]

(* A call of the assistant; its arguments may be no JSON.                   *)
Call(id, name, json) == [id |-> id, name |-> name, json |-> json]

(* parseImageURL accepts data URIs only; contentAsText no image at all.     *)
ValidImage(m) == IF m.role = "user" THEN m.image # "https" ELSE m.image = ""

(* splitSystem: system messages stand at the top.                           *)
SystemFirst(chat) ==
    \A i, j \in DOMAIN chat : i < j /\ chat[j].role = "system" => chat[i].role = "system"

(* What every message is refused for.                                       *)
ValidMessage(m) ==
    /\ m.role \in {"system", "user", "assistant", "tool"}
    /\ ValidImage(m)
    /\ m.role = "assistant" => \A i \in DOMAIN m.calls : m.calls[i].id # NoID /\ m.calls[i].json
    /\ m.role = "tool" => m.id # NoID

Accepted(chat) == chat # <<>> /\ SystemFirst(chat) /\ \A i \in DOMAIN chat : ValidMessage(chat[i])

TranslateUserMessage(m) ==
    IF m.image = "" THEN StringMessage("user", m.text)
    ELSE Message("user", <<TextBlock(m.text), Plain("image")>>)

TranslateAssistantMessage(m) ==
    LET blocks == (IF m.text = <<>> THEN <<>> ELSE <<TextBlock(m.text)>>)
                  \o [n \in DOMAIN m.calls |-> ToolUse(m.calls[n].id, m.calls[n].name)]
    IN  IF blocks = <<>> THEN StringMessage("assistant", <<>>)
        ELSE Message("assistant", blocks)

TranslateToolResult(m) == ToolResult(m.id, m.text, <<>>)

(* Consecutive tool messages are coalesced into one user message.           *)
Coalesced(out, m) ==
    IF out # <<>> /\ Last(out).role = "tool"
    THEN [out EXCEPT ![Len(out)].blocks = Append(@, TranslateToolResult(m))]
    ELSE Append(out, Message("tool", <<TranslateToolResult(m)>>))

Translated(out, m) ==
    CASE m.role = "user" -> Append(out, TranslateUserMessage(m))
      [] m.role = "assistant" -> Append(out, TranslateAssistantMessage(m))
      [] m.role = "tool" -> Coalesced(out, m)

TranslateMessages(chat) ==
    LET out[n \in 0 .. Len(chat)] == IF n = 0 THEN <<>> ELSE Translated(out[n - 1], chat[n])
        all == out[Len(chat)]
    IN  [i \in DOMAIN all |-> [all[i] EXCEPT !.role = IF @ = "tool" THEN "user" ELSE @]]

TranslateRequest(chat) ==
    LET prompts == {m \in ToSet(chat) : m.role = "system"}
    IN  [system   |-> Concat(LAMBDA m : m.text, Only(chat, prompts)),
         messages |-> TranslateMessages(Only(chat, ToSet(chat) \ prompts))]

-----------------------------------------------------------------------------
(* Normalize.                                                               *)

(* extractToolResultContentText: texts, and the references of a search      *)
(* result; an image, a word of that kind, and the references of another     *)
(* tool's result are dropped.                                               *)
References(b) == [n \in DOMAIN b.refs |-> Word("tool_reference", b.refs[n])]
ResultText(b) == Of(b.text, LAMBDA w : w[1] # "image")
                 \o (IF b.type = "tool_search_tool_result" THEN References(b) ELSE <<>>)

Textualized(b) ==
    CASE IsToolUse(b) -> TextBlock(<<Word("Tool", b.id)>>)
      [] IsToolResult(b) -> TextBlock(<<Word("Tool Result", b.id)>> \o ResultText(b))
      [] OTHER -> b

MapBlocks(m, F(_)) ==
    IF m.isString THEN m ELSE [m EXCEPT !.blocks = [n \in DOMAIN @ |-> F(@[n])]]

TextualizeAllToolContent(msgs) == [i \in DOMAIN msgs |-> MapBlocks(msgs[i], Textualized)]

UsesBefore(msgs, i) ==
    IF i > 1 /\ msgs[i - 1].role = "assistant"
    THEN {b.id : b \in ToSet(Of(msgs[i - 1].blocks, IsToolUse))} ELSE {}

(* Mutant: looks for the tool use in all that came before.                  *)
TextualizeUnknownToolResults(msgs) ==
    [i \in DOMAIN msgs |->
        IF msgs[i].role # "user" THEN msgs[i]
        ELSE MapBlocks(msgs[i], LAMBDA b :
                IF IsToolResult(b) /\ b.id \notin UNION {UsesBefore(msgs, j) : j \in 1 .. i}
                THEN Textualized(b) ELSE b)]

TextualizeOrphanToolResults(msgs) ==
    [i \in DOMAIN msgs |->
        IF msgs[i].role # "user" THEN msgs[i]
        ELSE MapBlocks(msgs[i], LAMBDA b :
                IF IsToolResult(b) /\ b.id \notin UsesBefore(msgs, i) THEN Textualized(b) ELSE b)]

NormalizeRoles(msgs) ==
    [i \in DOMAIN msgs |->
        [msgs[i] EXCEPT !.role = IF @ \in {"user", "assistant"} THEN @ ELSE "user"]]

(* ExtractTextContent: the text blocks, and a name for each unknown block.  *)
Textless == {"thinking", "tool_use", "server_tool_use", "tool_result",
             "tool_search_tool_result", "tool_reference", "image"}
ExtractTextContent(m) ==
    Concat(LAMBDA b : CASE b.type = "text" -> b.text
                        [] b.type \in Textless -> <<>>
                        [] OTHER -> <<Word("unknown", b.type)>>, m.blocks)

IsPlainTextContent(m) == \A n \in DOMAIN m.blocks : m.blocks[n].type = "text"

Mergeable(m1, m2) == m1.role = m2.role /\ IsPlainTextContent(m1) /\ IsPlainTextContent(m2)

(* Mutant: of two adjacent messages the later one stays.                    *)
KeepingLater(out, m) ==
    IF out # <<>> /\ Mergeable(Last(out), m) THEN Append(Front(out), m) ELSE Append(out, m)

Merged(out, m) ==
    IF out # <<>> /\ Mergeable(Last(out), m)
    THEN Append(Front(out),
                StringMessage(m.role, ExtractTextContent(Last(out)) \o ExtractTextContent(m)))
    ELSE Append(out, m)

MergeAdjacentSameRole(msgs) ==
    LET out[n \in 0 .. Len(msgs)] == IF n = 0 THEN <<>> ELSE Merged(out[n - 1], msgs[n])
    IN  out[Len(msgs)]

SyntheticEmpty(role) == StringMessage(role, <<Word("synthetic", "(empty)")>>)
SyntheticContinue == <<Word("synthetic", "Continue")>>

EnsureStartsWithUser(msgs) ==
    IF msgs = <<>> \/ msgs[1].role = "user" THEN msgs ELSE <<SyntheticEmpty("user")>> \o msgs

Opposite(role) == IF role = "assistant" THEN "user" ELSE "assistant"

Alternated(out, m) ==
    IF out # <<>> /\ Last(out).role = m.role
    THEN Append(Append(out, SyntheticEmpty(Opposite(m.role))), m) ELSE Append(out, m)

EnsureAlternatingRoles(msgs) ==
    LET out[n \in 0 .. Len(msgs)] == IF n = 0 THEN <<>> ELSE Alternated(out[n - 1], msgs[n])
    IN  out[Len(msgs)]

Normalize(msgs, hasTools) ==
    LET textualized == IF hasTools THEN TextualizeOrphanToolResults(msgs)
                       ELSE TextualizeAllToolContent(msgs)
    IN  EnsureAlternatingRoles(EnsureStartsWithUser(MergeAdjacentSameRole(
            NormalizeRoles(textualized))))

-----------------------------------------------------------------------------
(* BuildPayload.                                                            *)

(* ToolNameMap: Shorten, and Restore for the names it has shortened.        *)
Shorten(name) == IF name \in DOMAIN ShortNames THEN ShortNames[name] ELSE name
Restore(known, short) ==
    IF \E name \in known : Shorten(name) = short
    THEN CHOOSE name \in known : Shorten(name) = short ELSE short

(* Results with the id of a use come in the order of the uses.              *)
ReorderToolResults(results, ids) ==
    LET LastOf(id) == results[CHOOSE n \in DOMAIN results :
            results[n].id = id /\ \A k \in DOMAIN results : results[k].id = id => k <= n]
        answered == Only(ids, ToSet(IDs(results)))
    IN  IF Len(results) <= 1 \/ ids = <<>> THEN results
        ELSE [n \in DOMAIN answered |-> LastOf(answered[n])]
             \o Only(results, {r \in ToSet(results) : r.id \notin ToSet(ids)})

Entry(role, text, results, uses) ==
    [role |-> role, text |-> text, results |-> results, uses |-> uses]

(* scanCurrentMessage; images count for nothing here.                       *)
ScanMessage(m) ==
    LET results == Of(m.blocks, IsToolResult)
    IN  [n \in DOMAIN results |-> [id |-> results[n].id,
            text |-> IF ResultText(results[n]) = <<>> THEN <<Word("synthetic", "(empty result)")>>
                     ELSE ResultText(results[n])]]

(* The results of a message, in its turn or in the history, behind the      *)
(* assistant message before.                                                *)
ResultsOf(m, before) == ReorderToolResults(ScanMessage(m), before)

ConvertTools(tools) == [n \in DOMAIN tools |-> Shorten(tools[n])]

(* extractToolUseIDs of the message before the i-th.                        *)
IDsBefore(msgs, i) == IF i > 1 THEN IDs(Of(msgs[i - 1].blocks, IsToolUse)) ELSE <<>>

UsesOf(m) ==
    LET uses == Of(m.blocks, IsToolUse)
    IN  [n \in DOMAIN uses |-> [id |-> uses[n].id, name |-> Shorten(uses[n].name)]]

BuildHistory(msgs) ==
    [i \in DOMAIN msgs |->
        IF msgs[i].role = "user"
        THEN Entry("user", ExtractTextContent(msgs[i]), ResultsOf(msgs[i], IDsBefore(msgs, i)), <<>>)
        ELSE Entry("assistant", ExtractTextContent(msgs[i]), <<>>, UsesOf(msgs[i]))]

(* The system prompt as a pair of entries of its own.                       *)
PlaceSystemPrompt(system, history) ==
    IF system = <<>> THEN history
    ELSE <<Entry("user", system, <<>>, <<>>),
           Entry("assistant", <<Word("synthetic", "ack")>>, <<>>, <<>>)>> \o history

(* buildCurrentMessage: a turn of tool results only keeps an empty text.    *)
BuildCurrentMessage(last, before, thinking) ==
    LET results == ResultsOf(last, before)
        own == ExtractTextContent(last)
        text == IF own = <<>> /\ results = <<>> THEN SyntheticContinue ELSE own
        mode == IF thinking /\ text # <<>> THEN <<Word("synthetic", "thinking_mode")>> ELSE <<>>
    IN  Entry("user", mode \o text, results, <<>>)

(* The payload of a request: its conversation, the names of its tools, and  *)
(* the names the response path can restore.                                 *)
BuildPayload(system, messages, tools, extra, thinking) ==
    LET msgs == Normalize(messages, tools # <<>> \/ extra # <<>>)
        prefilled == msgs # <<>> /\ Last(msgs).role = "assistant"
        past == IF prefilled THEN msgs ELSE Front(msgs)
        last == IF prefilled THEN StringMessage("user", SyntheticContinue) ELSE Last(msgs)
    IN  [history |-> PlaceSystemPrompt(system, BuildHistory(past)),
         current |-> BuildCurrentMessage(last, IDsBefore(Append(past, last), Len(past) + 1), thinking),
         tools   |-> ConvertTools(tools) \o extra]

(* Mutant: knows the tools of the history only.                             *)
NameMapOfHistory(messages, tools) ==
    {b.name : b \in UNION {ToSet(messages[i].blocks) : i \in DOMAIN messages}}

(* ReverseMap: what was shortened on the way.                               *)
NameMap(messages, tools) ==
    ToSet(tools) \cup {b.name : b \in UNION {ToSet(messages[i].blocks) : i \in DOMAIN messages}}

=============================================================================
