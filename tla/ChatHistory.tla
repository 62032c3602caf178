---------------------------- MODULE ChatHistory ----------------------------
(***************************************************************************)
(* A conversation as ds4_server.c sees it: the client sends its whole      *)
(* history with every request, the server parses it, renders it to one     *)
(* text and continues the live session if that text begins with what the   *)
(* session holds.  For this a finished turn is rewritten to what the next  *)
(* request will render.                                                    *)
(*                                                                         *)
(* A text is a sequence of pieces <<kind, n>>; n tells the turns apart.    *)
(* Bodies and messages are sequences of <<key, value>> in the order in     *)
(* which the client wrote them.  What the model samples is "reason",       *)
(* "</think>", "say", "space" and a tool block behind an optional "para",  *)
(* well formed ("block") or not ("broken").  One block has one id.         *)
(***************************************************************************)
EXTENDS Integers, SequencesExt

CONSTANTS
    Clients,        \* [api, body, large, earlier, keeps, roleFirst, parts]
    Replies,        \* sequences of kinds the model may sample
    ReplayOff,      \* --disable-exact-dsml-tool-replay
    MaxTurns        \* bound on the requests; the last is not answered

VARIABLES
    client,         \* the settings of this client
    history,        \* its messages
    stage,          \* "client", "arrived" or "refused"
    live,           \* text of the live session, <<>> when there is none
    memory,         \* tool-call id -> the block sampled for it
    job,            \* the parsed request
    ended,          \* history: the last turn, and the request before this one
    turns

cvars == <<client, history, stage, live, memory, job, ended, turns>>

Mark(kind) == <<kind, 0>>
Piece(kind, n) == <<kind, IF kind \in {"<think>", "</think>", "para", "space"} THEN 0 ELSE n>>
IsKind(p, kinds) == p[1] \in kinds

-----------------------------------------------------------------------------
(* The request body: the last value of a key counts, others are skipped. *)
NoSettings == [model |-> "flash", thinking |-> TRUE, asked |-> FALSE, effort |-> "high",
               tools |-> FALSE, none |-> FALSE, bad |-> FALSE]

ThinkingOf(value, now) == IF value = "null" THEN now ELSE value = "on"
EffortOf(value, now) ==
    CASE value = "null" -> now [] value = "max" -> "max" [] OTHER -> "high"
ReadSetting(s, pair) ==
    LET key == pair[1]
        value == pair[2]
    IN  CASE key = "model" -> [s EXCEPT !.model = value]
          [] key = "thinking" -> [s EXCEPT !.asked = TRUE, !.thinking = ThinkingOf(value, @)]
          [] key = "effort" -> [s EXCEPT !.bad = @ \/ value = "odd", !.effort = EffortOf(value, @)]
          [] key = "tools" -> [s EXCEPT !.tools = value = "some"]
          [] key = "tool_choice" -> [s EXCEPT !.none = value = "none"]
          [] OTHER -> s
ReadBody(body) == FoldLeft(ReadSetting, NoSettings, body)

(* An alias decides only when the request does not; Think Max needs a large
   context.                                                                *)
ThinkMode(s, largeContext) ==
    LET enabled == IF s.asked \/ s.model \notin {"deepseek-chat", "deepseek-reasoner"} THEN s.thinking
                   ELSE s.model = "deepseek-reasoner"
    IN  IF ~enabled THEN "none"
        ELSE IF s.effort = "max" /\ largeContext THEN "max" ELSE "high"

-----------------------------------------------------------------------------
(* Messages.  A content is [form, texts]. *)
String(text) == [form |-> "string", texts |-> <<text>>]
ContentText(c) == IF c.form \in {"string", "parts"} THEN FlattenSeq(c.texts) ELSE <<>>

NoMessage == [role |-> "", content |-> <<>>, reasoning |-> <<>>, calls |-> <<>>]
WithRole(m) == IF m.role = "" THEN [m EXCEPT !.role = "user"] ELSE m

ReadField(m, pair) ==
    CASE pair[1] = "role" -> [m EXCEPT !.role = pair[2]]
      [] pair[1] = "content" -> [m EXCEPT !.content = ContentText(pair[2])]
      [] pair[1] = "reasoning_content" -> [m EXCEPT !.reasoning = ContentText(pair[2])]
      [] pair[1] = "tool_calls" -> [m EXCEPT !.calls = pair[2]]
      [] OTHER -> m
ReadMessage(wire) == WithRole(FoldLeft(ReadField, NoMessage, wire))

(* Anthropic blocks are read with the role known so far. *)
ToolResult(text) == <<Mark("<tool_result>")>> \o text \o <<Mark("</tool_result>")>>
ReadBlock(m, block) ==
    CASE block.type = "tool_use" ->
             IF m.role = "assistant" THEN [m EXCEPT !.calls = Append(@, block.id)] ELSE m
      [] block.type = "tool_result" -> [m EXCEPT !.content = @ \o ToolResult(ContentText(block.value))]
      [] block.type = "text" -> [m EXCEPT !.content = @ \o ContentText(block.value)]
      [] block.type = "thinking" -> [m EXCEPT !.reasoning = @ \o ContentText(block.value)]
      [] OTHER -> m
ReadAnthropicField(m, pair) ==
    CASE pair[1] = "role" -> [m EXCEPT !.role = pair[2]]
      [] pair[1] = "content" -> FoldLeft(ReadBlock, [m EXCEPT !.content = <<>>], pair[2])
      [] OTHER -> m
ReadAnthropicMessage(wire) == WithRole(FoldLeft(ReadAnthropicField, NoMessage, wire))

(* Parts for the provider alone, which change with every request, are left
   out of the system text.                                                 *)
IsPrivate(text) == text # <<>> /\ IsKind(text[1], {"private"})
AddSystemPart(text, part) ==
    IF part = <<>> \/ IsPrivate(part) THEN text
    ELSE IF text = <<>> THEN part ELSE text \o <<Mark("line")>> \o part
ReadSystem(parts) == FoldLeft(AddSystemPart, <<>>, parts)

-----------------------------------------------------------------------------
(* Rendering.  A remembered block is used as it was sampled, another one is
   written from the JSON of the call.                                      *)
RawBlock(m, known) == IF m.calls[1] \in DOMAIN known THEN known[m.calls[1]] ELSE <<>>
BlockText(m, known) ==
    CASE m.calls = <<>> -> <<>>
      [] m.calls # <<>> /\ RawBlock(m, known) # <<>> -> RawBlock(m, known)
      [] OTHER -> <<Mark("para"), Piece("json", m.calls[1])>>

\* mutant: only the tools of this request count
ToolsOfRequest(messages, hasTools) == hasTools
UsesToolContext(messages, hasTools) ==
    \/ hasTools
    \/ \E m \in ToSet(messages) : m.role \in {"tool", "function"} \/ (m.role = "assistant" /\ m.calls # <<>>)

IsSystem(m) == m.role \in {"system", "developer"}
SystemText(messages, hasTools) ==
    LET own == SelectSeq(messages, IsSystem)
        schemas == IF hasTools THEN <<<<Mark("schemas")>>>> ELSE <<>>
        texts == [i \in DOMAIN own |-> own[i].content] \o schemas
    IN  FoldLeft(LAMBDA all, t : IF all = <<>> THEN t ELSE all \o <<Mark("para")>> \o t, <<>>, texts)

(* One message after the text so far; "pending" says that a user-like
   message waits for its answer, "results" that it was a tool's.           *)
RenderAssistant(out, m, think, showReasoning, known) ==
    [ text |-> out.text
        \o (IF ~out.pending THEN <<>>
            ELSE IF think /\ showReasoning
            THEN <<Mark("<Assistant>"), Mark("<think>")>> \o m.reasoning \o <<Mark("</think>")>>
            ELSE <<Mark("<Assistant>"), Mark("</think>")>>)
        \o m.content \o BlockText(m, known) \o <<Mark("eos")>>,
      pending |-> FALSE, results |-> FALSE ]

RenderMessage(out, m, think, showReasoning, known) ==
    CASE m.role = "user" ->
             [text |-> out.text \o <<Mark("<User>")>> \o m.content, pending |-> TRUE, results |-> FALSE]
      [] m.role \in {"tool", "function"} ->
             [text |-> out.text \o (IF out.results THEN <<>> ELSE <<Mark("<User>")>>) \o ToolResult(m.content),
              pending |-> TRUE, results |-> TRUE]
      [] m.role = "assistant" -> RenderAssistant(out, m, think, showReasoning, known)
      [] OTHER -> out

\* The last user-like message, 0 if there is none.
LastUser(messages) ==
    Max({0} \cup {i \in DOMAIN messages : messages[i].role \in {"user", "tool", "function"}})

RenderChat(messages, hasTools, mode, known) ==
    LET think == mode # "none"
        tools == UsesToolContext(messages, hasTools)
        head == <<Mark("bos")>> \o (IF mode = "max" THEN <<Mark("max")>> ELSE <<>>)
                    \o SystemText(messages, hasTools)
        body == FoldLeft(LAMBDA out, i :
                             RenderMessage(out, messages[i], think, tools \/ i > LastUser(messages), known),
                         [text |-> head, pending |-> FALSE, results |-> FALSE],
                         [i \in DOMAIN messages |-> i])
    IN  IF body.pending
        THEN body.text \o <<Mark("<Assistant>"), IF think THEN Mark("<think>") ELSE Mark("</think>")>>
        ELSE body.text

-----------------------------------------------------------------------------
(* What the client holds: user texts and tool results it sends, answers it
   received, in the shape of its API.                                      *)
Content(text) ==
    CASE text = <<>> -> [form |-> "null", texts |-> <<>>]
      [] text # <<>> /\ client.parts -> [form |-> "parts", texts |-> [i \in DOMAIN text |-> <<text[i]>>]]
      [] OTHER -> String(text)
Ordered(role, fields) == IF client.roleFirst THEN <<role>> \o fields ELSE fields \o <<role>>
Optional(present, field) == IF present THEN <<field>> ELSE <<>>
BlockOf(type, text) == [type |-> type, id |-> 0, value |-> String(text)]

UserMessage(text) ==
    Ordered(<<"role", "user">>,
        <<<<"content", IF client.api = "openai" THEN Content(text) ELSE <<BlockOf("text", text)>> >> >>)

ResultMessage(id) ==
    IF client.api = "openai"
    THEN Ordered(<<"role", "tool">>, <<<<"tool_call_id", id>>, <<"content", Content(<<Piece("result", id)>>)>> >>)
    ELSE Ordered(<<"role", "user">>, <<<<"content", <<BlockOf("tool_result", <<Piece("result", id)>>)>> >> >>)

\* The blocks and the fields an answer goes out with; not every client keeps thoughts.
KeptThoughts(reasoning) == IF client.keeps THEN reasoning ELSE <<>>
AnswerBlocks(content, reasoning, calls) ==
    Optional(reasoning # <<>>, BlockOf("thinking", reasoning))
    \o Optional(content # <<>>, BlockOf("text", content))
    \o [i \in DOMAIN calls |-> [BlockOf("tool_use", <<>>) EXCEPT !.id = calls[i]]]
AnswerFields(content, reasoning, calls) ==
    <<<<"content", Content(content)>>>>
    \o Optional(reasoning # <<>>, <<"reasoning_content", String(reasoning)>>)
    \o Optional(calls # <<>>, <<"tool_calls", calls>>)
AssistantMessage(content, reasoning, calls) ==
    Ordered(<<"role", "assistant">>,
            IF client.api = "openai" THEN AnswerFields(content, KeptThoughts(reasoning), calls)
            ELSE <<<<"content", AnswerBlocks(content, KeptThoughts(reasoning), calls)>> >>)

SystemParts(n) == << <<Piece("private", n)>>, <<Mark("system")>>, <<Mark("more")>> >>
ReadHistory(wires, n) ==
    IF client.api = "openai"
    THEN [i \in DOMAIN wires |-> ReadMessage(wires[i])]
    ELSE Append([i \in DOMAIN wires |-> ReadAnthropicMessage(wires[i])],
                [NoMessage EXCEPT !.role = "system", !.content = ReadSystem(SystemParts(n))])
-----------------------------------------------------------------------------
(* A turn: parsing what was sampled. *)
PlacesOf(text, kinds) == {i \in DOMAIN text : IsKind(text[i], kinds)}

(* Tools in the request end the decode loop at the end of a block. *)
Sampled(kinds, hasTools, n) ==
    LET text == [i \in DOMAIN kinds |-> Piece(kinds[i], n)]
        blocks == PlacesOf(text, {"block", "broken"})
    IN  IF hasTools /\ blocks # {} THEN SubSeq(text, 1, Min(blocks)) ELSE text

CutSpace(text) == SubSeq(text, 1, Max({0} \cup {i \in DOMAIN text : ~IsKind(text[i], {"space", "para"})}))

SplitReasoning(text) ==
    LET ends == PlacesOf(text, {"</think>"})
    IN  IF ends = {} THEN [content |-> text, reasoning |-> <<>>, block |-> <<>>]
        ELSE [content |-> SubSeq(text, Min(ends) + 1, Len(text)),
              reasoning |-> SubSeq(text, 1, Min(ends) - 1), block |-> <<>>]

ParseSampled(text) ==
    LET blocks == PlacesOf(text, {"block", "broken"})
        at == Min(blocks)
        start == IF at > 1 /\ IsKind(text[at - 1], {"para"}) THEN at - 1 ELSE at
    IN  CASE blocks = {} -> SplitReasoning(text)
          [] blocks # {} /\ IsKind(text[at], {"broken"}) ->
                 [content |-> text, reasoning |-> <<>>, block |-> <<>>]
          [] OTHER -> [SplitReasoning(CutSpace(SubSeq(text, 1, start - 1)))
                           EXCEPT !.block = SubSeq(text, start, at)]

(* thinking_state: the last tag of prompt and answer. *)
InsideThought(text) ==
    LET tags == PlacesOf(text, {"<think>", "</think>"})
    IN  tags # {} /\ IsKind(text[Max(tags)], {"<think>"})

(* What the session holds after the turn.  A stop sequence invalidated it. *)
\* mutant: the reasoning is left out
ToolCheckpointBare(parsed) ==
    job.prompt \o (IF job.think THEN <<Mark("</think>")>> ELSE <<>>)
        \o parsed.content \o parsed.block \o <<Mark("eos")>>
ToolCheckpoint(parsed) ==
    job.prompt \o (IF job.think THEN parsed.reasoning \o <<Mark("</think>")>> ELSE <<>>)
        \o parsed.content \o parsed.block \o <<Mark("eos")>>
ThoughtlessCheckpoint(parsed) ==
    Front(job.prompt) \o <<Mark("</think>")>> \o parsed.content \o <<Mark("eos")>>

DropsThought(text, finish) ==
    /\ ~job.hasTools /\ ~job.preserves /\ job.think
    /\ finish # "length" /\ ~InsideThought(job.prompt \o text)

LiveAfter(text, parsed, how) ==
    IF how = "stop" THEN <<>>
    ELSE IF parsed.block # <<>> THEN ToolCheckpoint(parsed)
    ELSE IF DropsThought(text, how) THEN ThoughtlessCheckpoint(parsed)
    ELSE job.prompt \o text

-----------------------------------------------------------------------------
NoJob == [prompt |-> <<>>, hasTools |-> FALSE, preserves |-> FALSE, think |-> FALSE]
NoTurn == [job |-> NoJob, text |-> <<>>, parsed |-> ParseSampled(<<>>), how |-> "end", known |-> {}]

Spoken(n) == <<Piece("say", n)>>
Before ==
    LET start == IF client.api = "openai"
                 THEN << << <<"role", "system">>, <<"content", String(<<Mark("system")>>)>> >> >> ELSE <<>>
        question == <<UserMessage(<<Piece("ask", -1)>>)>>
    IN  start \o CASE client.earlier = "none" -> <<>>
                   [] client.earlier = "greeting" -> <<AssistantMessage(Spoken(-1), <<>>, <<>>)>>
                   [] client.earlier = "plain" ->
                        question \o <<AssistantMessage(Spoken(-1), <<Piece("reason", -1)>>, <<>>)>>
                   [] client.earlier = "tool" ->
                        question \o <<AssistantMessage(Spoken(-1), <<>>, <<-1>>), ResultMessage(-1)>>

CInit ==
    /\ client \in Clients /\ history = Before
    /\ stage = "client" /\ live = <<>> /\ memory = <<>>
    /\ job = NoJob /\ ended = NoTurn /\ turns = 0

(* parse_chat_request, parse_anthropic_request: a bad value refuses the
   request before anything is looked up.                                   *)
Parsed(wires, n) ==
    LET s == ReadBody(client.body)
        hasTools == s.tools /\ ~s.none
        mode == ThinkMode(s, client.large)
        messages == ReadHistory(wires, n)
    IN  [prompt |-> RenderChat(messages, hasTools, mode, memory), hasTools |-> hasTools,
         preserves |-> UsesToolContext(messages, hasTools), think |-> mode # "none"]

NewMessage(n) ==
    IF ended.parsed.block # <<>> THEN ResultMessage(turns) ELSE UserMessage(<<Piece("ask", n)>>)

Send ==
    /\ stage = "client" /\ turns < MaxTurns
    /\ turns' = turns + 1
    /\ history' = Append(history, NewMessage(turns'))
    /\ IF ReadBody(client.body).bad
       THEN stage' = "refused" /\ UNCHANGED job
       ELSE stage' = "arrived" /\ job' = Parsed(history', turns')
    /\ UNCHANGED <<client, live, memory, ended>>

(* The worker brings the session to the prompt, decodes and answers. *)
Answer ==
    /\ stage = "arrived" /\ turns < MaxTurns
    /\ \E kinds \in Replies, how \in {"end", "length", "stop"} :
        LET text == Sampled(kinds, job.hasTools, turns)
            parsed == ParseSampled(text)
            calls == IF parsed.block = <<>> THEN <<>> ELSE <<turns>>
        IN  /\ how = "length" => ~job.hasTools \/ PlacesOf(text, {"block", "broken"}) = {}
            /\ live' = LiveAfter(text, parsed, how)
            /\ memory' = IF calls = <<>> \/ ReplayOff THEN memory
                         ELSE [id \in DOMAIN memory \cup {turns} |->
                                  IF id = turns THEN parsed.block ELSE memory[id]]
            /\ history' = Append(history, AssistantMessage(parsed.content, parsed.reasoning, calls))
            /\ ended' = [job |-> job, text |-> text, parsed |-> parsed, how |-> how,
                         known |-> DOMAIN memory \cup ToSet(calls)]
    /\ stage' = "client"
    /\ UNCHANGED <<client, job, turns>>

(* Calls of other conversations push an id out of the memory. *)
Forget ==
    /\ stage = "client"
    /\ \E id \in DOMAIN memory : memory' = [i \in DOMAIN memory \ {id} |-> memory[i]]
    /\ UNCHANGED <<client, history, stage, live, job, ended, turns>>

CNext == Send \/ Answer \/ Forget
CSpec == CInit /\ [][CNext]_cvars

-----------------------------------------------------------------------------
(* Why a request may not continue the session. *)
ReasoningKeptBack == job.preserves /\ ended.parsed.reasoning # <<>> /\ ~client.keeps
ToolContextBegins ==
    job.preserves /\ ~ended.job.preserves /\ PlacesOf(ended.job.prompt, {"</think>"}) # {}
ThoughtNotDropped ==
    ended.how = "length" /\ ~ended.job.preserves /\ ended.parsed.block = <<>>
ThoughtNotClosed == ended.parsed.block = <<>> /\ InsideThought(ended.job.prompt \o ended.text)
ThoughtInContent == ended.job.preserves /\ PlacesOf(ended.parsed.content, {"broken"}) # {}
CallsRead == client.api = "openai" \/ client.roleFirst
CallUnknown == CallsRead /\ ~ended.known \subseteq DOMAIN memory
CallNotRead == ~CallsRead /\ ended.parsed.block # <<>>
StrayTag == ended.parsed.block = <<>> /\ ended.parsed.content # ended.text

Excused ==
    IF job.think
    THEN \/ ReasoningKeptBack \/ ToolContextBegins \/ ThoughtNotDropped
         \/ ThoughtNotClosed \/ ThoughtInContent \/ CallUnknown \/ CallNotRead
    ELSE StrayTag \/ CallUnknown \/ CallNotRead

(* The prompt of a request begins with the text of the live session exactly
   if none of these reasons holds: whatever was sampled, in both APIs, with
   any settings, a finished turn renders back to what the session holds
   (render_chat_prompt_text, canonicalize_tool_checkpoint,
   canonicalize_thinking_checkpoint).                                      *)
ContinuesLiveSession ==
    stage = "arrived" /\ live # <<>> => (IsPrefix(live, job.prompt) <=> ~Excused)

(* README.md:283-290: also without exact replay the checkpoint of a tool
   turn is rewritten to what the next request will render.                 *)
ToolTurnAligned ==
    stage = "arrived" /\ ended.parsed.block # <<>> /\ ended.job.preserves /\ client.keeps /\ client.roleFirst
        => IsPrefix(live, job.prompt)
=============================================================================
