---------------------------- MODULE LiveStream ----------------------------
(***************************************************************************)
(* One generated turn of ds4_server.c on its way to a streaming client:    *)
(* generate_job appends each token to the text and hands the part that is  *)
(* safe to show to the stream of the request's API, which splits it, token *)
(* by token, into reasoning, content and tool-call arguments.  At the end  *)
(* the whole text is parsed again and the rest of the answer follows.      *)
(*                                                                         *)
(* The text is a sequence of symbols.  A marker is "<" and a second symbol *)
(* ("O" "C" think open and close, "S" "E" tool block start and end, "I"    *)
(* "i" invoke, "P" "p" parameter), so that a token may end inside it; the  *)
(* opening tags of invokes and parameters go on to a ">".  "u" "v" are the *)
(* two bytes of one character, "&" "a" an escaped character, "n" an empty  *)
(* line.  Positions count symbols, as the code's count bytes.              *)
(***************************************************************************)
EXTENDS SequencesExt

CONSTANTS
    Requests,   \* [api, think, tools, stops]
    Turns,      \* texts the model may generate
    MaxPiece,   \* symbols in one token
    Window      \* symbols in the last 80 bytes, where markers are looked for

\* stop_list_push drops empty stop sequences.
ASSUME StreamAssumption ==
    /\ {MaxPiece, Window} \subseteq Nat \ {0}
    /\ Turns \subseteq Seq(STRING)
    /\ \A r \in Requests :
         /\ r \in [api : {"openai", "anthropic", "plain"}, think : BOOLEAN, tools : BOOLEAN,
                  stops : SUBSET Seq(STRING)]
         /\ IsFiniteSet(r.stops) /\ <<>> \notin r.stops

ThinkOpen == <<"<", "O">>    ThinkClose == <<"<", "C">>
ToolStart == <<"<", "S">>    ToolEnd == <<"<", "E">>
InvokeStart == <<"<", "I">>  InvokeEnd == <<"<", "i">>
ParamStart == <<"<", "P">>   ParamEnd == <<"<", "p">>

VARIABLES
    req,      \* the request being answered
    text,     \* what the model has generated
    pc,
    finish,   \* finish reason; "" while decoding
    stop,     \* next place to look for a stop sequence, where one was found
    seen,     \* tool markers: start, end, next place to look
    stream,   \* the openai_stream or anthropic_stream of the request
    tool,     \* its openai_tool_stream
    sent,     \* what the client has received
    broken    \* the connection failed

vars == <<req, text, pc, finish, stop, seen, stream, tool, sent, broken>>

None == -1   \* no stop sequence found

Init ==
    /\ req \in Requests
    /\ text = <<>> /\ pc = "token" /\ finish = "" /\ broken = FALSE
    /\ stop = [from |-> 0, at |-> None]
    /\ seen = [start |-> FALSE, end |-> FALSE, from |-> 0]
    /\ stream = [mode |-> IF req.api = "plain" THEN "plain"
                          ELSE IF req.think THEN "think" ELSE "text",
                 pos |-> 0, checked |-> FALSE, upto |-> 0, final |-> FALSE]
    /\ tool = [state |-> "off", at |-> 0, string |-> FALSE]
    /\ sent = [reasoning |-> <<>>, content |-> <<>>, calls |-> <<>>, blocks |-> <<>>]

-----------------------------------------------------------------------------
(* Looking at text.                                                        *)

Part(s, from, upto) == SubSeq(s, from + 1, upto)
At(s, p, lit) == p + Len(lit) <= Len(s) /\ Part(s, p, p + Len(lit)) = lit
Marks(s, lit, from) == {p \in from .. Len(s) - Len(lit) : At(s, p, lit)}
Space == {"n"}

\* Where the text from "from" to "limit" ends without its trailing space.
Trimmed(s, from, limit) ==
    Max({from} \cup {p \in from + 1 .. limit : s[p] \notin Space})

SkipSpace(s, from, limit) ==
    Min({limit} \cup {p \in from .. limit - 1 : s[p + 1] \notin Space})

AnyBytes(s, from, limit) == limit   \* mutant: a character may be cut in two

\* utf8_stream_safe_len: the lead byte of an unfinished character waits.
WholeChars(s, from, limit) ==
    IF limit > from /\ s[limit] = "u" THEN limit - 1 ELSE limit

Unescape(s) ==
    FlattenSeq([p \in DOMAIN s |->
        IF s[p] = "&" /\ p < Len(s) /\ s[p + 1] = "a" THEN <<"A">>
        ELSE IF s[p] = "a" /\ p > 1 /\ s[p - 1] = "&" THEN <<>>
        ELSE <<s[p]>>])

-----------------------------------------------------------------------------
(* The whole-text parse: parse_generated_message.  Params and Calls map the *)
(* place where a tag is expected to what follows up to the closing tag, and *)
(* as its last element the place after that tag, None when it is malformed. *)

TagEnds(s, p) == Marks(s, <<">">>, p)
Has(s, from, upto, attr) == \E q \in from + 1 .. upto : s[q] = attr
HasParam(s, p) ==
    /\ At(s, p, ParamStart) /\ TagEnds(s, p) # {}
    /\ Marks(s, ParamEnd, Min(TagEnds(s, p)) + 1) # {}

Param(s, p) ==
    LET body == Min(TagEnds(s, p)) + 1
        end == Min(Marks(s, ParamEnd, body))
        string == ~Has(s, p, body, "raw")
        value == Part(s, body, end)
    IN  [string |-> string, value |-> IF string THEN Unescape(value) ELSE value]

Params(s) ==
    LET params[p \in 0 .. Len(s)] ==
            LET q == SkipSpace(s, p, Len(s)) IN
            IF At(s, q, InvokeEnd) THEN <<q + 2>>
            ELSE IF HasParam(s, q)
                 THEN <<Param(s, q)>> \o params[Min(Marks(s, ParamEnd, Min(TagEnds(s, q)))) + 2]
                 ELSE <<None>>
    IN  params

Calls(s) ==
    LET calls[p \in 0 .. Len(s)] ==
            LET q == SkipSpace(s, p, Len(s))
                params == Params(s)[Min(TagEnds(s, q)) + 1]
            IN  IF At(s, q, ToolEnd) THEN <<q + 2>>
                ELSE IF /\ At(s, q, InvokeStart) /\ TagEnds(s, q) # {}
                        /\ Has(s, q, Min(TagEnds(s, q)), "name")
                        /\ Last(params) # None
                     THEN <<[params |-> Front(params), open |-> FALSE]>> \o calls[Last(params)]
                     ELSE <<None>>
    IN  calls

\* split_reasoning_content
Split(s) ==
    LET body == IF At(s, 0, ThinkOpen) THEN 2 ELSE 0
        closes == Marks(s, ThinkClose, body)
    IN  IF closes = {} THEN [reasoning |-> <<>>, content |-> s]
        ELSE [reasoning |-> Part(s, body, Min(closes)),
              content |-> Part(s, Min(closes) + 2, Len(s))]

\* A block after an empty line is preferred to an earlier one without.
BlockStart(s) ==
    LET starts == Marks(s, ToolStart, 0)
        separated == {p \in starts : p > 0 /\ s[p] = "n"}
    IN  IF separated # {} THEN Min(separated) ELSE Min(starts)

WithCalls(calls, split) ==
    [ok |-> TRUE, calls |-> calls, reasoning |-> split.reasoning, content |-> split.content]

Message(s) ==
    IF Marks(s, ToolStart, 0) = {}
    THEN WithCalls(<<>>, Split(s))
    ELSE LET p == BlockStart(s)
             parsed == Calls(s)[p + 2]
         IN  IF Last(parsed) # None
             THEN WithCalls(Front(parsed), Split(Part(s, 0, Trimmed(s, 0, p))))
             ELSE [ok |-> FALSE, calls |-> <<>>, reasoning |-> <<>>, content |-> s]

-----------------------------------------------------------------------------
(* Decoding.                                                               *)

Longest == Max({0} \cup {Len(s) : s \in req.stops})

Unheld(len) == len   \* mutant: nothing is held back for a stop sequence

Unclamped(len) ==   \* mutant: a text shorter than what is held back
    IF Longest <= 1 THEN len ELSE len - (Longest - 1)

\* stop_list_stream_safe_len: the start of a stop sequence waits.
StopSafe(len) ==
    IF Longest <= 1 THEN len ELSE IF len > Longest - 1 THEN len - (Longest - 1) ELSE 0

\* The text and one more token: a piece of any text the model may generate.
Longer ==
    {Part(t, 0, Min({Len(text) + n, Len(t)})) : t \in {u \in Turns : IsStrictPrefix(text, u)},
                                                n \in 1 .. MaxPiece}

Sample ==
    /\ pc = "token"
    /\ text' \in Longer
    /\ LET found == UNION {Marks(text', s, stop.from) : s \in req.stops}
           hit == found # {}
           shown == IF hit THEN Min(found) ELSE StopSafe(Len(text'))
       IN  /\ stop' = [from |-> IF hit \/ Longest <= 1 THEN stop.from
                                ELSE Max({0, Len(text') - (Longest - 1)}),
                       at |-> IF hit THEN Min(found) ELSE None]
           /\ stream' = [stream EXCEPT !.upto =
                IF hit THEN shown
                ELSE WholeChars(text', IF req.api = "plain" THEN stream.pos ELSE 0, shown)]
    /\ pc' = IF stream.mode = "off" THEN "observe" ELSE stream.mode
    /\ UNCHANGED <<req, finish, seen, tool, sent, broken>>

\* End of sequence, max_tokens or a full context, an evaluation error.
EndDecoding ==
    /\ pc = "token"
    /\ finish' \in {"stop", "length", "error"}
    /\ pc' = "parse"
    /\ UNCHANGED <<req, text, stop, seen, stream, tool, sent, broken>>

\* After each token: tool markers, a stop sequence, the end of a tool block.
Observe ==
    LET look == req.api # "plain" /\ req.tools
        starts == Marks(text, ToolStart, seen.from)
        endFrom == IF seen.start THEN seen.from ELSE Min(starts)
        end == (seen.start \/ starts # {}) /\ Marks(text, ToolEnd, endFrom) # {}
    IN  /\ pc = "observe"
        /\ seen' = IF look
                   THEN [start |-> seen.start \/ starts # {}, end |-> seen.end \/ end,
                         from |-> Max({0, Len(text) - Window})]
                   ELSE seen
        /\ text' = IF stop.at = None THEN text ELSE Part(text, 0, stop.at)
        /\ finish' = IF stop.at # None THEN "stop"
                     ELSE IF seen'.end THEN "tool_calls" ELSE ""
        /\ pc' = IF finish' = "" THEN "token" ELSE "parse"
        /\ UNCHANGED <<req, stop, stream, tool, sent, broken>>

-----------------------------------------------------------------------------
(* The stream of the request, fed with the text up to stream.upto.         *)

\* Where control goes when an update returns.
Return == IF stream.final THEN "close" ELSE "observe"

Say(field, upto) ==
    [sent EXCEPT ![field] = @ \o Part(text, stream.pos, upto)]

\* anthropic_sse_open_block: the block for a delta, opened on its first one.  It
\* fails when another is open, which BlocksInOrder shows never happens.
OpenFor(blocks, type) ==
    IF blocks # <<>> /\ Last(blocks) = [type |-> type, open |-> TRUE] THEN blocks
    ELSE Append(blocks, [type |-> type, open |-> TRUE])

NeverClosed(blocks) == blocks   \* mutant: the block of the reasoning stays open

\* anthropic_sse_close_block_live
CloseLast(blocks) ==
    IF blocks = <<>> THEN blocks ELSE [blocks EXCEPT ![Len(blocks)].open = FALSE]

BlockOpen == sent.blocks # <<>> /\ Last(sent.blocks).open

\* The deltas of one update: field, how far, and whether its block ends.
Deliver(field, upto, close) ==
    LET said == IF upto > stream.pos THEN Say(field, upto) ELSE sent
        opened == IF upto > stream.pos THEN OpenFor(sent.blocks, field) ELSE sent.blocks
    IN  sent' = IF req.api = "anthropic"
                THEN [said EXCEPT !.blocks = IF close THEN CloseLast(opened) ELSE opened]
                ELSE said

Repeats ==   \* mutant: the place reached is not kept
    /\ pc = "plain"
    /\ Deliver("content", stream.upto, FALSE)
    /\ pc' = Return
    /\ UNCHANGED <<req, text, finish, stop, seen, stream, tool, broken>>

StreamPlain ==
    /\ pc = "plain"
    /\ Deliver("content", stream.upto, FALSE)
    /\ stream' = [stream EXCEPT !.pos = Max({@, stream.upto})]
    /\ pc' = Return
    /\ UNCHANGED <<req, text, finish, stop, seen, tool, broken>>

\* An opening marker at the start of the text is not reasoning.
CheckThinkPrefix ==
    LET shown == Part(text, 0, stream.upto)
    IN  /\ pc = "think" /\ ~stream.checked
        /\ IF Len(shown) < 2 /\ IsPrefix(shown, ThinkOpen) /\ ~stream.final
           THEN /\ pc' = Return
                /\ UNCHANGED stream
           ELSE /\ stream' = [stream EXCEPT !.checked = TRUE,
                                            !.pos = IF At(shown, 0, ThinkOpen) THEN 2 ELSE @]
                /\ UNCHANGED pc
    /\ UNCHANGED <<req, text, finish, stop, seen, tool, sent, broken>>

Closes == Marks(text, ThinkClose, stream.pos)

ThinkLimit ==
    IF Closes # {} THEN Min(Closes)
    ELSE IF stream.final THEN stream.upto
    ELSE WholeChars(text, stream.pos, IF stream.upto > 1 THEN stream.upto - 1 ELSE stream.pos)

StreamThinking ==
    /\ pc = "think" /\ stream.checked
    /\ Deliver("reasoning", ThinkLimit, Closes # {} \/ stream.final)
    /\ stream' =
         IF Closes # {} THEN [stream EXCEPT !.pos = Min(Closes) + 2, !.mode = "text"]
         ELSE [stream EXCEPT !.pos = Max({@, ThinkLimit}),
                             !.mode = IF stream.final THEN "off" ELSE @]
    /\ pc' = IF Closes # {} THEN "text" ELSE Return
    /\ UNCHANGED <<req, text, finish, stop, seen, tool, broken>>

Starts == IF req.tools THEN Marks(text, ToolStart, stream.pos) ELSE {}

SpaceShown ==   \* mutant: space before a tool block is streamed
    IF stream.upto <= stream.pos THEN stream.upto
    ELSE IF Starts # {} THEN Min(Starts)
    ELSE IF ~req.tools \/ stream.final
         THEN IF stream.final THEN stream.upto
              ELSE WholeChars(text, stream.pos, stream.upto)
    ELSE LET opens == {p \in Max({stream.pos, stream.upto - Window}) .. stream.upto - 1 :
                         text[p + 1] = "<"}
         IN  WholeChars(text, stream.pos,
                        IF opens = {} THEN stream.upto ELSE Max(opens))

\* text_stream_safe_limit: space and a possible marker wait.
TextLimit ==
    LET opens == {p \in Max({stream.pos, stream.upto - Window}) .. stream.upto - 1 :
                    text[p + 1] = "<"}
        noMarker == IF opens = {} THEN stream.upto ELSE Max(opens)
    IN  IF stream.upto <= stream.pos THEN stream.upto
        ELSE IF Starts # {} THEN Trimmed(text, stream.pos, Min(Starts))
        ELSE IF stream.final THEN stream.upto
        ELSE WholeChars(text, stream.pos,
                        IF req.tools THEN Trimmed(text, stream.pos, noMarker) ELSE stream.upto)

StreamText ==
    /\ pc = "text"
    /\ Deliver("content", TextLimit, Starts # {} \/ stream.final)
    /\ LET live == /\ Starts # {} /\ req.api = "openai"
                   /\ Min(Starts) + 2 <= stream.upto   \* openai_tool_stream_init
       IN  /\ tool' = IF live THEN [tool EXCEPT !.state = "invokes", !.at = Min(Starts) + 2]
                      ELSE tool
           /\ stream' = IF Starts # {}
                        THEN [stream EXCEPT !.pos = Min(Starts),
                                            !.mode = IF live THEN "tool" ELSE "off"]
                        ELSE [stream EXCEPT !.pos = Max({@, TextLimit}),
                                            !.mode = IF stream.final THEN "off" ELSE @]
           /\ pc' = IF live THEN "tool" ELSE Return
    /\ UNCHANGED <<req, text, finish, stop, seen, broken>>

-----------------------------------------------------------------------------
(* openai_tool_stream_update: the tool block, tag by tag.                  *)

TagAt == SkipSpace(text, tool.at, stream.upto)   \* where the next tag starts
Shown == Part(text, 0, stream.upto)
TagEnd == Marks(Shown, <<">">>, TagAt)

\* The tag at hand is not complete yet: the update returns and is repeated.
Waiting(lits) ==
    \/ TagAt = stream.upto
    \/ \E lit \in lits : TagAt + 1 = stream.upto /\ text[stream.upto] = lit[1]

Live(state) == pc = "tool" /\ tool.state = state
AtInvoke == Live("invokes") /\ At(Shown, TagAt, InvokeStart)
AtParam == Live("params") /\ At(Shown, TagAt, ParamStart)
Named == Has(text, TagAt, Min(TagEnd), "name")
Typed == Has(text, TagAt, Min(TagEnd), "str") \/ Has(text, TagAt, Min(TagEnd), "raw")

Respins ==   \* mutant: an unfinished tag is tried again at once
    /\ \/ Live("invokes") /\ Waiting({ToolEnd, InvokeStart})
       \/ Live("params") /\ Waiting({InvokeEnd, ParamStart})
       \/ (AtInvoke \/ AtParam) /\ TagEnd = {}
    /\ tool' = [tool EXCEPT !.at = TagAt]
    /\ pc' = IF (AtInvoke \/ AtParam) /\ TagEnd = {} THEN pc ELSE Return
    /\ UNCHANGED <<req, text, finish, stop, seen, stream, sent, broken>>

ToolWaits ==
    /\ \/ Live("invokes") /\ Waiting({ToolEnd, InvokeStart})
       \/ Live("params") /\ Waiting({InvokeEnd, ParamStart})
       \/ (AtInvoke \/ AtParam) /\ TagEnd = {}
    /\ tool' = [tool EXCEPT !.at = TagAt]
    /\ pc' = Return
    /\ UNCHANGED <<req, text, finish, stop, seen, stream, sent, broken>>

ToolStops(state) ==
    /\ tool' = [tool EXCEPT !.state = state]
    /\ stream' = [stream EXCEPT !.mode = "off"]
    /\ pc' = Return
    /\ UNCHANGED <<req, text, finish, stop, seen, sent, broken>>

ToolDone == Live("invokes") /\ At(Shown, TagAt, ToolEnd) /\ ToolStops("done")

\* Neither of the tags that may come here, or one that lacks an attribute.
ToolFails ==
    /\ \/ /\ Live("invokes") /\ ~Waiting({ToolEnd, InvokeStart})
          /\ ~At(Shown, TagAt, ToolEnd) /\ ~AtInvoke
       \/ /\ Live("params") /\ ~Waiting({InvokeEnd, ParamStart})
          /\ ~At(Shown, TagAt, InvokeEnd) /\ ~AtParam
       \/ AtInvoke /\ TagEnd # {} /\ ~Named
       \/ AtParam /\ TagEnd # {} /\ ~Typed
    /\ ToolStops("error")

StartInvoke ==
    /\ AtInvoke /\ TagEnd # {} /\ Named
    /\ sent' = [sent EXCEPT !.calls = Append(@, [params |-> <<>>, open |-> TRUE])]
    /\ tool' = [tool EXCEPT !.state = "params", !.at = Min(TagEnd) + 1]
    /\ UNCHANGED <<req, text, pc, finish, stop, seen, stream, broken>>

EndInvoke ==
    /\ Live("params") /\ At(Shown, TagAt, InvokeEnd)
    /\ sent' = [sent EXCEPT !.calls[Len(sent.calls)].open = FALSE]
    /\ tool' = [tool EXCEPT !.state = "invokes", !.at = TagAt + 2]
    /\ UNCHANGED <<req, text, pc, finish, stop, seen, stream, broken>>

StartParam ==
    LET string == Has(text, TagAt, Min(TagEnd), "str")
    IN  /\ AtParam /\ TagEnd # {} /\ Typed
        /\ sent' = [sent EXCEPT !.calls[Len(sent.calls)].params =
                      Append(@, [string |-> string, value |-> <<>>])]
        /\ tool' = [state |-> "value", at |-> Min(TagEnd) + 1, string |-> string]
        /\ UNCHANGED <<req, text, pc, finish, stop, seen, stream, broken>>

SayValue(upto) ==
    LET fragment == Part(text, tool.at, upto)
        call == Last(sent.calls)
    IN  [sent EXCEPT !.calls[Len(sent.calls)].params[Len(call.params)].value =
           @ \o (IF tool.string THEN Unescape(fragment) ELSE fragment)]

ValueEnds == Marks(Shown, ParamEnd, tool.at)


\* tool_param_value_stream_safe_len: an unfinished end tag, escape or character waits.
ValueLimit ==
    LET limit == IF text[stream.upto] = "<" THEN stream.upto - 1 ELSE stream.upto
        whole == IF tool.string /\ limit > tool.at /\ text[limit] = "&" THEN limit - 1 ELSE limit
    IN  WholeChars(text, tool.at, whole)

EndParam ==
    /\ Live("value") /\ tool.at < stream.upto
    /\ ValueEnds # {}
    /\ sent' = SayValue(Min(ValueEnds))
    /\ tool' = [tool EXCEPT !.state = "params", !.at = Min(ValueEnds) + 2]
    /\ UNCHANGED <<req, text, pc, finish, stop, seen, stream, broken>>

StreamValue ==
    /\ Live("value")
    /\ ValueEnds = {}
    /\ IF tool.at < stream.upto
       THEN /\ sent' = SayValue(Max({tool.at, ValueLimit}))
            /\ tool' = [tool EXCEPT !.at = Max({@, ValueLimit})]
       ELSE UNCHANGED <<sent, tool>>
    /\ pc' = Return
    /\ UNCHANGED <<req, text, finish, stop, seen, stream, broken>>

StreamTool ==
    \/ ToolWaits \/ ToolDone \/ ToolFails \/ StartInvoke \/ EndInvoke
    \/ StartParam \/ EndParam \/ StreamValue

-----------------------------------------------------------------------------
(* The end of the turn.                                                    *)

\* A block left open and a stop signal are errors.  The rest of the text is
\* streamed next.
Parse ==
    LET unfinished == req.api # "plain" /\ req.tools /\ seen.start /\ ~seen.end
        message == Message(text)
    IN  /\ pc = "parse"
        /\ \E reason \in {"error"} \cup (IF unfinished THEN {} ELSE {finish}) :
             finish' = IF req.api = "plain" THEN reason
                       ELSE IF message.calls # <<>> THEN "tool_calls"
                       ELSE IF message.ok \/ ~(req.tools /\ seen.start) \/ reason = "error"
                            THEN reason
                       ELSE IF reason = "length" THEN "length" ELSE "stop"
        /\ stream' = [stream EXCEPT !.upto = Len(text), !.final = TRUE]
        /\ pc' = IF broken THEN "done"
                 ELSE IF stream.mode = "off" THEN "close" ELSE stream.mode
        /\ UNCHANGED <<req, text, stop, seen, tool, sent, broken>>

\* openai_sse_finish_live and anthropic_sse_finish_live after the last update.
Close ==
    LET calls == IF req.api = "plain" THEN <<>> ELSE Message(text).calls
        quiet == /\ \E k \in DOMAIN sent.blocks : sent.blocks[k].type = "reasoning"
                 /\ \A k \in DOMAIN sent.blocks : sent.blocks[k].type # "content"
                 /\ calls = <<>>
    IN  /\ pc = "close"
        /\ sent' = [sent EXCEPT
             !.calls = IF @ = <<>> THEN calls ELSE @,
             !.blocks = IF req.api # "anthropic" THEN @
                        ELSE (IF quiet THEN Append(@, [type |-> "content", open |-> FALSE]) ELSE @)
                             \o [k \in DOMAIN calls |-> [type |-> "tool", open |-> FALSE]]]
        /\ pc' = "done"
        /\ UNCHANGED <<req, text, finish, stop, seen, stream, tool, broken>>

\* The events the next step sends, if any.
Writes ==
    \/ pc = "plain" /\ stream.upto > stream.pos
    \/ /\ pc = "think" /\ stream.checked
       /\ ThinkLimit > stream.pos \/ (BlockOpen /\ (Closes # {} \/ stream.final))
    \/ pc = "text" /\ (TextLimit > stream.pos \/ (BlockOpen /\ (Starts # {} \/ stream.final)))
    \/ AtInvoke /\ TagEnd # {} /\ Named
    \/ AtParam /\ TagEnd # {} /\ Typed
    \/ Live("params") /\ At(Shown, TagAt, InvokeEnd)
    \/ /\ Live("value") /\ tool.at < stream.upto
       /\ IF ValueEnds # {} THEN tool.string \/ Min(ValueEnds) > tool.at
          ELSE ValueLimit > tool.at
    \/ pc = "close"

\* A write fails: an update in the loop ends the turn with an error, the last
\* one and the closing events leave the rest unsent.
WriteFails ==
    /\ Writes
    /\ broken' = TRUE
    /\ finish' = IF stream.final /\ pc # "plain" THEN finish ELSE "error"
    /\ pc' = IF stream.final THEN "done" ELSE "parse"
    /\ UNCHANGED <<req, text, stop, seen, stream, tool, sent>>

\* The worker takes the next job.
Done == pc = "done" /\ UNCHANGED vars

Next ==
    \/ Sample \/ EndDecoding \/ Observe
    \/ StreamPlain \/ CheckThinkPrefix \/ StreamThinking \/ StreamText \/ StreamTool
    \/ Parse \/ Close \/ WriteFails \/ Done

Spec == Init /\ [][Next]_vars

\* The loop of openai_tool_stream_update runs on the worker, which nothing
\* suspends: while it can take a step it takes one.
FairSpec == Spec /\ WF_vars(StreamTool)

Whole == pc = "done" /\ ~broken

\* The model and the request cut text between characters (UTF-8).
Characters(s) == \A p \in 1 .. Len(s) - 1 : s[p] = "u" => s[p + 1] = "v"
CharactersWhole ==
    /\ \A t \in Turns : Characters(t)
    /\ \A r \in Requests : \A s \in r.stops : s[1] # "v"

\* What has been sent can stand, however the tokens cut the text: nothing lies
\* behind the text itself, nothing from the first symbol of a stop sequence on
\* was sent when one is found, and no delta but the last ends inside a
\* character (stop_list_stream_safe_len, utf8_stream_safe_len, the cut at 7276).
SentStands ==
    /\ stream.upto <= Len(text) /\ tool.at <= Len(text)
    /\ stop.at # None => stream.pos <= stop.at /\ tool.at <= stop.at
    /\ \A f \in {"reasoning", "content"} :
           stream.final \/ sent[f] = <<>> \/ Last(sent[f]) # "u"

\* The shape the prompt asks for: reasoning closed exactly when thinking is on,
\* before a tool block, and a block that parses.
WellShaped(message) ==
    LET closes == Marks(text, ThinkClose, 0)
        starts == Marks(text, ToolStart, 0)
    IN  /\ req.think = (closes # {})
        /\ starts # {} => req.tools /\ (closes # {} => Min(closes) < Min(starts))
        /\ message.ok


\* An Anthropic message is a closed thinking block, then a closed text block,
\* then the tool blocks, none of them opened twice or inside another.
BlocksInOrder ==
    LET rank == [reasoning |-> 1, content |-> 2, tool |-> 3]
        types == [k \in DOMAIN sent.blocks |-> rank[sent.blocks[k].type]]
    IN  /\ \A k \in DOMAIN sent.blocks : sent.blocks[k].open => k = Len(sent.blocks) /\ ~Whole
        /\ \A k \in 1 .. Len(types) - 1 : types[k] < types[k + 1] \/ types[k] = 3

\* An update of the tool stream returns to the decode loop: it never spins on
\* a tag or a value that only another token can complete.
UpdateReturns == pc = "tool" ~> pc # "tool"
=============================================================================
