--------------------------- MODULE DecodeTracker ---------------------------
(***************************************************************************)
(* How the next token of a turn is sampled (ds4_server.c): a tracker reads *)
(* the answer as it grows and knows whether it stands in the tags of a     *)
(* tool call, which are taken greedily, or in a value, which is sampled as *)
(* the request asks.  thinking_state follows the thinking tags of prompt   *)
(* and answer in the same way.                                             *)
(*                                                                         *)
(* A tag is cut into symbols so that a token may end anywhere inside it:   *)
(* "<" "/" "D" (the prefix of one of the two styles of tags) and "T" "I"   *)
(* "P" (tool calls, invoke, parameter) or "K" (think); an opening tag goes *)
(* on to ">", with "S" for string="true".                                  *)
(***************************************************************************)
EXTENDS SequencesExt

CONSTANTS
    Asks,           \* [tools, think, warm, prompt]: a request, warm when its temperature is not 0
    Outputs,        \* what the model may answer
    LongestPiece,   \* symbols of one token
    MaxDrafts       \* draft tokens accepted with a greedy one

ASSUME TrackerSizes == LongestPiece \in Nat \ {0} /\ MaxDrafts \in Nat

VARIABLES
    ask, answer,
    dt,             \* dsml_decode_tracker
    thinking,       \* thinking_state
    phase,          \* "sample", or "track" inside dsml_decode_tracker_update
    cold,           \* the last token was taken greedily
    drafts,         \* accepted draft tokens still to be appended
    skipped         \* place behind the last "<" of a value the tracker stepped over; 0

dtvars == <<ask, answer, dt, thinking, phase, cold, drafts, skipped>>

-----------------------------------------------------------------------------
Prefix(style) == IF style = "dsml" THEN <<"D">> ELSE <<>>
Syntax(style) ==
    [ callsStart |-> <<"<">> \o Prefix(style) \o <<"T">>,
      callsEnd |-> <<"<", "/">> \o Prefix(style) \o <<"T">>,
      invokeStart |-> <<"<">> \o Prefix(style) \o <<"I">>,
      invokeEnd |-> <<"<", "/">> \o Prefix(style) \o <<"I">>,
      paramStart |-> <<"<">> \o Prefix(style) \o <<"P">>,
      paramEnd |-> <<"<", "/">> \o Prefix(style) \o <<"P">> ]
Styles == {"dsml", "plain"}
Hold == Len(Syntax("dsml").callsStart)      \* dsml_max_tool_start_len

Full(s, p, lit) == p + Len(lit) <= Len(s) /\ SubSeq(s, p + 1, p + Len(lit)) = lit
Places(s, p, lit) == {q \in p..Len(s) : Full(s, q, lit)}

\* The answer ends inside the literal at p: raw_partial_lit_min with 2 symbols.
PartialFrom(s, p, lit) ==
    /\ Len(s) - p \in 2..(Len(lit) - 1)
    /\ SubSeq(s, p + 1, Len(s)) = SubSeq(lit, 1, Len(s) - p)
Partials(s, p, lit) == {q \in p..Len(s) : PartialFrom(s, q, lit)}

NotBlank(s, p) == {q \in p..(Len(s) - 1) : s[q + 1] # "n"}
Skip(s, p) == IF NotBlank(s, p) = {} THEN Len(s) ELSE Min(NotBlank(s, p))
TagClose(s, p) == Places(s, p, <<">">>)
IsStringTag(s, p) == \E q \in (p + 1)..Min(TagClose(s, p)) : s[q] = "S"

\* dsml_find_tool_start_from: the first opening tag of any style.
CallStarts(s, p) == UNION {{<<q, style>> : q \in Places(s, p, Syntax(style).callsStart)} : style \in Styles}
FirstStart(s, p) == CHOOSE at \in CallStarts(s, p) : \A other \in CallStarts(s, p) : at[1] <= other[1]

-----------------------------------------------------------------------------
(* Reference: where a whole text ends (dsml_decode_state_for_text).  The    *)
(* functions go from a place to the state of the text from there on.       *)

\* Where the body of a JSON parameter ends, or the state the text stops in.
JsonScan(s, lit) ==
    LET scan[p \in 0..Len(s), inString \in BOOLEAN, escaped \in BOOLEAN] ==
            IF p = Len(s) THEN IF inString THEN "json_string" ELSE "json"
            ELSE IF ~inString /\ (Full(s, p, lit) \/ PartialFrom(s, p, lit)) THEN "structural"
            ELSE scan[p + 1, IF s[p + 1] = "q" /\ ~escaped THEN ~inString ELSE inString,
                      inString /\ ~escaped /\ s[p + 1] = "b"]
    IN  scan

StateFrom(s, syn) ==
    LET state[p0 \in 0..Len(s)] ==
            LET p == Skip(s, p0)
                body == Min(TagClose(s, p)) + 1
                ends == Places(s, body, syn.paramEnd)
                inJson == JsonScan(s, syn.paramEnd)[body, FALSE, FALSE]
            IN  IF Full(s, p, syn.callsEnd) THEN "outside"
                ELSE IF Full(s, p, syn.invokeEnd) THEN state[p + Len(syn.invokeEnd)]
                ELSE IF TagClose(s, p) = {} THEN "structural"
                ELSE IF Full(s, p, syn.invokeStart) THEN state[body]
                ELSE IF ~Full(s, p, syn.paramStart) THEN "structural"
                ELSE IF ~IsStringTag(s, p) /\ inJson # "structural" THEN inJson
                ELSE IF ends # {} THEN state[Min(ends) + Len(syn.paramEnd)]
                ELSE IF IsStringTag(s, p) /\ Partials(s, body, syn.paramEnd) = {} THEN "string"
                ELSE "structural"
    IN  state

StateForText(s) ==
    IF CallStarts(s, 0) = {} THEN "outside"
    ELSE LET at == FirstStart(s, 0)
             syn == Syntax(at[2])
         IN  StateFrom(s, syn)[at[1] + Len(syn.callsStart)]

-----------------------------------------------------------------------------
(* thinking_state_feed: the last symbols, as many as the closing tag has.   *)
ThinkTags == [open |-> <<"<", "K">>, close |-> <<"<", "/", "K">>]
ShortTail == Len(ThinkTags.close) - 1      \* mutant: room for the opening tag only
TailSize == Len(ThinkTags.close)
Fed(st, symbol) ==
    LET kept == IF Len(st.tail) = TailSize THEN Tail(st.tail) ELSE st.tail
        tail == Append(kept, symbol)
    IN  [tail |-> tail,
         inside |-> IF IsSuffix(ThinkTags.open, tail) THEN TRUE
                    ELSE IF IsSuffix(ThinkTags.close, tail) THEN FALSE ELSE st.inside]
Feed(st, symbols) == FoldLeft(Fed, st, symbols)

-----------------------------------------------------------------------------
InTool == ask.tools /\ dt.decode # "outside"
Payload == dt.decode \in {"string", "json_string"}

ToolIsPayload == ask.think \/ ask.warm      \* mutant: tags are sampled as text is
Warm == (ask.think \/ ask.warm) /\ ~(InTool /\ ~Payload)

\* A token of the answer: sampled, or one of the drafts behind a greedy one.
AppendToken(greedy) ==
    /\ \E n \in 1..LongestPiece :
          \E whole \in {a \in Outputs : IsPrefix(answer, a) /\ Len(answer) + n <= Len(a)} :
             answer' = SubSeq(whole, 1, Len(answer) + n)
    /\ cold' = greedy
    /\ thinking' = Feed(thinking, SubSeq(answer', Len(answer) + 1, Len(answer')))
    /\ phase' = IF ask.tools THEN "track" ELSE "sample"
    /\ UNCHANGED <<ask, dt, skipped>>

SampleToken ==
    /\ phase = "sample" /\ drafts = 0
    /\ AppendToken(~Warm)
    /\ drafts' \in IF Warm THEN {0} ELSE 0..MaxDrafts

AcceptDraft ==
    /\ phase = "sample" /\ drafts > 0
    /\ AppendToken(TRUE)
    /\ drafts' = drafts - 1

-----------------------------------------------------------------------------
(* dsml_decode_tracker_update, one round of its loop at a time.            *)
Syn == Syntax(dt.syn)
InMode(m) == phase = "track" /\ dt.mode = m
Missed ==   \* a closing tag, as far as it has come, starts at the skipped "<"
    /\ skipped > 0
    /\ Full(answer, skipped - 1, Syn.paramEnd) \/ PartialFrom(answer, skipped - 1, Syn.paramEnd)
Stepped(over) == skipped' = IF over = 0 \/ Missed THEN skipped ELSE over
Tracked(to, over) == dt' = to /\ Stepped(over) /\ UNCHANGED <<ask, answer, thinking, cold, drafts>>
Move(to) == Tracked(to, 0) /\ UNCHANGED phase
ReturnWith(to) == Tracked(to, 0) /\ phase' = "sample"

TrackDone == InMode("done") /\ ReturnWith([dt EXCEPT !.decode = "outside"])

Found == CallStarts(answer, dt.pos) # {}
SearchStart ==
    /\ InMode("search") /\ Found
    /\ LET at == FirstStart(answer, dt.pos)
       IN  Move([dt EXCEPT !.syn = at[2], !.pos = at[1] + Len(Syntax(at[2]).callsStart),
                           !.mode = "structural", !.decode = "structural"])

SearchOn ==
    /\ InMode("search") /\ ~Found
    /\ ReturnWith([dt EXCEPT !.pos = Max({0, Len(answer) - Hold}), !.decode = "outside"])

StringEnds ==
    /\ InMode("string") /\ Places(answer, dt.pos, Syn.paramEnd) # {}
    /\ Move([dt EXCEPT !.pos = Min(Places(answer, dt.pos, Syn.paramEnd)) + Len(Syn.paramEnd),
                       !.mode = "structural", !.decode = "structural"])
StringGoesOn ==
    /\ InMode("string") /\ Places(answer, dt.pos, Syn.paramEnd) = {}
    /\ LET partial == Partials(answer, dt.pos, Syn.paramEnd)
       IN  Tracked([dt EXCEPT !.pos = IF partial = {} THEN Len(answer) ELSE Min(partial),
                              !.decode = IF partial = {} THEN "string" ELSE "structural"],
                   IF partial = {} /\ Last(answer) = "<" THEN Len(answer) ELSE 0)
    /\ phase' = "sample"

JsonEnds ==
    /\ InMode("json") /\ ~dt.inString /\ Full(answer, dt.pos, Syn.paramEnd)
    /\ Move([dt EXCEPT !.pos = @ + Len(Syn.paramEnd), !.mode = "structural", !.decode = "structural"])
JsonMayEnd ==
    /\ InMode("json") /\ ~dt.inString /\ PartialFrom(answer, dt.pos, Syn.paramEnd)
    /\ ReturnWith([dt EXCEPT !.decode = "structural"])
EscapeIgnored(symbol) ==    \* mutant: an escaped quote ends the string
    [dt EXCEPT !.pos = @ + 1, !.inString = IF symbol = "q" THEN ~@ ELSE @]
JsonStep(symbol) ==
    [dt EXCEPT !.pos = @ + 1,
               !.inString = IF symbol = "q" /\ ~dt.escaped THEN ~@ ELSE @,
               !.escaped = dt.inString /\ ~@ /\ symbol = "b"]
JsonSymbol ==
    /\ InMode("json") /\ dt.pos < Len(answer)
    /\ dt.inString \/ ~(Full(answer, dt.pos, Syn.paramEnd) \/ PartialFrom(answer, dt.pos, Syn.paramEnd))
    /\ Tracked(JsonStep(answer[dt.pos + 1]), IF answer[dt.pos + 1] = "<" THEN dt.pos + 1 ELSE 0)
    /\ UNCHANGED phase
JsonGoesOn ==
    /\ InMode("json") /\ dt.pos = Len(answer)
    /\ ReturnWith([dt EXCEPT !.decode = IF dt.inString THEN "json_string" ELSE "json"])

\* The next tag of a tool call; other text leaves the tracker where it is.
TagPlace == Skip(answer, dt.pos)
CallsEnd ==
    /\ InMode("structural") /\ Full(answer, TagPlace, Syn.callsEnd)
    /\ ReturnWith([dt EXCEPT !.mode = "done", !.pos = TagPlace + Len(Syn.callsEnd), !.decode = "outside"])
InvokeEnds ==
    /\ InMode("structural") /\ Full(answer, TagPlace, Syn.invokeEnd)
    /\ Move([dt EXCEPT !.pos = TagPlace + Len(Syn.invokeEnd)])
InvokeStarts ==
    /\ InMode("structural") /\ Full(answer, TagPlace, Syn.invokeStart) /\ TagClose(answer, TagPlace) # {}
    /\ Move([dt EXCEPT !.pos = Min(TagClose(answer, TagPlace)) + 1])
ParamStarts ==
    /\ InMode("structural") /\ Full(answer, TagPlace, Syn.paramStart) /\ TagClose(answer, TagPlace) # {}
    /\ LET after == [dt EXCEPT !.pos = Min(TagClose(answer, TagPlace)) + 1]
       IN  Move(IF IsStringTag(answer, TagPlace)
                THEN [after EXCEPT !.mode = "string", !.decode = "string"]
                ELSE [after EXCEPT !.mode = "json", !.decode = "json", !.inString = FALSE, !.escaped = FALSE])
NoTagYet ==
    /\ InMode("structural")
    /\ \A lit \in {Syn.callsEnd, Syn.invokeEnd} : ~Full(answer, TagPlace, lit)
    /\ (\E lit \in {Syn.invokeStart, Syn.paramStart} : Full(answer, TagPlace, lit))
          => TagClose(answer, TagPlace) = {}
    /\ ReturnWith([dt EXCEPT !.pos = TagPlace, !.decode = "structural"])

-----------------------------------------------------------------------------
GInit ==
    /\ ask \in Asks /\ answer = <<>>
    /\ dt = [mode |-> "search", decode |-> "outside", syn |-> "dsml", pos |-> 0,
             inString |-> FALSE, escaped |-> FALSE]
    /\ thinking = Feed([inside |-> FALSE, tail |-> <<>>], ask.prompt)
    /\ phase = "sample" /\ cold = TRUE /\ drafts = 0 /\ skipped = 0

GNext ==
    \/ SampleToken \/ AcceptDraft
    \/ TrackDone \/ SearchStart \/ SearchOn \/ StringEnds \/ StringGoesOn
    \/ JsonEnds \/ JsonMayEnd \/ JsonSymbol \/ JsonGoesOn
    \/ CallsEnd \/ InvokeEnds \/ InvokeStarts \/ ParamStarts \/ NoTagYet

GSpec == GInit /\ [][GNext]_dtvars

(* thinking_state keeps eight bytes, yet it knows whether the last complete
   tag of prompt and answer opened, wherever tokens end (6604-6614).       *)
ThinkingFollows ==
    LET all == ask.prompt \o answer
        closes == Places(all, 0, ThinkTags.close)
        opens == Places(all, 0, ThinkTags.open)
    IN  thinking.inside <=> \E o \in opens : \A c \in closes : c < o

(* However the answer is cut into tokens, what is kept between them follows
   the whole text: the tracker stands where the recognizer the tests use puts
   it (dsml_decode_state_for_text), unless it stepped over the first symbol of
   a closing tag, at the end of a token or in a JSON string; and so does
   thinking_state.                                                         *)
TracksReference ==
    /\ phase = "sample" /\ ask.tools /\ ~Missed => dt.decode = StateForText(answer)
    /\ ThinkingFollows

(* A token that starts in the tags of a tool call was taken greedily, also
   when it is a draft, whatever temperature the request or thinking asks
   for; any other token only when the request is cold, or when it came as a
   draft (the choice of temperature at 7117-7134).                         *)
SyntaxIsGreedy ==
    [][answer' # answer /\ ask.tools /\ ~Missed =>
          LET stands == StateForText(answer)
          IN  /\ stands \in {"structural", "json"} => cold'
              /\ stands \notin {"structural", "json"} /\ drafts = 0 => (cold' <=> ~(ask.think \/ ask.warm))
      ]_dtvars
=============================================================================
