----------------------------- MODULE MCHostParts -----------------------------
(***************************************************************************)
(* Parts of the host code that share no state: the stream of a turn, the   *)
(* decode tracker, the tokenizer, the interactive chat, the history a      *)
(* client sends, the CPU pool of ds4, the reader pool and the streamed     *)
(* session of FlashMoE.  A behaviour belongs to one of them, the others    *)
(* stay in one of their initial states.                                    *)
(***************************************************************************)
EXTENDS MCLiveStream, DecodeTracker, Tokenizer, ChatRepl, MCChatHistory, ParallelFor, ReaderPool,
        MCStreamedSession

CONSTANTS t1, t2, m1

VARIABLE part

Parts == {"stream", "tracker", "tokenizer", "chat", "history", "cpu_pool", "readers", "session"}
hostVars == <<part, vars, dtvars, kvars, hvars, cvars, pvars, rvars, fvars>>

-----------------------------------------------------------------------------
(* The tracker: calls in both styles, values with the start of a closing
   tag, of the other style's, or of their own inside a JSON string.         *)
ParamTag(style, string) == Syntax(style).paramStart \o (IF string THEN <<"S">> ELSE <<>>) \o <<">">>
OtherStyle(style) == CHOOSE other \in Styles : other # style
ValuesOf(style) ==
    LET end == Syntax(style).paramEnd
    IN  {ParamTag(style, TRUE) \o <<"x", "<", "/", "q">> \o end,
         ParamTag(style, TRUE) \o Syntax(OtherStyle(style)).paramEnd \o end,
         ParamTag(style, FALSE) \o <<"x", "q", "b", "q", "<", "/", "q">> \o end,
         ParamTag(style, FALSE) \o <<"q">> \o end \o <<"q">> \o end}
CallOf(style, value) ==
    Syntax(style).callsStart \o <<"n">> \o Syntax(style).invokeStart \o <<">">> \o value
        \o Syntax(style).invokeEnd \o Syntax(style).callsEnd
MCOutputs ==
    {before \o call \o after :
        before \in {<<>>, ThinkTags.close, ThinkTags.open \o <<"<">>}, after \in {<<>>, <<"x">>},
        call \in UNION {{CallOf(style, value) : value \in ValuesOf(style)} : style \in Styles}}
    \cup {Syntax("dsml").callsStart \o <<"x">>, <<"<", "D", "<", "T">> \o Syntax("dsml").callsStart}
MCAsks ==
    {[tools |-> TRUE, think |-> h, warm |-> w, prompt |-> ThinkTags.open] : h \in BOOLEAN, w \in BOOLEAN}
    \cup {[tools |-> FALSE, think |-> TRUE, warm |-> FALSE, prompt |-> p] :
              p \in {<<>>, ThinkTags.open \o ThinkTags.close, <<"<", "/">>}}

(* The tokenizer: two letters, one with two bytes, a CJK character of three,
   a digit, white space and a special token.                               *)
MCClassOf == [ch \in {"a", "b", "e", "1", ".", " ", "t", "n", "z", "S"} |->
    CASE ch \in {"a", "b"} -> "alpha" [] ch = "e" -> "accent" [] ch = "1" -> "digit"
      [] ch = "." -> "punct" [] ch = " " -> "blank" [] ch = "t" -> "tab"
      [] ch = "n" -> "newline" [] ch = "z" -> "cjk" [] ch = "S" -> "special"]
MCBytesOf == [ch \in DOMAIN MCClassOf |->
    CASE ch = "e" -> <<"c3", "a9">> [] ch = "z" -> <<"e4", "b8", "ad">> [] OTHER -> <<ch>>]
MCMerges == << << <<"a">>, <<"a">> >>, << <<" ">>, <<"a">> >>, << <<"c3">>, <<"a9">> >>,
               << <<"a", "a">>, <<"b">> >>, << <<"a", "a">>, <<"a", "a">> >>,
               << <<"a">>, <<"b">> >>, << <<".">>, <<"n">> >> >>
MCTexts ==
    UNION {[1..n -> {"a", "e", "1", ".", " ", "t", "n", "z", "S"}] : n \in 0..4}
    \cup [1..5 -> {"a", "b", " "}] \cup [1..6 -> {"a", "b"}] \cup [1..5 -> {"1", " ", "a"}]

(* The chat: tokens that cut both thinking tags. *)
MCPieces == [p \in {"x", "d", "n"} |->
    CASE p = "x" -> <<"x", "<", "/">> [] p = "d" -> <<"t", ">">> [] p = "n" -> <<"n", "<">>]

(* The pools. *)
MCCallLists == {<<5, 1, 4>>, <<2, 3>>}
MCReadLists == {<<[pages |-> 3, split |-> 2], [pages |-> 1, split |-> 4]>>,
                <<[pages |-> 5, split |-> 3]>>}

-----------------------------------------------------------------------------
\* An idle part starts from one of its initial states.
OneOf(of, all, one) == IF part = of THEN all ELSE {one}
PartsInit ==
    /\ part \in Parts
    /\ req \in OneOf("stream", Requests, CHOOSE r \in Requests : TRUE) /\ Init
    /\ ask \in OneOf("tracker", Asks, CHOOSE a \in Asks : TRUE) /\ GInit
    /\ input \in OneOf("tokenizer", Texts, <<>>) /\ KInit
    /\ ctx \in OneOf("chat", CtxSizes, Min(CtxSizes))
    /\ mode \in OneOf("chat", {"none", "high", "max"}, "none") /\ HInit
    /\ client \in OneOf("history", Clients, CHOOSE c \in Clients : TRUE) /\ CInit
    /\ calls \in OneOf("cpu_pool", CallLists, CHOOSE l \in CallLists : TRUE) /\ PInit
    /\ reads \in OneOf("readers", ReadLists, CHOOSE l \in ReadLists : TRUE) /\ RInit
    /\ trace \in OneOf("session", Traces, <<>>) /\ rewind \in OneOf("session", BOOLEAN, TRUE) /\ FInit

Streams(A) == part = "stream" /\ A /\ UNCHANGED <<part, dtvars, kvars, hvars, cvars, pvars, rvars, fvars>>
InPool(A) == part = "cpu_pool" /\ A /\ UNCHANGED <<part, vars, dtvars, kvars, hvars, cvars, rvars, fvars>>
Reads(A) == part = "readers" /\ A /\ UNCHANGED <<part, vars, dtvars, kvars, hvars, cvars, pvars, fvars>>

PartsNext ==
    \/ Streams(Next)
    \/ part = "tracker" /\ GNext /\ UNCHANGED <<part, vars, kvars, hvars, cvars, pvars, rvars, fvars>>
    \/ part = "tokenizer" /\ KNext /\ UNCHANGED <<part, vars, dtvars, hvars, cvars, pvars, rvars, fvars>>
    \/ part = "chat" /\ HNext /\ UNCHANGED <<part, vars, dtvars, kvars, cvars, pvars, rvars, fvars>>
    \/ part = "history" /\ CNext /\ UNCHANGED <<part, vars, dtvars, kvars, hvars, pvars, rvars, fvars>>
    \/ part = "session" /\ FNext /\ UNCHANGED <<part, vars, dtvars, kvars, hvars, cvars, pvars, rvars>>
    \/ InPool(PNext)
    \/ Reads(RNext)

(* The loop of openai_tool_stream_update runs on the worker, which nothing
   suspends; every thread of a pool that can go on does (the scheduler).   *)
PartsSpec ==
    /\ PartsInit /\ [][PartsNext]_hostVars
    /\ WF_hostVars(Streams(StreamTool))
    /\ WF_hostVars(InPool(CallerStep)) /\ \A w \in Workers : WF_hostVars(InPool(WorkerStep(w)))
    /\ WF_hostVars(Reads(OwnerStep)) /\ \A t \in Readers : WF_hostVars(Reads(ReaderStep(t)))

(* Calls return and the shutdown joins every worker; reads are called back,
   drained and the readers joined, whatever order threads are woken in
   (ds4_threads_shutdown, ~ChunkedPreadPool).                           *)
PoolsEnd ==
    /\ part = "cpu_pool" => <>(caller = "gone")
    /\ part = "readers" => <>(owner = "gone")
=============================================================================
