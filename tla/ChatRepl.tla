------------------------------- MODULE ChatRepl -------------------------------
(***************************************************************************)
(* The interactive chat of src/ds4_gb10/ds4_cli.c: a transcript of tokens  *)
(* that turns extend and roll back, the session that has evaluated a       *)
(* prefix of it, the thinking prefix that comes and goes, Ctrl+C at any    *)
(* moment, and the printer that takes thinking tags out of the reply.      *)
(* The session is what EngineSession promises: sync ends with exactly the  *)
(* prompt evaluated, or fails.                                             *)
(***************************************************************************)
EXTENDS Integers, Sequences, FiniteSets

CONSTANTS
    Messages,       \* what the user may type
    Pieces,         \* reply token -> its characters
    System,         \* TRUE: a system prompt is given
    CtxSizes,       \* arguments of /ctx, and the first context size
    MaxModeCtx,     \* DS4_THINK_MAX_MIN_CONTEXT
    PrefixLen,      \* tokens of the Think Max prefix
    Predict,        \* n_predict
    Drafts,         \* TRUE: several tokens may be accepted at once
    TurnBound, CommandBound, SignalBound, FailureBound

ASSUME ChatAssumption ==
    /\ Pieces \in [DOMAIN Pieces -> Seq(STRING)] /\ System \in BOOLEAN
    /\ CtxSizes \subseteq Nat /\ PrefixLen \in Nat /\ Predict \in Nat
    /\ TurnBound \in Nat /\ CommandBound \in Nat /\ SignalBound \in Nat /\ FailureBound \in Nat

VARIABLES
    at,             \* prompt, sync, decode, quit
    transcript,
    prefixLen,      \* chat.max_prefix_tokens
    mode, ctx,
    session,        \* open, valid, the tokens evaluated
    turn,           \* rollback length, tokens generated and allowed, thinking
    interrupted,    \* cli_interrupted
    printer,
    left            \* turns, commands, signals, failures left

hvars == <<at, transcript, prefixLen, mode, ctx, session, turn, interrupted, printer, left>>

Bos == <<"bos">>
Eos == <<"eos">>
MaxToken == <<"max">>
SystemToken == <<"system">>
User(m) == <<"user", m>>
Assistant(think) == <<"assistant", think>>
Reply(p) == <<"reply", p>>

Effective(m, c) == IF m = "max" /\ c < MaxModeCtx THEN "high" ELSE m
Thinks(m) == m # "none"

-----------------------------------------------------------------------------
(* The transcript.  Prefix tokens go behind BOS. *)
Repeated(tok, n) == [i \in 1..n |-> tok]
WithPrefix(tokens, on) ==
    LET body == SubSeq(tokens, 2 + prefixLen, Len(tokens))
    IN  <<Bos>> \o (IF on THEN Repeated(MaxToken, PrefixLen) ELSE <<>>) \o body
Invalid(s) == [s EXCEPT !.valid = FALSE, !.tokens = <<>>]

ApplyPrefix(on) ==          \* repl_chat_apply_max_prefix
    /\ prefixLen' = IF on THEN PrefixLen ELSE 0
    /\ transcript' = WithPrefix(transcript, on)

Toggled(on) == on # (prefixLen > 0)
AfterToggleAsIs(s, on) == s     \* mutant: the session is not told
AfterToggle(s, on) == IF Toggled(on) THEN Invalid(s) ELSE s

-----------------------------------------------------------------------------
(* The printer: tags are three and four characters. *)
ThinkTag == <<"<", "t", ">">>
EndThinkTag == <<"<", "/", "t", ">">>
HasPrefix(chars, tag) == Len(chars) >= Len(tag) /\ SubSeq(chars, 1, Len(tag)) = tag
PartialOpenOnly(chars) ==   \* mutant: the end of thinking is not waited for
    Len(chars) < Len(ThinkTag) /\ SubSeq(ThinkTag, 1, Len(chars)) = chars
Partial(chars) ==
    \E tag \in {ThinkTag, EndThinkTag} : Len(chars) < Len(tag) /\ SubSeq(tag, 1, Len(chars)) = chars
Behind(chars, n) == SubSeq(chars, n + 1, Len(chars))
PutNewline(p) ==
    IF p.newline THEN p ELSE [p EXCEPT !.out = Append(@, <<"n", FALSE>>), !.newline = TRUE]

(* One round of the loop of token_printer_process over what is pending: a tag,
   the beginning of one that has to wait, or a character.                  *)
Round(p, finish) ==
    IF p.pending = <<>> THEN p
    ELSE IF HasPrefix(p.pending, ThinkTag)
    THEN [p EXCEPT !.thinking = TRUE, !.pending = Behind(@, Len(ThinkTag))]
    ELSE IF HasPrefix(p.pending, EndThinkTag)
    THEN PutNewline([p EXCEPT !.thinking = FALSE, !.pending = Behind(@, Len(EndThinkTag))])
    ELSE IF ~finish /\ Partial(p.pending) THEN p
    ELSE [p EXCEPT !.out = Append(@, <<p.pending[1], p.thinking>>),
                   !.newline = p.pending[1] = "n", !.pending = Tail(@)]
Process(p, finish) ==           \* no round takes nothing but the last
    LET after[k \in 0..Len(p.pending)] == IF k = 0 THEN p ELSE Round(after[k - 1], finish)
    IN  after[Len(p.pending)]
Printed(p, chars) ==           \* token_printer_write_text
    LET q == [p EXCEPT !.text = @ \o chars]
    IN  IF p.format THEN Process([q EXCEPT !.pending = @ \o chars], FALSE)
        ELSE [q EXCEPT !.out = @ \o [i \in DOMAIN chars |-> <<chars[i], FALSE>>],
                       !.newline = IF chars = <<>> THEN @ ELSE chars[Len(chars)] = "n"]
Finished(p) ==                  \* generation_done
    PutNewline(IF p.format THEN Process(p, TRUE) ELSE p)
FreshPrinter(think) ==
    [format |-> think, thinking |-> think, newline |-> TRUE, pending |-> <<>>,
     out |-> <<>>, text |-> <<>>]

-----------------------------------------------------------------------------
(* Commands. *)
SetMode(m) ==       \* /think, /think-max, /nothink
    LET on == Effective(m, ctx) = "max"
    IN  /\ at = "prompt" /\ left.commands > 0 /\ m # mode
        /\ mode' = m
        /\ ApplyPrefix(on)
        /\ session' = AfterToggle(session, on)
        /\ left' = [left EXCEPT !.commands = @ - 1]
        /\ UNCHANGED <<at, ctx, turn, interrupted, printer>>

(* The old session goes first; without a new one the chat ends. *)
SetCtx(c) ==
    /\ at = "prompt" /\ left.commands > 0 /\ c # ctx
    /\ \/ /\ session' = [open |-> TRUE, valid |-> FALSE, tokens |-> <<>>]
          /\ ctx' = c
          /\ ApplyPrefix(Effective(mode, c) = "max")
          /\ left' = [left EXCEPT !.commands = @ - 1]
          /\ UNCHANGED at
       \/ /\ left.failures > 0
          /\ session' = [open |-> FALSE, valid |-> FALSE, tokens |-> <<>>]
          /\ at' = "quit" /\ ctx' = 0
          /\ left' = [left EXCEPT !.commands = @ - 1, !.failures = @ - 1]
          /\ UNCHANGED <<transcript, prefixLen>>
    /\ UNCHANGED <<mode, turn, interrupted, printer>>

Signal ==
    /\ at # "quit" /\ left.signals > 0 /\ ~interrupted
    /\ interrupted' = TRUE
    /\ left' = [left EXCEPT !.signals = @ - 1]
    /\ UNCHANGED <<at, transcript, prefixLen, mode, ctx, session, turn, printer>>

(* The line editor returns without a line: Ctrl+C at the prompt. *)
NoLine ==
    /\ at = "prompt" /\ interrupted
    /\ interrupted' = FALSE
    /\ UNCHANGED <<at, transcript, prefixLen, mode, ctx, session, turn, printer, left>>

Quit ==
    /\ at = "prompt" /\ at' = "quit"
    /\ session' = [open |-> FALSE, valid |-> FALSE, tokens |-> <<>>]
    /\ UNCHANGED <<transcript, prefixLen, mode, ctx, turn, interrupted, printer, left>>

-----------------------------------------------------------------------------
(* A turn (run_chat_turn). *)
BeginTurn(m) ==
    LET think == Effective(mode, ctx)
        on == think = "max"
        base == WithPrefix(transcript, on)
    IN  /\ at = "prompt" /\ left.turns > 0
        /\ prefixLen' = IF on THEN PrefixLen ELSE 0
        /\ transcript' = base \o <<User(m), Assistant(Thinks(think))>>
        /\ session' = AfterToggle(session, on)
        /\ turn' = [rollback |-> Len(base), generated |-> 0, limit |-> 0, think |-> Thinks(think)]
        /\ left' = [left EXCEPT !.turns = @ - 1]
        /\ at' = "sync"
        /\ UNCHANGED <<mode, ctx, interrupted, printer>>

Least(a, b) == IF a <= b THEN a ELSE b
KeptWhole == transcript     \* mutant: a turn that fails stays
Kept == SubSeq(transcript, 1, turn.rollback)

(* ds4_session_sync; a prompt as long as the context is refused, a prefill
   that fails leaves nothing to go on from.                                *)
Synced ==
    /\ at = "sync" /\ Len(transcript) < ctx
    /\ session' = [session EXCEPT !.valid = TRUE, !.tokens = transcript]
    /\ turn' = [turn EXCEPT !.limit =
           LET room == ctx - Len(transcript)
           IN  IF room <= 1 THEN 0 ELSE Least(Predict, room - 1)]
    /\ printer' = FreshPrinter(turn.think)
    /\ at' = "decode"
    /\ UNCHANGED <<transcript, prefixLen, mode, ctx, interrupted, left>>

SyncFails ==
    /\ at = "sync"
    /\ \/ Len(transcript) >= ctx /\ UNCHANGED <<session, left>>
       \/ /\ Len(transcript) < ctx /\ left.failures > 0
          /\ session' = [session EXCEPT !.valid = FALSE]
          /\ left' = [left EXCEPT !.failures = @ - 1]
    /\ transcript' = Kept
    /\ at' = "prompt"
    /\ UNCHANGED <<prefixLen, mode, ctx, turn, interrupted, printer>>

MoreWanted == turn.generated < turn.limit /\ ~interrupted

(* One token, or as many as the drafter had right, the last possibly EOS;
   the loop looks at the signal between calls only.                        *)
Accepts(said, ended) ==
    /\ session' = [session EXCEPT !.tokens = @ \o said \o (IF ended THEN <<Eos>> ELSE <<>>)]
    /\ transcript' = transcript \o said
    /\ LET first == Printed(printer, Pieces[said[1][2]])
       IN  printer' = IF Len(said) = 1 THEN first ELSE Printed(first, Pieces[said[2][2]])
    /\ turn' = [turn EXCEPT !.generated = @ + Len(said), !.limit = IF ended THEN 0 ELSE @]

Decode ==
    /\ at = "decode" /\ MoreWanted
    /\ \E p \in DOMAIN Pieces :
          \/ Accepts(<<Reply(p)>>, FALSE)
          \/ /\ Drafts
             /\ \E q \in DOMAIN Pieces :
                   turn.limit - turn.generated >= 2 /\ Accepts(<<Reply(p), Reply(q)>>, FALSE)
          \/ /\ Drafts /\ turn.limit - turn.generated >= 2
             /\ Accepts(<<Reply(p)>>, TRUE)
    /\ UNCHANGED <<at, prefixLen, mode, ctx, interrupted, left>>

(* The transcript keeps the part of the reply that was generated. *)
DecodeFails ==
    /\ at = "decode" /\ MoreWanted /\ left.failures > 0
    /\ session' = [session EXCEPT !.valid = FALSE]
    /\ at' = "prompt"
    /\ left' = [left EXCEPT !.failures = @ - 1]
    /\ UNCHANGED <<transcript, prefixLen, mode, ctx, turn, interrupted, printer>>

EndsTurn ==
    IF interrupted /\ turn.generated = 0
    THEN transcript' = Kept /\ session' = Invalid(session)
    ELSE transcript' = Append(transcript, Eos) /\ UNCHANGED session

(* EOS was sampled, the limit is reached or the signal seen. *)
EndTurn ==
    /\ at = "decode"
    /\ printer' = Finished(printer)
    /\ EndsTurn
    /\ interrupted' = FALSE
    /\ at' = "prompt"
    /\ UNCHANGED <<prefixLen, mode, ctx, turn, left>>

HInit ==
    /\ at = "prompt" /\ ctx \in CtxSizes /\ mode \in {"none", "high", "max"}
    /\ prefixLen = IF Effective(mode, ctx) = "max" THEN PrefixLen ELSE 0
    /\ transcript = <<Bos>> \o Repeated(MaxToken, prefixLen)
                    \o (IF System THEN <<SystemToken>> ELSE <<>>)
    /\ session = [open |-> TRUE, valid |-> FALSE, tokens |-> <<>>]
    /\ turn = [rollback |-> 0, generated |-> 0, limit |-> 0, think |-> FALSE]
    /\ interrupted = FALSE
    /\ printer = FreshPrinter(FALSE)
    /\ left = [turns |-> TurnBound, commands |-> CommandBound, signals |-> SignalBound,
               failures |-> FailureBound]

HNext ==
    \/ \E m \in {"none", "high", "max"} : SetMode(m)
    \/ \E c \in CtxSizes : SetCtx(c)
    \/ Signal \/ NoLine \/ Quit
    \/ \E m \in Messages : BeginTurn(m)
    \/ Synced \/ SyncFails \/ Decode \/ DecodeFails \/ EndTurn

-----------------------------------------------------------------------------
(* Turns that count are whole: at the prompt the transcript is BOS, the
   prefix exactly when Think Max is in force, the system prompt, and turns
   of a message and a reply; a reply without its end is one whose decoding
   failed, and none is left of a turn that was refused or interrupted before
   its first token (run_chat_turn).                                        *)
BodyOf(tokens) == SubSeq(tokens, 2 + prefixLen + (IF System THEN 1 ELSE 0), Len(tokens))
WholeTurns(body) ==
    \A i \in DOMAIN body :
        CASE body[i][1] = "user" ->
                 i < Len(body) /\ body[i + 1][1] = "assistant" /\ (i > 1 => body[i - 1][1] # "user")
          [] body[i][1] = "assistant" -> i > 1 /\ body[i - 1][1] = "user"
          [] body[i][1] = "reply" -> i > 1 /\ body[i - 1][1] \in {"assistant", "reply"}
          [] body[i][1] = "eos" -> i > 1 /\ body[i - 1][1] \in {"assistant", "reply"}
          [] OTHER -> FALSE
OpenTurns(body) ==
    Cardinality({i \in DOMAIN body :
        body[i][1] \in {"assistant", "reply"} /\ (i = Len(body) \/ body[i + 1][1] = "user")})
TranscriptWhole ==
    at = "prompt" =>
        /\ prefixLen = IF Effective(mode, ctx) = "max" THEN PrefixLen ELSE 0
        /\ SubSeq(transcript, 1, 1 + prefixLen) = <<Bos>> \o Repeated(MaxToken, prefixLen)
        /\ System => transcript[2 + prefixLen] = SystemToken
        /\ WholeTurns(BodyOf(transcript))
        /\ OpenTurns(BodyOf(transcript)) <= FailureBound - left.failures
        /\ Cardinality({i \in DOMAIN transcript : transcript[i][1] = "user"})
               <= TurnBound - left.turns

(* The conversation is continued, not evaluated again: the transcript stays
   whole, and a session that is valid has evaluated the beginning of it
   whatever was rolled back, interrupted, refused or drafted, and wherever
   the thinking prefix went, and exactly the transcript while a token is
   being chosen (run_chat_turn, repl_chat_apply_max_prefix).               *)
IsBeginning(short, long) == Len(short) <= Len(long) /\ SubSeq(long, 1, Len(short)) = short
ContinuesTranscript ==
    /\ session.valid /\ at \in {"prompt", "sync"} => IsBeginning(session.tokens, transcript)
    /\ at = "decode" /\ MoreWanted => session.valid /\ session.tokens = transcript
    /\ TranscriptWhole

(* The reply is printed as if it had come in one piece: no tag is shown, no
   character lost, and what is thinking is greyed, wherever tokens cut the
   tags (token_printer_process).                                           *)
PrintedWhole(p, think) ==
    PutNewline(IF think THEN Process([FreshPrinter(TRUE) EXCEPT !.pending = p.text], TRUE)
               ELSE Printed(FreshPrinter(FALSE), p.text))
PrintsAsWhole ==
    at = "prompt" /\ transcript[Len(transcript)] = Eos /\ printer.text # <<>> =>
        printer.out = PrintedWhole(printer, printer.format).out
=============================================================================
