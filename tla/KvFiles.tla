------------------------------ MODULE KvFiles ------------------------------
(***************************************************************************)
(* The disk KV cache of ds4_server.c as pure operators: what a checkpoint  *)
(* file is, which boundary a store aims at, which file a lookup selects    *)
(* and which one eviction deletes.                                         *)
(*                                                                         *)
(* A file is named by the SHA-1 of the rendered text it stands for; here   *)
(* it is named by that text.  The payload is the exact token history.  A   *)
(* directory is the sequence of its files, the least recently used first,  *)
(* which is all eviction asks of the last-used stamps.                     *)
(***************************************************************************)
EXTENDS Integers, Sequences, SequencesExt, FiniteSetsExt

CONSTANTS
    MinTokens,       \* --kv-cache-min-tokens
    ColdMax,         \* --kv-cache-cold-max-tokens
    Interval,        \* --kv-cache-continued-interval-tokens
    Trim,            \* --kv-cache-boundary-trim-tokens
    Align,           \* --kv-cache-boundary-align-tokens
    RejectQuant,     \* --kv-cache-reject-different-quant
    Budget,          \* --kv-disk-space-mb
    Overhead,        \* size of a file beyond its per-token state
    TextOf(_),       \* the text a token history renders to
    Tokenize(_)      \* ds4_tokenize_rendered_chat

ASSUME OptionsAssumption ==
    /\ MinTokens \in Nat \ {0}
    /\ {ColdMax, Interval, Trim, Align, Budget, Overhead} \subseteq Nat
    /\ RejectQuant \in BOOLEAN

-----------------------------------------------------------------------------
(* Boundaries. *)

(* A cold prompt is stored at a trimmed, aligned prefix when that is long
   enough, otherwise whole. *)
StableLen(n) == IF Align > 0 THEN (n - Trim) - ((n - Trim) % Align) ELSE n - Trim
StoreLen(n) ==
    IF n > MinTokens + Trim /\ StableLen(n) >= MinTokens THEN StableLen(n) ELSE n

(* The continued interval, rounded up to the alignment; 0 disables it. *)
ContinuedStep ==
    IF Interval > 0 /\ Align > 0 THEN ((Interval + Align - 1) \div Align) * Align
    ELSE Interval

(* Whether a live history of n tokens is at an absolute frontier not stored
   since the counter last was set. *)
AtFrontier(n) == ContinuedStep > 0 /\ n >= MinTokens /\ n % ContinuedStep = 0
ContinuedDue(n, last) == AtFrontier(n) /\ n > last

-----------------------------------------------------------------------------
(* Files. *)

(* A process runs with [ctx, quant, chunk]: context size, routed-expert
   quantisation and prefill chunk.  They are recorded in what it stores. *)
NewFile(tokens, run) ==
    [text |-> TextOf(tokens), tokens |-> tokens, hits |-> 0, run |-> run]

FileSize(f) == Overhead + Len(f.tokens)

Total(disk) == FoldSeq(LAMBDA f, n : FileSize(f) + n, 0, disk)

FitsHeader(f, run) ==
    /\ RejectQuant => f.run.quant = run.quant
    /\ f.run.ctx <= run.ctx

(* ds4_session_load_payload accepts the payload: it checks the chunk layout
   and the token count as well as the context. *)
Loadable(f, run) ==
    /\ f.run.ctx <= run.ctx
    /\ f.run.chunk = run.chunk
    /\ Len(f.tokens) < run.ctx

Named(disk, text) == {i \in DOMAIN disk : disk[i].text = text}

(* The longest stored text that is a prefix of the prompt. *)
Candidates(disk, prompt, run) ==
    {i \in DOMAIN disk : /\ IsPrefix(disk[i].text, prompt)
                         /\ Len(disk[i].tokens) >= MinTokens
                         /\ FitsHeader(disk[i], run)}
AnyPrefix(disk, prompt, run) == Candidates(disk, prompt, run)
TextPrefixes(disk, prompt, run) ==
    LET C == Candidates(disk, prompt, run)
    IN  {i \in C : \A j \in C : Len(disk[j].text) <= Len(disk[i].text)}

(* Eviction: the lowest (hits + 1) * tokens / size, the least recently used
   among equals. *)
ScoreBelow(f, g) ==
    (f.hits + 1) * Len(f.tokens) * FileSize(g) < (g.hits + 1) * Len(g.tokens) * FileSize(f)
Victim(disk) ==
    CHOOSE i \in DOMAIN disk :
        /\ \A j \in DOMAIN disk : ~ScoreBelow(disk[j], disk[i])
        /\ \A j \in 1 .. (i - 1) : ScoreBelow(disk[i], disk[j])

(* A hit deletes a file longer than the cold limit, and otherwise counts the
   hit and makes the file the most recently used. *)
Consumed(f) == ColdMax > 0 /\ Len(f.tokens) > ColdMax
AfterHit(disk, i) ==
    IF Consumed(disk[i]) THEN RemoveAt(disk, i)
    ELSE Append(RemoveAt(disk, i), [disk[i] EXCEPT !.hits = @ + 1])
=============================================================================
