-------------------------- MODULE MCKvCheckpoints --------------------------
(***************************************************************************)
(* A two-letter language for KvCheckpoints: "u" stands for a user turn and *)
(* its markers, "T" for <think>, "E" for </think>, "." for end of sentence *)
(* and "a", "b" for generated text.  "ab" is one token of the tokenizer,   *)
(* so that a sampled "a", "b" and a rendered "ab" spell the same bytes.    *)
(***************************************************************************)
EXTENDS KvCheckpoints

MCVocab == {"u", "T", "E", ".", "a", "b", "ab"}

Piece(t) == IF t = "ab" THEN <<"a", "b">> ELSE <<t>>
MCTextOf(toks) == FoldLeft(LAMBDA text, t : text \o Piece(t), <<>>, toks)

(* Longest match, from the left. *)
Merge(toks, c) ==
    IF toks # <<>> /\ c = "b" /\ Last(toks) = "a" THEN Append(Front(toks), "ab")
    ELSE Append(toks, c)
MCTokenize(text) == FoldLeft(Merge, <<>>, text)

(* A parsed turn may lose a character the renderer does not put back. *)
MCRerendered(text) == {text, IF text = <<>> THEN text ELSE Tail(text)}

(* This tokenizer spells every text, and this renderer renders token by
   token, as the proofs about KvCheckpoints ask; the markers and letters are
   the symbols of texts. *)
MCChars == MCVocab \ {"ab"}
ASSUME TextsAreSpelled ==
    \A text \in BoundedSeq(MCChars, 4) : MCTextOf(MCTokenize(text)) = text
ASSUME TextsAreConcatenated ==
    \A s, t \in BoundedSeq(MCVocab, 2) : MCTextOf(s \o t) = MCTextOf(s) \o MCTextOf(t)

(* A first turn, its continuation with and without the reasoning, another
   conversation, and a prompt over the context. *)
Turn  == <<"u", "a", "T">>
Turn2 == <<"u", "a", "E", "b", ".", "u", "T">>
Turn2b == <<"u", "a", "T", "a", "b", "u">>
Other == <<"u", "b", "b">>
Long  == <<"u", "u", "b", "b", "u", "u", "u", "u", "u", "u">>

PolicyPrompts == {Turn, Turn2, Turn2b, Other, Long}
EvictPrompts == {Turn, Other}
RestartPrompts == {Turn, Turn2b, Other}

Small == [ctx |-> 9, quant |-> 2, chunk |-> 2]
OtherQuant == [ctx |-> 9, quant |-> 4, chunk |-> 2]
OtherChunk == [ctx |-> 9, quant |-> 2, chunk |-> 3]
OtherAll == [ctx |-> 8, quant |-> 2, chunk |-> 3]

OneRun == {Small}
ManyRuns == {Small, OtherQuant, OtherAll}
TwoChunks == {Small, OtherChunk}
=============================================================================
