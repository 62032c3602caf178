-------------------------- MODULE MCEngineSession --------------------------
(* Small instances of EngineSession: two tokens, windows of 3 and 6, chunks  *)
(* of 6, so that prompts of 4 to 10 tokens meet every prefill path and wrap  *)
(* the raw ring.                                                             *)
EXTENDS EngineSession

\* Two conversations that part after the fourth token.
Line(first, n) == [i \in 1 .. n |-> IF i <= 4 THEN i % 2 ELSE (i + first) % 2]
MCPrompts == {Line(0, n) : n \in {3, 4, 6, 9, 10}} \cup {Line(1, n) : n \in {6, 8}}

\* A target model whose choice depends on the length and the last token.
MCGreedy(h) == (Len(h) + h[Len(h)] + (IF Len(h) > 6 THEN h[5] ELSE 0)) % 2

=============================================================================
