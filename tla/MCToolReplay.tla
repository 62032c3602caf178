--------------------------- MODULE MCToolReplay ---------------------------
(* Small instances of ToolReplay: three or two ids, two blocks, two texts.  *)
EXTENDS ToolReplay

CONSTANTS a, b, c, e, x, y, z, short, long, c1, c2, worker

MCBlocksIn(t) == IF t = short THEN <<x>> ELSE <<x, y>>

\* Turns of one call or of two parallel calls.
MCCalls == {<<a>>, <<c, e>>}
TwoCalls == {<<a>>, <<b>>}

\* Histories: a turn of two calls, messages that mix calls of two turns.
OneOrMixed == { << <<c, e>> >>, << <<a, c>> >>, << <<e>>, <<c>> >> }
OnlyB == { << <<b>> >> }
=============================================================================
