------------------------------ MODULE Tokenizer ------------------------------
(***************************************************************************)
(* From rendered text to tokens and back (src/ds4_gb10/ds4.c): special     *)
(* token texts cut the text into spans, a span is cut into pieces, a piece *)
(* is merged byte pair by byte pair.  A character is one unit; its class   *)
(* and its bytes are all the code looks at.  A special token's text is one *)
(* character of class "special".                                           *)
(***************************************************************************)
EXTENDS Integers, Sequences, FiniteSets, FiniteSetsExt, SequencesExt

CONSTANTS
    ClassOf,        \* character -> class
    BytesOf,        \* character -> its bytes
    Printable,      \* bytes that stand for themselves in the vocabulary
    Merges,         \* pairs of byte strings, best rank first
    Texts           \* rendered texts

Chars == DOMAIN ClassOf
Vocab == {<<b>> : b \in UNION {Range(BytesOf[c]) : c \in Chars}}
         \cup {m[1] \o m[2] : m \in Range(Merges)}

VARIABLES
    input,
    span, pos,      \* start of the open span; the next character
    pieces,         \* what the spans were cut into, special tokens included
    toks            \* the tokens; a token is the bytes it stands for

kvars == <<input, span, pos, pieces, toks>>

Class(c) == ClassOf[c]
Blanks == {"blank", "tab", "newline"}
LetterLike == {"alpha", "accent", "cjk"}

-----------------------------------------------------------------------------
(* Cutting a span (bpe_tokenize_text).  s is a sequence of classes. *)
RunEnd(s, i, classes) ==        \* past the longest run of these classes from i on
    Max({j \in i..(Len(s) + 1) : \A k \in i..(j - 1) : s[k] \in classes})
Follows(s, i, classes) == i < Len(s) /\ s[i + 1] \in classes
PunctEnd(s, i) == RunEnd(s, RunEnd(s, i, {"punct"}), {"newline"})

DigitEndAny(s, i) == RunEnd(s, i, {"digit"})    \* mutant: all the digits
DigitEnd(s, i) == Min({RunEnd(s, i, {"digit"}), i + 3})

SpaceEnd(s, i) ==
    LET p == RunEnd(s, i, Blanks)
        newlines == {k \in i..(p - 1) : s[k] = "newline"}
    IN  IF newlines # {} THEN Max(newlines) + 1
        ELSE IF p <= Len(s) /\ p > i + 1 /\ s[p] \in LetterLike \cup {"punct"} THEN p - 1
        ELSE p

PieceEnd(s, i) ==
    CASE s[i] = "digit" -> DigitEnd(s, i)
      [] s[i] = "cjk" -> RunEnd(s, i, {"cjk"})
      [] s[i] = "punct" /\ Follows(s, i, {"alpha"}) -> RunEnd(s, i + 1, {"alpha"})
      [] s[i] \in LetterLike \ {"cjk"} -> RunEnd(s, i, LetterLike)
      [] s[i] \in {"blank", "tab", "other"} /\ Follows(s, i, LetterLike) ->
             RunEnd(s, i + 1, LetterLike)
      [] s[i] = "blank" /\ Follows(s, i, {"punct"}) -> PunctEnd(s, i + 1)
      [] s[i] = "punct" /\ ~Follows(s, i, {"alpha"}) -> PunctEnd(s, i)
      [] s[i] \in Blanks /\ ~(s[i] # "newline" /\ Follows(s, i, LetterLike))
                        /\ ~(s[i] = "blank" /\ Follows(s, i, {"punct"})) -> SpaceEnd(s, i)
      [] OTHER -> i + 1

Classes(chars) == [i \in DOMAIN chars |-> Class(chars[i])]
RECURSIVE PiecesFrom(_, _)
PiecesFrom(chars, i) ==
    IF i > Len(chars) THEN <<>>
    ELSE LET end == PieceEnd(Classes(chars), i)
         IN  <<SubSeq(chars, i, end - 1)>> \o PiecesFrom(chars, end)

-----------------------------------------------------------------------------
(* Merging a piece (bpe_emit_piece). *)
RankOf(a, b) == {r \in DOMAIN Merges : Merges[r] = <<a, b>>}
Mergeable(syms) == {i \in 1..(Len(syms) - 1) : RankOf(syms[i], syms[i + 1]) # {}}
RankAt(syms, i) == Min(RankOf(syms[i], syms[i + 1]))

\* mutant: the last of the pairs that rank best
BestPairLast(syms) ==
    Max({i \in Mergeable(syms) :
            \A j \in Mergeable(syms) : RankAt(syms, i) <= RankAt(syms, j)})
BestPair(syms) ==
    Min({i \in Mergeable(syms) :
            \A j \in Mergeable(syms) : RankAt(syms, i) <= RankAt(syms, j)})

Glued(syms, i) ==
    SubSeq(syms, 1, i - 1) \o <<syms[i] \o syms[i + 1]>> \o SubSeq(syms, i + 2, Len(syms))
RECURSIVE MergedAll(_)
MergedAll(syms) == IF Mergeable(syms) = {} THEN syms ELSE MergedAll(Glued(syms, BestPair(syms)))

(* A symbol the vocabulary lacks is emitted byte by byte, those bytes that
   are tokens by themselves.                                               *)
Emitted(sym) ==
    IF sym \in Vocab THEN <<sym>>
    ELSE LET single == SelectSeq(sym, LAMBDA b : b \in Printable /\ <<b>> \in Vocab)
         IN  [i \in DOMAIN single |-> <<single[i]>>]

PieceBytes(piece) == FlattenSeq([i \in DOMAIN piece |-> BytesOf[piece[i]]])
Symbols(piece) == LET bytes == PieceBytes(piece) IN [i \in DOMAIN bytes |-> <<bytes[i]>>]
TokensOf(piece) ==
    LET syms == MergedAll(Symbols(piece))
    IN  FlattenSeq([i \in DOMAIN syms |-> Emitted(syms[i])])

-----------------------------------------------------------------------------
(* tokenize_rendered_chat_vocab: the scan, and what happens at a special. *)
KInit == input \in Texts /\ span = 1 /\ pos = 1 /\ pieces = <<>> /\ toks = <<>>

Pending == PiecesFrom(SubSeq(input, span, pos - 1), 1)
PendingTokens == FlattenSeq([i \in DOMAIN Pending |-> TokensOf(Pending[i])])

ScanOn ==
    /\ pos <= Len(input) /\ Class(input[pos]) # "special"
    /\ pos' = pos + 1
    /\ UNCHANGED <<input, span, pieces, toks>>

SpanFromHere == pos         \* mutant: the special token's text opens the next span
SpanAfter == pos + 1

TakeSpecial ==
    /\ pos <= Len(input) /\ Class(input[pos]) = "special"
    /\ pieces' = pieces \o Pending \o <<<<input[pos]>>>>
    /\ toks' = toks \o PendingTokens \o <<BytesOf[input[pos]]>>
    /\ pos' = pos + 1 /\ span' = SpanAfter
    /\ UNCHANGED input

LastSpan ==
    /\ pos > Len(input) /\ span <= pos
    /\ pieces' = pieces \o Pending /\ toks' = toks \o PendingTokens
    /\ span' = pos + 1
    /\ UNCHANGED <<input, pos>>

KNext == ScanOn \/ TakeSpecial \/ LastSpan
Tokenized == pos > Len(input) /\ span > pos

(* A token's text (ds4_token_text) is its bytes. *)
TokenText(tok) == tok
Decoded == FlattenSeq([i \in DOMAIN toks |-> TokenText(toks[i])])

-----------------------------------------------------------------------------
(* Reference: the rules as the comment of bpe_tokenize_text lists them, each
   split applied to what the ones before left: digits by three, CJK runs,
   then the first alternative that matches, as long as it can.             *)
Is(s, i, j, classes) == \A k \in i..j : s[k] \in classes
Rule(n, s, i, j) ==
    LET body == IF s[i] = "blank" THEN i + 1 ELSE i
        letters == {"alpha", "accent"}
    IN  CASE n = 1 -> s[i] = "punct" /\ j > i /\ Is(s, i + 1, j, {"alpha"})
          [] n = 2 -> \/ Is(s, i, j, letters)
                      \/ s[i] \in {"blank", "tab", "other"} /\ j > i /\ Is(s, i + 1, j, letters)
          [] n = 3 -> \E m \in body..j : Is(s, body, m, {"punct"}) /\ Is(s, m + 1, j, {"newline"})
          [] n = 4 -> Is(s, i, j, Blanks) /\ s[j] = "newline"
          [] n = 5 -> Is(s, i, j, Blanks) /\ (j < Len(s) => s[j + 1] \in Blanks)
          [] n = 6 -> Is(s, i, j, Blanks)
          [] n = 7 -> j = i
RECURSIVE ByRules(_, _)
ByRules(chars, i) ==
    IF i > Len(chars) THEN <<>>
    ELSE LET s == Classes(chars)
             ends(n) == {j \in i..Len(s) : Rule(n, s, i, j)}
             first == Min({n \in 1..7 : ends(n) # {}})
             end == Max(ends(first))
         IN  <<SubSeq(chars, i, end)>> \o ByRules(chars, end + 1)
Side(c) == IF Class(c) \in {"digit", "cjk", "special"} THEN Class(c) ELSE "rest"
RECURSIVE Segments(_, _)
Segments(chars, i) ==
    IF i > Len(chars) THEN <<>>
    ELSE LET most == CASE Side(chars[i]) = "digit" -> 3
                       [] Side(chars[i]) = "special" -> 1
                       [] OTHER -> Len(chars)
             end == Max({j \in i..Min({Len(chars), i + most - 1}) :
                            \A k \in i..j : Side(chars[k]) = Side(chars[i])})
             part == SubSeq(chars, i, end)
         IN  (IF Side(chars[i]) = "rest" THEN ByRules(part, 1) ELSE <<part>>) \o Segments(chars, end + 1)

(* Texts with a CJK character behind a letter or a space are left out of the
   comparison: the code runs over it with the letters, which the rules of
   ds4.c:14487-14494 do not allow.                                         *)
PlainCjk == \A i \in DOMAIN input :
    Class(input[i]) = "cjk" /\ i > 1 => Class(input[i - 1]) \in {"cjk", "digit", "punct", "newline", "special"}

(* Reference: the merges in the order they were learnt, each on every pair of
   the piece from left to right.                                           *)
RECURSIVE Pass(_, _)
Pass(syms, merge) ==
    IF Len(syms) < 2 THEN syms
    ELSE IF <<syms[1], syms[2]>> = merge
    THEN <<syms[1] \o syms[2]>> \o Pass(SubSeq(syms, 3, Len(syms)), merge)
    ELSE <<syms[1]>> \o Pass(Tail(syms), merge)
RECURSIVE Learnt(_, _)
Learnt(syms, r) == IF r > Len(Merges) THEN syms ELSE Learnt(Pass(syms, Merges[r]), r + 1)

(* A text gets the tokens the model was trained on: it is cut by the rules,
   and a piece is merged as the merges were learnt (bpe_tokenize_text,
   bpe_emit_piece).  And it comes back from its tokens byte for byte: the
   server compares rendered prompts with the text of the tokens it holds
   (ds4_token_text).                                                       *)
TokenizesByRules ==
    Tokenized =>
        /\ Decoded = PieceBytes(input)
        /\ PlainCjk => pieces = Segments(input, 1)
        /\ toks = FlattenSeq([i \in DOMAIN pieces |->
                      IF Class(pieces[i][1]) = "special" THEN <<BytesOf[pieces[i][1]]>>
                      ELSE Learnt(Symbols(pieces[i]), 1)])
=============================================================================
