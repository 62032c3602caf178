-------------------------- MODULE LiveStreamProofs --------------------------
(***************************************************************************)
(* Two facts about a streamed turn, for any requests, any texts, tokens of *)
(* any length and any window: what was sent can stand, unless a stop       *)
(* sequence runs over the end of a marker; and the blocks of an Anthropic  *)
(* message come one after the other and are closed.                        *)
(***************************************************************************)
EXTENDS LiveStream, NatProofs, FiniteSetTheorems, SequenceTheorems

(* Strings; the provers do not know of a literal that it is one. *)
Symbols == STRING \cup {"<", "O", "C", "S", "E", "I", "i", "P", "p", ">"}

LEMMA StringsAre == Seq(STRING) \subseteq Seq(Symbols)
BY SeqMonotonic DEF Symbols

-----------------------------------------------------------------------------
(* Least and greatest places. *)

LEMMA MinIs ==
    ASSUME NEW T, NEW B \in Int, T \subseteq Int, T # {}, \A n \in T : B <= n
    PROVE  Min(T) \in T /\ \A n \in T : Min(T) <= n
<1> DEFINE D == {n - B : n \in T}
<1>0. \A n \in T : n \in Int /\ n - B \in Nat /\ n - B \in D
    OBVIOUS
<1>1. D \subseteq Nat /\ D # {}
    BY <1>0
<1>2. PICK d \in D : \A e \in D : d <= e
    BY <1>1, LeastNat, Zenon
<1>3. PICK m \in T : d = m - B
    BY <1>2
<1>4. \A n \in T : d <= n - B
    BY <1>0, <1>2
<1>5. \A n \in T : m <= n
    BY <1>0, <1>3, <1>4
<1> HIDE DEF D
<1> QED
    BY <1>5, Zenon DEF Min

LEMMA MaxIs ==
    ASSUME NEW T, NEW B \in Int, T \subseteq Int, T # {}, \A n \in T : n <= B
    PROVE  Max(T) \in T /\ \A n \in T : Max(T) >= n
<1> DEFINE D == {B - n : n \in T}
<1>0. \A n \in T : n \in Int /\ B - n \in Nat /\ B - n \in D
    OBVIOUS
<1>1. D \subseteq Nat /\ D # {}
    BY <1>0
<1>2. PICK d \in D : \A e \in D : d <= e
    BY <1>1, LeastNat, Zenon
<1>3. PICK m \in T : d = B - m
    BY <1>2
<1>4. \A n \in T : d <= B - n
    BY <1>0, <1>2
<1>5. \A n \in T : m >= n
    BY <1>0, <1>3, <1>4
<1> HIDE DEF D
<1> QED
    BY <1>5, Zenon DEF Max

LEMMA MaxOfTwo ==
    ASSUME NEW a \in Int, NEW b \in Int
    PROVE  Max({a, b}) = IF a <= b THEN b ELSE a
<1>1. PICK c \in Int : a <= c /\ b <= c
  <2>1. CASE a <= b BY <2>1
  <2>2. CASE ~(a <= b) BY <2>2
  <2> QED BY <2>1, <2>2
<1>2. Max({a, b}) \in {a, b} /\ \A n \in {a, b} : Max({a, b}) >= n
    BY <1>1, MaxIs
<1> QED
    BY <1>2

(* A finite set of sequences has a longest one. *)
LEMMA LengthsBounded ==
    ASSUME NEW S \in SUBSET Seq(Symbols), IsFiniteSet(S)
    PROVE  \E b \in Nat : \A s \in S : Len(s) <= b
<1>0. PICK n \in Nat : ExistsSurjection(1..n, S)
    BY FS_NatSurjection
<1>1. PICK f \in [1..n -> S] : \A s \in S : \E i \in 1..n : f[i] = s
  <2>1. PICK f \in Surjection(1..n, S) : TRUE
    BY <1>0 DEF ExistsSurjection
  <2>2. f \in [1..n -> S] /\ \A s \in S : \E i \in 1..n : f[i] = s
    BY <2>1 DEF Surjection
  <2> QED
    BY <2>2
<1> DEFINE T == {k \in 0..n : \E b \in Nat : \A i \in 1..k : Len(f[i]) <= b}
<1>2. 0 \in T
    OBVIOUS
<1>3. ASSUME NEW k \in 0..n - 1, k \in T PROVE k + 1 \in T
  <2>1. PICK b \in Nat : \A i \in 1..k : Len(f[i]) <= b
    BY <1>3
  <2>2. f[k + 1] \in S /\ Len(f[k + 1]) \in Nat
    BY LenProperties
  <2>3. PICK c \in Nat : c = IF b <= Len(f[k + 1]) THEN Len(f[k + 1]) ELSE b
    BY <2>2
  <2>4. \A i \in 1..k : f[i] \in S /\ Len(f[i]) \in Nat
    BY LenProperties
  <2>5. \A i \in 1..k + 1 : Len(f[i]) <= c
    BY <2>1, <2>2, <2>3, <2>4
  <2> QED
    BY <2>5
<1> HIDE DEF T
<1>4. \A k \in 0..n : k \in T
    BY <1>2, <1>3, InductUpTo
<1>5. n \in T
    BY <1>4
<1>6. PICK b \in Nat : \A i \in 1..n : Len(f[i]) <= b
    BY <1>5 DEF T
<1> QED
    BY <1>1, <1>6
-----------------------------------------------------------------------------
(* Parts of texts. *)

(* s begins with l. *)
Leads(l, s) == Len(l) <= Len(s) /\ \A i \in 1..Len(l) : l[i] = s[i]

LEMMA PartIs ==
    ASSUME NEW s \in Seq(Symbols), NEW from \in Nat, NEW upto \in Nat, upto <= Len(s)
    PROVE  /\ Part(s, from, upto) \in Seq(Symbols)
           /\ Len(Part(s, from, upto)) = IF from < upto THEN upto - from ELSE 0
           /\ \A i \in 1..upto - from : Part(s, from, upto)[i] = s[from + i]
<1>1. Len(s) \in Nat
    BY LenProperties
<1>2. from + 1 \in Int /\ upto \in Int /\ \A i \in from + 1 .. upto : i \in 1..Len(s)
    BY <1>1
<1>3. \A i \in from + 1 .. upto : s[i] \in Symbols
    BY <1>2, ElementOfSeq
<1>4. /\ Part(s, from, upto) \in Seq(Symbols)
      /\ Len(Part(s, from, upto)) = IF from + 1 <= upto THEN upto - (from + 1) + 1 ELSE 0
      /\ \A i \in 1..upto - (from + 1) + 1 : Part(s, from, upto)[i] = s[from + 1 + i - 1]
    BY <1>2, <1>3, SubSeqProperties DEF Part
<1>5. upto - (from + 1) + 1 = upto - from /\ \A i \in 1..upto - from : from + 1 + i - 1 = from + i
    OBVIOUS
<1> QED
    BY <1>4, <1>5

LEMMA PartLeads ==
    ASSUME NEW s \in Seq(Symbols), NEW upto \in 0..Len(s)
    PROVE  /\ Part(s, 0, upto) \in Seq(Symbols) /\ Len(Part(s, 0, upto)) = upto
           /\ Leads(Part(s, 0, upto), s)
<1>1. Len(s) \in Nat /\ upto \in Nat /\ upto <= Len(s) /\ 0 \in Nat
    BY LenProperties
<1>2. /\ Part(s, 0, upto) \in Seq(Symbols)
      /\ Len(Part(s, 0, upto)) = IF 0 < upto THEN upto - 0 ELSE 0
      /\ \A i \in 1..upto - 0 : Part(s, 0, upto)[i] = s[0 + i]
    BY <1>1, PartIs
<1> QED
    BY <1>1, <1>2 DEF Leads

LEMMA LeadsOn ==
    ASSUME NEW l \in Seq(Symbols), NEW m \in Seq(Symbols), NEW s \in Seq(Symbols), Leads(l, m), Leads(m, s)
    PROVE  Leads(l, s)
<1>1. Len(l) \in Nat /\ Len(m) \in Nat /\ Len(s) \in Nat
    BY LenProperties
<1> QED
    BY <1>1 DEF Leads

(* A literal of two symbols lies at a place. *)
LEMMA AtIs ==
    ASSUME NEW s \in Seq(Symbols), NEW p \in Nat, NEW lit \in Seq(Symbols)
    PROVE  At(s, p, lit) <=> p + Len(lit) <= Len(s) /\ \A i \in 1..Len(lit) : s[p + i] = lit[i]
<1>1. Len(s) \in Nat /\ Len(lit) \in Nat
    BY LenProperties
<1>2. CASE p + Len(lit) <= Len(s)
  <2>1. /\ Part(s, p, p + Len(lit)) \in Seq(Symbols)
        /\ Len(Part(s, p, p + Len(lit))) = IF p < p + Len(lit) THEN p + Len(lit) - p ELSE 0
        /\ \A i \in 1..p + Len(lit) - p : Part(s, p, p + Len(lit))[i] = s[p + i]
    BY <1>1, <1>2, PartIs
  <2>2. p + Len(lit) - p = Len(lit)
    BY <1>1
  <2>3. Len(Part(s, p, p + Len(lit))) = Len(lit)
    BY <1>1, <2>1
  <2>4. Part(s, p, p + Len(lit)) = lit <=> \A i \in 1..Len(lit) : Part(s, p, p + Len(lit))[i] = lit[i]
    BY <2>1, <2>3, SeqEqual
  <2> QED
    BY <1>2, <2>1, <2>2, <2>4 DEF At
<1>3. CASE ~(p + Len(lit) <= Len(s))
    BY <1>3 DEF At
<1> QED
    BY <1>2, <1>3

LEMMA AtLonger ==
    ASSUME NEW l \in Seq(Symbols), NEW s \in Seq(Symbols), Leads(l, s), NEW p \in Nat,
           NEW lit \in Seq(Symbols)
    PROVE  /\ At(l, p, lit) => At(s, p, lit)
           /\ At(s, p, lit) /\ p + Len(lit) <= Len(l) => At(l, p, lit)
<1>1. Len(s) \in Nat /\ Len(lit) \in Nat /\ Len(l) \in Nat
    BY LenProperties
<1>2. At(l, p, lit) <=> p + Len(lit) <= Len(l) /\ \A i \in 1..Len(lit) : l[p + i] = lit[i]
    BY AtIs
<1>3. At(s, p, lit) <=> p + Len(lit) <= Len(s) /\ \A i \in 1..Len(lit) : s[p + i] = lit[i]
    BY AtIs
<1>4. p + Len(lit) <= Len(l) => \A i \in 1..Len(lit) : p + i \in 1..Len(l) /\ l[p + i] = s[p + i]
    BY <1>1 DEF Leads
<1> QED
    BY <1>1, <1>2, <1>3, <1>4 DEF Leads

LEMMA MarksAre ==
    ASSUME NEW s \in Seq(Symbols), NEW lit \in Seq(Symbols), NEW from \in Nat
    PROVE  /\ Marks(s, lit, from) \subseteq Nat
           /\ \A p \in Nat : p \in Marks(s, lit, from) <=> from <= p /\ At(s, p, lit)
           /\ \A p \in Marks(s, lit, from) : p + Len(lit) <= Len(s)
<1>1. Len(s) \in Nat /\ Len(lit) \in Nat
    BY LenProperties
<1>2. \A p \in Nat : At(s, p, lit) => p + Len(lit) <= Len(s)
    BY DEF At
<1> QED
    BY <1>1, <1>2 DEF Marks

LEMMA MarkedAt ==
    ASSUME NEW s \in Seq(Symbols), NEW lit \in Seq(Symbols), NEW from \in Nat, Marks(s, lit, from) # {}
    PROVE  /\ Min(Marks(s, lit, from)) \in Nat /\ from <= Min(Marks(s, lit, from))
           /\ At(s, Min(Marks(s, lit, from)), lit)
           /\ Min(Marks(s, lit, from)) + Len(lit) <= Len(s)
<1>1. Marks(s, lit, from) \subseteq Nat
    BY MarksAre
<1>2. Min(Marks(s, lit, from)) \in Marks(s, lit, from)
    BY <1>1, MinIs
<1> QED
    BY <1>1, <1>2, MarksAre

(* Characters are whole but at the end of a text. *)
LEMMA CharactersLead ==
    ASSUME NEW l \in Seq(Symbols), NEW s \in Seq(Symbols), Leads(l, s), Characters(s)
    PROVE  Characters(l)
<1>1. Len(l) \in Nat /\ Len(s) \in Nat
    BY LenProperties
<1> QED
    BY <1>1 DEF Leads, Characters

LEMMA WholeCharsIs ==
    ASSUME NEW s \in Seq(Symbols), Characters(s), NEW from \in Nat, NEW limit \in 0..Len(s)
    PROVE  /\ WholeChars(s, from, limit) \in 0..limit
           /\ from <= limit => from <= WholeChars(s, from, limit)
           /\ WholeChars(s, from, limit) > from => s[WholeChars(s, from, limit)] # "u"
<1>1. Len(s) \in Nat /\ limit \in Nat /\ limit <= Len(s)
    BY LenProperties
<1>2. CASE limit > from /\ s[limit] = "u"
  <2>1. WholeChars(s, from, limit) = limit - 1 /\ limit - 1 \in Nat
    BY <1>1, <1>2 DEF WholeChars
  <2>2. ASSUME limit - 1 > from, s[limit - 1] = "u" PROVE FALSE
    <3>1. limit - 1 \in 1..Len(s) - 1 /\ limit - 1 + 1 = limit
      BY <1>1, <2>2
    <3>2. s[limit] = "v"
      BY <2>2, <3>1 DEF Characters
    <3> QED BY <1>2, <3>2
  <2> QED BY <1>1, <1>2, <2>1, <2>2
<1>3. CASE ~(limit > from /\ s[limit] = "u")
  <2>1. WholeChars(s, from, limit) = limit
    BY <1>3 DEF WholeChars
  <2> QED BY <1>1, <1>3, <2>1
<1> QED
    BY <1>2, <1>3

LEMMA TrimmedIs ==
    ASSUME NEW s \in Seq(Symbols), NEW from \in Nat, NEW limit \in 0..Len(s)
    PROVE  /\ Trimmed(s, from, limit) \in Nat /\ from <= Trimmed(s, from, limit)
           /\ Trimmed(s, from, limit) = from \/ Trimmed(s, from, limit) <= limit
           /\ Trimmed(s, from, limit) > from => s[Trimmed(s, from, limit)] \notin Space
           /\ \A p \in Trimmed(s, from, limit) + 1 .. limit : s[p] \in Space
<1> DEFINE T == {from} \cup {p \in from + 1 .. limit : s[p] \notin Space}
<1>1. Len(s) \in Nat /\ limit \in Nat
    BY LenProperties
<1>2. PICK b \in Nat : from <= b /\ limit <= b
  <2>1. from + limit \in Nat /\ from <= from + limit /\ limit <= from + limit
    BY <1>1
  <2> QED BY <2>1
<1>3. T \subseteq Int /\ T # {} /\ \A n \in T : n <= b
    BY <1>1, <1>2
<1>4. Max(T) \in T /\ \A n \in T : Max(T) >= n
    BY <1>2, <1>3, MaxIs
<1>5. Trimmed(s, from, limit) = Max(T)
    BY DEF Trimmed
<1>6. PICK t \in T : t = Max(T)
    BY <1>4
<1>7. t = from \/ (t \in from + 1 .. limit /\ s[t] \notin Space)
    OBVIOUS
<1>8. \A p \in from + 1 .. limit : s[p] \notin Space => p <= t
    BY <1>1, <1>4, <1>6, <1>7
<1>9. from <= t
    BY <1>7
<1>10. ASSUME NEW p \in t + 1 .. limit, s[p] \notin Space PROVE FALSE
    BY <1>1, <1>7, <1>8, <1>9, <1>10
<1> QED
    BY <1>1, <1>5, <1>6, <1>7, <1>9, <1>10

LEMMA SkipIs ==
    ASSUME NEW s, NEW from \in Nat, NEW limit \in Nat
    PROVE  SkipSpace(s, from, limit) \in 0..limit /\ (from <= limit => from <= SkipSpace(s, from, limit))
<1> DEFINE T == {limit} \cup {p \in from .. limit - 1 : s[p + 1] \notin Space}
<1>1. T \subseteq Int /\ T # {} /\ \A n \in T : 0 <= n /\ n <= limit /\ (from <= limit => from <= n)
    OBVIOUS
<1>2. Min(T) \in T
    BY <1>1, MinIs
<1> QED
    BY <1>1, <1>2 DEF SkipSpace

-----------------------------------------------------------------------------
(* What is held back for stop sequences. *)

LEMMA LongestIs ==
    ASSUME req \in Requests
    PROVE  Longest \in Nat /\ \A s \in req.stops : Len(s) \in 1..Longest
<1>1. req.stops \in SUBSET Seq(Symbols) /\ IsFiniteSet(req.stops) /\ <<>> \notin req.stops
    BY StreamAssumption, StringsAre
<1>2. PICK b \in Nat : \A s \in req.stops : Len(s) <= b
    BY <1>1, LengthsBounded
<1>0. PICK T : T = {0} \cup {Len(s) : s \in req.stops}
    OBVIOUS
<1>3. \A s \in req.stops : Len(s) \in Nat \ {0}
    BY <1>1, EmptySeq
<1>4. T \subseteq Int /\ T # {} /\ \A n \in T : n <= b
    BY <1>0, <1>2, <1>3
<1>6. Longest = Max(T)
    BY <1>0 DEF Longest
<1>7. T \subseteq Nat
    BY <1>0, <1>3
<1>8. \A s \in req.stops : Len(s) \in T
    BY <1>0
<1>5. Max(T) \in T /\ \A n \in T : Max(T) >= n
  <2>1. b \in Int
    OBVIOUS
  <2> QED BY <1>4, <2>1, MaxIs
<1>9. Max(T) \in Nat /\ \A s \in req.stops : Len(s) <= Max(T)
    BY <1>3, <1>5, <1>7, <1>8
<1> QED
    BY <1>3, <1>6, <1>9

LEMMA SafeIs ==
    ASSUME req \in Requests, NEW n \in Nat
    PROVE  /\ StopSafe(n) \in 0..n
           /\ \A m \in Nat : n <= m => StopSafe(n) <= StopSafe(m)
           /\ \A s \in req.stops : \A p \in Nat : n < p + Len(s) => StopSafe(n) <= p
<1>1. Longest \in Nat /\ \A s \in req.stops : Len(s) \in 1..Longest
    BY LongestIs
<1>2. StopSafe(n) = IF Longest <= 1 THEN n ELSE IF n > Longest - 1 THEN n - (Longest - 1) ELSE 0
    BY DEF StopSafe
<1>3. \A m \in Nat : StopSafe(m) = IF Longest <= 1 THEN m
                                   ELSE IF m > Longest - 1 THEN m - (Longest - 1) ELSE 0
    BY DEF StopSafe
<1> QED
    BY <1>1, <1>2, <1>3

-----------------------------------------------------------------------------
(* What is sent can stand.                                                 *)
(*                                                                         *)
(* Where a marker ends.                                                    *)
Markers == {ThinkClose, ToolStart}
EndsMarker(n) == n \in 2..Len(text) /\ \E m \in Markers : At(text, n - 2, m)

(* The streams look for markers in the whole text, held back or not.  So   *)
(* this is needed: no marker ends behind the place where a stop sequence   *)
(* begins.                                                                 *)
StopApart == stop.at # None => \A n \in 2..Len(text) : EndsMarker(n) => n <= stop.at

Modes == {"plain", "think", "text", "tool", "off"}
Updates == {"plain", "think", "text", "tool"}
Streams == [mode : Modes, pos : Nat, checked : BOOLEAN, upto : Nat, final : BOOLEAN]
ToolStreams == [state : {"off", "invokes", "params", "value", "done", "error"}, at : Nat, string : BOOLEAN]
Sents(C, B) == [reasoning : Seq(Symbols), content : Seq(Symbols), calls : C, blocks : B]
SentOK == \E C, B : sent \in Sents(C, B)

TurnTypeOK ==
    /\ req \in Requests
    /\ text \in Seq(Symbols) /\ \E t \in Turns \cup {<<>>} : Leads(text, t)
    /\ stream \in Streams /\ tool \in ToolStreams
    /\ stop \in [from : Nat, at : Nat \cup {None}]
    /\ SentOK

(* How far a stream may be: never behind a stop sequence that was found,   *)
(* and before the end of the turn only where none can begin any more.      *)
Reached(n) ==
    /\ n \in 0..Len(text)
    /\ stop.at # None => n <= stop.at
    /\ stop.at = None /\ ~stream.final =>
           n <= StopSafe(Len(text)) \/ \E m \in n..Len(text) : EndsMarker(m)

StopInv ==
    /\ stop.at = None =>
         /\ stop.from = 0 \/ stop.from + Longest - 1 <= Len(text)
         /\ \A s \in req.stops : Marks(text, s, 0) = {}
    /\ stop.at # None =>
         /\ stop.at <= Len(text) /\ pc # "token"
         /\ stop.at > 0 => text[stop.at] # "u"
         /\ ~broken /\ (pc = "parse" \/ stream.final) => Len(text) = stop.at

PlaceInv ==
    /\ pc \in Updates \cup {"token", "observe", "parse", "close", "done"}
    /\ broken => pc \in {"parse", "done"}
    /\ pc \in {"token", "observe", "parse"} => ~stream.final
    /\ stream.upto <= Len(text)
    /\ ~broken => Reached(stream.upto)
    /\ Reached(stream.pos) /\ Reached(tool.at)

SaidInv ==
    /\ \A f \in {"reasoning", "content"} :
           stream.final \/ sent[f] = <<>> \/ Last(sent[f]) # "u"
    /\ pc = "plain" /\ ~stream.final /\ stream.upto > stream.pos => text[stream.upto] # "u"

TurnInv == TurnTypeOK /\ StopInv /\ PlaceInv /\ SaidInv

LEMMA TextIs ==
    ASSUME TurnTypeOK
    PROVE  text \in Seq(Symbols) /\ Len(text) \in Nat /\ (CharactersWhole => Characters(text))
<1>1. PICK t \in Turns \cup {<<>>} : Leads(text, t)
    BY DEF TurnTypeOK
<1>2. text \in Seq(Symbols) /\ t \in Seq(Symbols)
  <2>1. t \in Turns => t \in Seq(Symbols)
    BY StreamAssumption, StringsAre
  <2>2. <<>> \in Seq(Symbols)
    BY EmptySeq
  <2> QED BY <2>1, <2>2 DEF TurnTypeOK
<1>3. CharactersWhole => Characters(text)
  <2>1. CharactersWhole => Characters(t)
    BY DEF CharactersWhole, Characters
  <2> QED BY <1>1, <1>2, <2>1, CharactersLead
<1> QED
    BY <1>2, <1>3, LenProperties

LEMMA ReachedDown ==
    ASSUME TurnTypeOK, NEW n, Reached(n), NEW m \in 0..n
    PROVE  Reached(m)
<1>1. Len(text) \in Nat /\ n \in 0..Len(text) /\ stop.at \in Nat \cup {None}
    BY TextIs DEF TurnTypeOK, Reached
<1>2. StopSafe(Len(text)) \in 0..Len(text)
    BY <1>1, SafeIs DEF TurnTypeOK
<1>3. m \in 0..Len(text) /\ (stop.at # None => m <= stop.at)
    BY <1>1 DEF Reached, None
<1>4. n..Len(text) \subseteq m..Len(text)
    BY <1>1
<1>5. n <= StopSafe(Len(text)) => m <= StopSafe(Len(text))
    BY <1>1, <1>2
<1> QED
    BY <1>3, <1>4, <1>5 DEF Reached

LEMMA ReachedMarker ==
    ASSUME TurnTypeOK, StopApart, NEW n, EndsMarker(n)
    PROVE  Reached(n)
<1>1. Len(text) \in Nat /\ n \in 2..Len(text)
    BY TextIs DEF EndsMarker
<1>2. n \in 0..Len(text) /\ n \in n..Len(text)
    BY <1>1
<1> QED
    BY <1>1, <1>2 DEF Reached, StopApart

LEMMA MarkersAre ==
    \A m \in Markers : m \in Seq(Symbols) /\ Len(m) = 2 /\ m[1] = "<"
<1>1. <<"<", "C">> \in Seq(Symbols) /\ Len(<<"<", "C">>) = 2 /\ <<"<", "C">>[1] = "<"
    BY DEF Symbols
<1>2. <<"<", "S">> \in Seq(Symbols) /\ Len(<<"<", "S">>) = 2 /\ <<"<", "S">>[1] = "<"
    BY DEF Symbols
<1> QED
    BY <1>1, <1>2, Zenon DEF Markers, ThinkClose, ToolStart

LEMMA MarkerEnds ==
    ASSUME TurnTypeOK, NEW m \in Markers, NEW from \in Nat, Marks(text, m, from) # {}
    PROVE  /\ Min(Marks(text, m, from)) \in Nat /\ from <= Min(Marks(text, m, from))
           /\ Min(Marks(text, m, from)) + 2 <= Len(text)
           /\ EndsMarker(Min(Marks(text, m, from)) + 2)
           /\ text[Min(Marks(text, m, from)) + 1] = "<"
<1>1. text \in Seq(Symbols) /\ Len(text) \in Nat
    BY TextIs
<1>2. m \in Seq(Symbols) /\ Len(m) = 2 /\ m[1] = "<"
    BY MarkersAre
<1>3. PICK q : q = Min(Marks(text, m, from))
    OBVIOUS
<1>4. q \in Nat /\ from <= q /\ At(text, q, m) /\ q + 2 <= Len(text)
    BY <1>1, <1>2, <1>3, MarkedAt
<1>5. q + 2 \in 2..Len(text) /\ q + 2 - 2 = q
    BY <1>1, <1>4
<1>6. EndsMarker(q + 2)
    BY <1>4, <1>5 DEF EndsMarker
<1>7. text[q + 1] = "<"
    BY <1>1, <1>2, <1>4, AtIs
<1> QED
    BY <1>3, <1>4, <1>6, <1>7

LEMMA LongerHas ==
    ASSUME NEW new \in Longer
    PROVE  \E t \in Turns, n \in 1..MaxPiece :
               IsStrictPrefix(text, t) /\ new = Part(t, 0, Min({Len(text) + n, Len(t)}))
<1> DEFINE Grown(t, n) == Part(t, 0, Min({Len(text) + n, Len(t)}))
<1>1. new \in {Grown(t, n) : t \in {u \in Turns : IsStrictPrefix(text, u)}, n \in 1..MaxPiece}
    BY DEF Longer
<1> HIDE DEF Grown
<1>2. \E t \in Turns, n \in 1..MaxPiece : IsStrictPrefix(text, t) /\ new = Grown(t, n)
    BY <1>1
<1> QED
    BY <1>2 DEF Grown

LEMMA LongerIs ==
    ASSUME text \in Seq(Symbols), NEW new \in Longer
    PROVE  new \in Seq(Symbols) /\ Leads(text, new) /\ \E t \in Turns : Leads(new, t)
<1>1. PICK t \in Turns, n \in 1..MaxPiece :
          IsStrictPrefix(text, t) /\ new = Part(t, 0, Min({Len(text) + n, Len(t)}))
    BY LongerHas
<1>2. t \in Seq(Symbols) /\ Len(t) \in Nat /\ text \in Seq(Symbols) /\ Len(text) \in Nat
    BY StreamAssumption, StringsAre, LenProperties
<1>3. Len(text) <= Len(t) /\ SubSeq(text, 1, Len(text)) = SubSeq(t, 1, Len(text))
    BY <1>1 DEF IsStrictPrefix, IsPrefix
<1>4. text = Part(t, 0, Len(text))
    BY <1>2, <1>3, SubSeqFull DEF Part
<1>5. Leads(text, t)
    BY <1>2, <1>3, <1>4, PartLeads
<1>6. PICK k : k = Min({Len(text) + n, Len(t)})
    OBVIOUS
<1>7. MaxPiece \in Nat /\ n \in Nat
    BY StreamAssumption
<1>8. k \in {Len(text) + n, Len(t)} /\ k <= Len(t)
  <2>1. Len(text) + n \in Int /\ Len(t) \in Int /\ 0 <= Len(text) + n /\ 0 <= Len(t)
    BY <1>2, <1>7
  <2>2. {Len(text) + n, Len(t)} \subseteq Int /\ \A i \in {Len(text) + n, Len(t)} : 0 <= i
    BY <2>1
  <2>3. /\ Min({Len(text) + n, Len(t)}) \in {Len(text) + n, Len(t)}
        /\ \A i \in {Len(text) + n, Len(t)} : Min({Len(text) + n, Len(t)}) <= i
    BY <2>2, MinIs
  <2> QED BY <1>6, <2>3
<1>9. k \in 0..Len(t) /\ Len(text) <= k
    BY <1>2, <1>3, <1>7, <1>8
<1>10. new \in Seq(Symbols) /\ Len(new) = k /\ Leads(new, t)
    BY <1>1, <1>2, <1>6, <1>9, PartLeads
<1>11. Leads(text, new)
    BY <1>2, <1>5, <1>9, <1>10 DEF Leads
<1> QED
    BY <1>10, <1>11

(* The text grows while nothing was found. *)
LEMMA Grown ==
    ASSUME TurnTypeOK, UNCHANGED req, text' \in Seq(Symbols), Leads(text, text')
    PROVE  /\ Len(text) <= Len(text') /\ Len(text') \in Nat
           /\ \A n : EndsMarker(n) => EndsMarker(n)'
           /\ \A s \in req.stops : \A p \in Nat :
                  At(text', p, s) /\ p + Len(s) <= Len(text) => At(text, p, s)
<1>1. text \in Seq(Symbols) /\ Len(text) \in Nat /\ Len(text') \in Nat /\ Len(text) <= Len(text')
    BY TextIs, LenProperties DEF Leads
<1>2. ASSUME NEW n, EndsMarker(n) PROVE EndsMarker(n)'
  <2>1. n \in 2..Len(text) /\ n - 2 \in Nat /\ n \in 2..Len(text')
    BY <1>1, <1>2 DEF EndsMarker
  <2>2. PICK m \in Markers : At(text, n - 2, m)
    BY <1>2 DEF EndsMarker
  <2>3. At(text', n - 2, m)
    BY <1>1, <2>1, <2>2, MarkersAre, AtLonger
  <2> QED BY <2>1, <2>3 DEF EndsMarker
<1>3. \A s \in req.stops : s \in Seq(Symbols)
    BY StreamAssumption, StringsAre DEF TurnTypeOK
<1>4. \A s \in req.stops : \A p \in Nat :
          At(text', p, s) /\ p + Len(s) <= Len(text) => At(text, p, s)
    BY <1>1, <1>3, AtLonger
<1> QED
    BY <1>1, <1>2, <1>4

(* A stop sequence that a token completes begins where nothing was shown. *)
LEMMA FoundIs ==
    ASSUME TurnTypeOK, StopInv, stop.at = None, UNCHANGED req,
           text' \in Seq(Symbols), Leads(text, text'),
           NEW found, found = UNION {Marks(text', s, stop.from) : s \in req.stops}
    PROVE  /\ found \subseteq Nat
           /\ \A p \in found : \E s \in req.stops :
                  StopSafe(Len(text)) <= p /\ At(text', p, s) /\ p + Len(s) <= Len(text')
           /\ found = {} => \A s \in req.stops : Marks(text', s, 0) = {}
<1>1. /\ text \in Seq(Symbols) /\ Len(text) \in Nat /\ Len(text') \in Nat /\ Len(text) <= Len(text')
      /\ req \in Requests /\ stop.from \in Nat
    BY TextIs, Grown DEF TurnTypeOK
<1>2. Longest \in Nat /\ \A s \in req.stops : s \in Seq(Symbols) /\ Len(s) \in 1..Longest
    BY <1>1, LongestIs, StreamAssumption, StringsAre
<1>3. \A s \in req.stops : \A p \in Nat : ~At(text, p, s)
  <2>1. ASSUME NEW s \in req.stops, NEW p \in Nat, At(text, p, s) PROVE FALSE
    <3>1. p \in Marks(text, s, 0)
      BY <1>1, <1>2, <2>1, MarksAre
    <3> QED BY <3>1 DEF StopInv
  <2> QED BY <2>1
<1>4. ASSUME NEW s \in req.stops, NEW p \in Nat, At(text', p, s)
      PROVE  Len(text) < p + Len(s)
  <2>1. Len(s) \in Nat
    BY <1>2
  <2>2. ~(p + Len(s) <= Len(text))
    BY <1>3, <1>4, Grown
  <2> QED BY <1>1, <2>1, <2>2
<1>5. \A s \in req.stops : Marks(text', s, stop.from) \subseteq found
    OBVIOUS
<1>6. ASSUME NEW p \in found
      PROVE  p \in Nat /\ \E s \in req.stops :
                 StopSafe(Len(text)) <= p /\ At(text', p, s) /\ p + Len(s) <= Len(text')
  <2>1. PICK s \in req.stops : p \in Marks(text', s, stop.from)
    OBVIOUS
  <2>2. p \in Nat /\ At(text', p, s) /\ p + Len(s) <= Len(text')
    BY <1>1, <1>2, <2>1, MarksAre
  <2>3. StopSafe(Len(text)) <= p
    BY <1>1, <1>4, <2>2, SafeIs
  <2> QED BY <2>2, <2>3
<1>7. ASSUME found = {}, NEW s \in req.stops, NEW p \in Marks(text', s, 0) PROVE FALSE
  <2>1. p \in Nat /\ At(text', p, s)
    BY <1>1, <1>2, MarksAre
  <2>2. ~(stop.from <= p)
    <3>1. ASSUME stop.from <= p PROVE FALSE
      <4>1. p \in Marks(text', s, stop.from)
        BY <1>1, <1>2, <2>1, <3>1, MarksAre
      <4> QED BY <1>5, <1>7, <4>1
    <3> QED BY <3>1
  <2>3. Len(text) < p + Len(s)
    BY <1>4, <2>1
  <2>4. stop.from = 0 \/ stop.from + Longest - 1 <= Len(text)
    BY DEF StopInv
  <2>5. Len(s) \in 1..Longest
    BY <1>2
  <2> QED
    BY <1>1, <1>2, <2>1, <2>2, <2>3, <2>4, <2>5
<1> QED
    BY <1>6, <1>7

LEMMA SampleStep ==
    ASSUME TurnInv, Sample, CharactersWhole, StopApart'
    PROVE  TurnInv'
<1> DEFINE found == UNION {Marks(text', s, stop.from) : s \in req.stops}
           hit == found # {}
           shown == IF hit THEN Min(found) ELSE StopSafe(Len(text'))
           from == IF hit \/ Longest <= 1 THEN stop.from ELSE Max({0, Len(text') - (Longest - 1)})
           at == IF hit THEN Min(found) ELSE None
           upto == IF hit THEN shown
                   ELSE WholeChars(text', IF req.api = "plain" THEN stream.pos ELSE 0, shown)
<1>1. /\ pc = "token" /\ text' \in Longer /\ UNCHANGED <<req, finish, seen, tool, sent, broken>>
      /\ stop' = [from |-> from, at |-> at]
      /\ stream' = [stream EXCEPT !.upto = upto]
      /\ pc' = IF stream.mode = "off" THEN "observe" ELSE stream.mode
    BY DEF Sample
<1>2. /\ stop.at = None /\ ~stream.final /\ ~broken /\ req \in Requests
      /\ stream \in Streams /\ tool \in ToolStreams /\ stop.from \in Nat
    BY <1>1 DEF TurnInv, TurnTypeOK, StopInv, PlaceInv
<1>3. /\ text' \in Seq(Symbols) /\ Leads(text, text') /\ (\E t \in Turns : Leads(text', t))
      /\ text \in Seq(Symbols) /\ Len(text) \in Nat /\ Len(text') \in Nat /\ Len(text) <= Len(text')
    BY <1>1, LongerIs, TextIs, Grown DEF TurnInv
<1>4. Characters(text')
  <2>1. PICK t \in Turns : Leads(text', t)
    BY <1>3
  <2>2. t \in Seq(Symbols) /\ Characters(t)
    BY StreamAssumption, StringsAre DEF CharactersWhole
  <2> QED BY <1>3, <2>1, <2>2, CharactersLead
<1>5. /\ found \subseteq Nat
      /\ \A p \in found : \E s \in req.stops :
             StopSafe(Len(text)) <= p /\ At(text', p, s) /\ p + Len(s) <= Len(text')
      /\ found = {} => \A s \in req.stops : Marks(text', s, 0) = {}
    BY <1>1, <1>2, <1>3, FoundIs DEF TurnInv
<1>6. /\ Longest \in Nat /\ StopSafe(Len(text)) \in 0..Len(text) /\ StopSafe(Len(text')) \in 0..Len(text')
      /\ StopSafe(Len(text)) <= StopSafe(Len(text'))
    BY <1>2, <1>3, LongestIs, SafeIs
<1>7. Longest' = Longest /\ \A n : StopSafe(n)' = StopSafe(n)
    BY <1>1 DEF Longest, StopSafe
<1> HIDE DEF found
<1>8. ASSUME hit
      PROVE  /\ Min(found) \in 0..Len(text') /\ StopSafe(Len(text)) <= Min(found)
             /\ Min(found) > 0 => text'[Min(found)] # "u"
  <2>1. Min(found) \in found
    <3>1. found \subseteq Int /\ found # {} /\ (\A n \in found : 0 <= n) /\ 0 \in Int
      BY <1>5, <1>8
    <3> QED BY <3>1, MinIs
  <2>2. PICK s \in req.stops : /\ StopSafe(Len(text)) <= Min(found) /\ At(text', Min(found), s)
                               /\ Min(found) + Len(s) <= Len(text')
    BY <1>5, <2>1
  <2>3. s \in Seq(Symbols) /\ Len(s) \in Nat /\ Len(s) >= 1 /\ s[1] # "v"
    BY <1>2, LongestIs, StreamAssumption, StringsAre DEF CharactersWhole
  <2>4. Min(found) \in Nat /\ Min(found) + 1 <= Len(text')
    <3>1. Min(found) \in Nat
      BY <1>5, <2>1
    <3> QED BY <1>3, <2>2, <2>3, <3>1
  <2>5. text'[Min(found) + 1] = s[1]
    BY <1>3, <2>2, <2>3, <2>4, AtIs
  <2>6. Min(found) > 0 => text'[Min(found)] # "u"
    BY <1>3, <1>4, <2>3, <2>4, <2>5 DEF Characters
  <2> QED BY <1>3, <2>2, <2>4, <2>6
<1>9. at \in Nat \cup {None} /\ (at = None <=> ~hit)
    BY <1>8 DEF None
<1>10. upto \in 0..Len(text') /\ upto <= shown /\ shown \in 0..Len(text')
  <2>1. CASE hit
    BY <1>8, <2>1
  <2>2. CASE ~hit
    <3>1. stream.pos \in Nat
      BY <1>2 DEF Streams
    <3>2. upto \in 0..shown
      BY <1>3, <1>4, <1>6, <2>2, <3>1, WholeCharsIs
    <3> QED BY <1>3, <1>6, <2>2, <3>2
  <2> QED BY <2>1, <2>2
<1>11. from \in Nat /\ (~hit => from = 0 \/ from + Longest - 1 <= Len(text'))
  <2>1. Longest <= 1 => stop.from = 0 \/ stop.from + Longest - 1 <= Len(text')
    BY <1>2, <1>3, <1>6 DEF TurnInv, StopInv
  <2>2. Max({0, Len(text') - (Longest - 1)}) =
            IF 0 <= Len(text') - (Longest - 1) THEN Len(text') - (Longest - 1) ELSE 0
    BY <1>3, <1>6, MaxOfTwo
  <2> QED BY <1>2, <1>3, <1>6, <2>1, <2>2
<1>12. /\ stop'.at = at /\ stop'.from = from /\ stop' \in [from : Nat, at : Nat \cup {None}]
       /\ stream' \in Streams /\ stream'.upto = upto /\ stream'.pos = stream.pos
       /\ stream'.final = stream.final /\ stream'.mode = stream.mode
    BY <1>1, <1>2, <1>9, <1>10, <1>11 DEF Streams
<1>13. TurnTypeOK'
    BY <1>1, <1>2, <1>3, <1>12 DEF TurnInv, TurnTypeOK, SentOK, Sents
<1>14. pc' \in Updates \cup {"observe"}
    BY <1>1, <1>2 DEF Streams, Modes, Updates
<1>15. ASSUME NEW n, Reached(n) PROVE Reached(n)'
  <2>1. n \in 0..Len(text) /\ n \in 0..Len(text')
    BY <1>3, <1>15 DEF Reached
  <2>2. n <= StopSafe(Len(text)) \/ \E m \in n..Len(text) : EndsMarker(m)
    BY <1>2, <1>15 DEF Reached
  <2>3. CASE n <= StopSafe(Len(text))
    <3>1. stop'.at # None => n <= stop'.at
      BY <1>3, <1>6, <1>8, <1>9, <1>12, <2>1, <2>3
    <3>2. n <= StopSafe(Len(text'))
      BY <1>3, <1>6, <2>1, <2>3
    <3>3. StopSafe(Len(text))' = StopSafe(Len(text'))
      BY <1>7 DEF StopSafe
    <3> QED BY <2>1, <3>1, <3>2, <3>3 DEF Reached
  <2>4. CASE \E m \in n..Len(text) : EndsMarker(m)
    <3>1. PICK m \in n..Len(text) : EndsMarker(m)
      BY <2>4
    <3>2. EndsMarker(m)' /\ m \in n..Len(text') /\ m \in 2..Len(text')
      BY <1>1, <1>3, <3>1, Grown DEF TurnInv, EndsMarker
    <3>3. stop'.at # None => m <= stop'.at
      BY <3>2 DEF StopApart
    <3>4. stop'.at # None => n <= stop'.at
      BY <1>9, <1>12, <2>1, <3>1, <3>3 DEF None
    <3> QED BY <2>1, <3>2, <3>4 DEF Reached
  <2> QED BY <2>2, <2>3, <2>4
<1>16. StopInv'
  <2>1. CASE hit
    BY <1>2, <1>8, <1>9, <1>12, <1>14, <2>1 DEF StopInv, Updates
  <2>2. CASE ~hit
    BY <1>1, <1>5, <1>7, <1>9, <1>11, <1>12, <2>2 DEF StopInv
  <2> QED BY <2>1, <2>2
<1>17. PlaceInv'
  <2>1. Reached(stream.pos)' /\ Reached(tool.at)'
    BY <1>1, <1>12, <1>15 DEF TurnInv, PlaceInv
  <2>2. Reached(stream.upto)'
    BY <1>7, <1>8, <1>9, <1>10, <1>12 DEF Reached
  <2> QED
    BY <1>1, <1>2, <1>10, <1>12, <1>14, <2>1, <2>2 DEF PlaceInv, Updates
<1>18. SaidInv'
  <2>1. stream.upto' > stream.pos' => text'[stream.upto'] # "u"
    <3>1. CASE hit
      BY <1>2, <1>8, <1>12, <3>1 DEF Streams
    <3>2. CASE ~hit
      <4>1. stream.pos \in Nat /\ shown \in 0..Len(text')
        BY <1>2, <1>10 DEF Streams
      <4>2. upto > (IF req.api = "plain" THEN stream.pos ELSE 0) => text'[upto] # "u"
        BY <1>3, <1>4, <3>2, <4>1, WholeCharsIs
      <4> QED BY <1>10, <1>12, <3>2, <4>1, <4>2
    <3> QED BY <3>1, <3>2
  <2> QED
    BY <1>1, <1>2, <1>12, <2>1 DEF TurnInv, SaidInv
<1> QED
    BY <1>13, <1>16, <1>17, <1>18 DEF TurnInv

LEMMA EndDecodingStep ==
    ASSUME TurnInv, EndDecoding
    PROVE  TurnInv'
<1>1. /\ pc = "token" /\ pc' = "parse"
      /\ UNCHANGED <<req, text, stop, stream, tool, sent, broken>>
    BY DEF EndDecoding
<1>2. stop.at = None
    BY <1>1 DEF TurnInv, StopInv
<1>3. \A n : Reached(n) <=> Reached(n)'
    BY <1>1 DEF Reached, EndsMarker, StopSafe, Longest
<1>4. TurnTypeOK' /\ SaidInv'
    BY <1>1 DEF TurnInv, TurnTypeOK, SaidInv, SentOK
<1>5. StopInv'
    BY <1>1, <1>2 DEF TurnInv, StopInv, Longest
<1>6. PlaceInv'
    BY <1>1, <1>3 DEF TurnInv, PlaceInv
<1> QED
    BY <1>4, <1>5, <1>6 DEF TurnInv

LEMMA ObserveStep ==
    ASSUME TurnInv, Observe
    PROVE  TurnInv'
<1>1. /\ pc = "observe" /\ UNCHANGED <<req, stop, stream, tool, sent, broken>>
      /\ text' = IF stop.at = None THEN text ELSE Part(text, 0, stop.at)
      /\ pc' \in {"token", "parse"} /\ (stop.at # None => pc' = "parse")
    BY DEF Observe
<1>2. /\ text \in Seq(Symbols) /\ Len(text) \in Nat /\ ~broken /\ ~stream.final
      /\ stop.at \in Nat \cup {None} /\ stream \in Streams /\ tool \in ToolStreams
    BY <1>1, TextIs DEF TurnInv, TurnTypeOK, PlaceInv
<1>3. ASSUME stop.at # None
      PROVE  /\ text' \in Seq(Symbols) /\ Len(text') = stop.at /\ Leads(text', text)
             /\ stop.at \in 0..Len(text)
  <2>1. stop.at \in 0..Len(text)
    BY <1>2, <1>3 DEF TurnInv, StopInv
  <2> QED BY <1>1, <1>2, <1>3, <2>1, PartLeads
<1>4. ASSUME NEW n, Reached(n) PROVE Reached(n)'
  <2>1. CASE stop.at = None
    BY <1>1, <1>4, <2>1 DEF Reached, EndsMarker, StopSafe, Longest
  <2>2. CASE stop.at # None
    <3>1. n \in 0..Len(text) /\ n <= stop.at
      BY <1>4, <2>2 DEF Reached
    <3>2. n \in 0..Len(text')
      BY <1>2, <1>3, <2>2, <3>1
    <3> QED BY <1>1, <2>2, <3>1, <3>2 DEF Reached
  <2> QED BY <2>1, <2>2
<1>5. TurnTypeOK'
  <2>1. CASE stop.at = None
    BY <1>1, <2>1 DEF TurnInv, TurnTypeOK, SentOK
  <2>2. CASE stop.at # None
    <3>1. PICK t \in Turns \cup {<<>>} : Leads(text, t)
      BY DEF TurnInv, TurnTypeOK
    <3>2. t \in Seq(Symbols)
      <4>1. t \in Turns => t \in Seq(Symbols)
        BY StreamAssumption, StringsAre
      <4>2. <<>> \in Seq(Symbols)
        BY EmptySeq
      <4> QED BY <4>1, <4>2
    <3>3. Leads(text', t)
      BY <1>2, <1>3, <2>2, <3>1, <3>2, LeadsOn
    <3> QED BY <1>1, <1>3, <2>2, <3>3 DEF TurnInv, TurnTypeOK, SentOK
  <2> QED BY <2>1, <2>2
<1>6. StopInv'
  <2>1. CASE stop.at = None
    BY <1>1, <2>1 DEF TurnInv, StopInv, Longest
  <2>2. CASE stop.at # None
    <3>1. stop.at > 0 => text'[stop.at] = text[stop.at]
      BY <1>3, <2>2 DEF Leads
    <3>2. stop.at > 0 => text[stop.at] # "u"
      BY <2>2 DEF TurnInv, StopInv
    <3> QED BY <1>1, <1>2, <1>3, <2>2, <3>1, <3>2 DEF StopInv
  <2> QED BY <2>1, <2>2
<1>7. Reached(stream.upto)' /\ Reached(stream.pos)' /\ Reached(tool.at)'
    BY <1>1, <1>2, <1>4 DEF TurnInv, PlaceInv
<1>8. stream.upto' <= Len(text')
    BY <1>7, <1>1, <1>2, <1>3 DEF Reached, Streams
<1>9. PlaceInv'
    BY <1>1, <1>2, <1>7, <1>8 DEF PlaceInv
<1>10. SaidInv'
    BY <1>1 DEF TurnInv, SaidInv
<1> QED
    BY <1>5, <1>6, <1>9, <1>10 DEF TurnInv

(* What every step of an update leaves to show. *)
LEMMA UpdateStep ==
    ASSUME TurnInv, pc \in Updates, UNCHANGED <<req, text, stop, broken>>,
           stream' \in Streams, stream'.upto = stream.upto, stream'.final = stream.final,
           Reached(stream'.pos), tool' \in ToolStreams, Reached(tool'.at),
           pc' \in Updates \cup {Return}, SentOK', SaidInv'
    PROVE  TurnInv'
<1>1. pc' \in Updates \cup {"observe", "close"} /\ (stream.final => pc' # "observe")
    BY DEF Return, Updates
<1>2. ~broken
    BY DEF TurnInv, PlaceInv, Updates
<1>3. ASSUME NEW n, Reached(n) PROVE Reached(n)'
    BY <1>3 DEF Reached, EndsMarker, StopSafe, Longest
<1>4. TurnTypeOK'
    BY DEF TurnInv, TurnTypeOK
<1>5. StopInv'
    BY <1>1, <1>2 DEF TurnInv, StopInv, Longest, Updates
<1>6. Reached(stream.upto)' /\ Reached(stream.pos)' /\ Reached(tool.at)'
    BY <1>2, <1>3 DEF TurnInv, PlaceInv
<1>7. PlaceInv'
    BY <1>1, <1>2, <1>6 DEF TurnInv, PlaceInv, Updates
<1> QED
    BY <1>4, <1>5, <1>7 DEF TurnInv

LEMMA SentFields ==
    ASSUME TurnInv
    PROVE  /\ sent = [reasoning |-> sent.reasoning, content |-> sent.content,
                      calls |-> sent.calls, blocks |-> sent.blocks]
           /\ sent.reasoning \in Seq(Symbols) /\ sent.content \in Seq(Symbols)
<1>1. PICK C, B : sent \in Sents(C, B)
    BY DEF TurnInv, TurnTypeOK, SentOK
<1> QED
    BY <1>1 DEF Sents

LEMMA SentIs ==
    ASSUME NEW r \in Seq(Symbols), NEW c \in Seq(Symbols), NEW l, NEW b,
           sent' = [reasoning |-> r, content |-> c, calls |-> l, blocks |-> b]
    PROVE  SentOK'
<1>1. sent' \in Sents({l}, {b})
    BY DEF Sents
<1> QED
    BY <1>1 DEF SentOK

(* A delta that ends with a whole character. *)
LEMMA DeliverIs ==
    ASSUME TurnInv, NEW field \in {"reasoning", "content"}, NEW upto \in 0..Len(text), NEW close,
           Deliver(field, upto, close),
           upto > stream.pos => stream.final \/ text[upto] # "u"
    PROVE  /\ SentOK'
           /\ \A f \in {"reasoning", "content"} :
                  stream.final \/ sent'[f] = <<>> \/ Last(sent'[f]) # "u"
<1>1. /\ text \in Seq(Symbols) /\ Len(text) \in Nat /\ stream.pos \in Nat /\ upto \in Nat
      /\ upto <= Len(text)
    BY TextIs DEF TurnInv, TurnTypeOK, Streams
<1> DEFINE said == [sent EXCEPT ![field] = @ \o Part(text, stream.pos, upto)]
           opened == IF upto > stream.pos THEN OpenFor(sent.blocks, field) ELSE sent.blocks
           blocks == IF req.api = "anthropic" THEN IF close THEN CloseLast(opened) ELSE opened
                     ELSE sent.blocks
<1>2. \A f \in {"reasoning", "content"} : stream.final \/ sent[f] = <<>> \/ Last(sent[f]) # "u"
    BY DEF TurnInv, SaidInv
<1>3. /\ sent = [reasoning |-> sent.reasoning, content |-> sent.content,
                 calls |-> sent.calls, blocks |-> sent.blocks]
      /\ sent.reasoning \in Seq(Symbols) /\ sent.content \in Seq(Symbols)
    BY SentFields
<1> HIDE DEF opened
<1>4. CASE upto > stream.pos
  <2>1. /\ Part(text, stream.pos, upto) \in Seq(Symbols)
        /\ Len(Part(text, stream.pos, upto)) = upto - stream.pos
        /\ Part(text, stream.pos, upto)[upto - stream.pos] = text[upto]
    <3>1. upto - stream.pos \in 1..upto - stream.pos /\ stream.pos + (upto - stream.pos) = upto
      BY <1>1, <1>4
    <3>2. PICK p : p = stream.pos
      OBVIOUS
    <3>3. p \in Nat /\ p < upto
      BY <1>1, <1>4, <3>2
    <3>4. /\ Part(text, p, upto) \in Seq(Symbols)
          /\ Len(Part(text, p, upto)) = IF p < upto THEN upto - p ELSE 0
          /\ \A i \in 1..upto - p : Part(text, p, upto)[i] = text[p + i]
      BY <1>1, <3>3, PartIs
    <3> QED BY <3>1, <3>2, <3>3, <3>4
  <2>2. PICK new : new = sent[field] \o Part(text, stream.pos, upto)
    OBVIOUS
  <2>3. sent[field] \in Seq(Symbols)
    BY <1>3
  <2>4. /\ new \in Seq(Symbols) /\ Len(new) = Len(sent[field]) + (upto - stream.pos)
        /\ new[Len(new)] = text[upto]
    <3>1. Len(sent[field]) \in Nat
      BY <2>3, LenProperties
    <3>0. PICK part : part = Part(text, stream.pos, upto)
      OBVIOUS
    <3>6. part \in Seq(Symbols) /\ new = sent[field] \o part /\ Len(part) = upto - stream.pos
      BY <2>1, <2>2, <3>0
    <3>7. /\ new \in Seq(Symbols) /\ Len(new) = Len(sent[field]) + Len(part)
          /\ \A i \in 1..Len(sent[field]) + Len(part) :
                new[i] = IF i <= Len(sent[field]) THEN sent[field][i] ELSE part[i - Len(sent[field])]
      BY <2>3, <3>6, ConcatProperties
    <3>2. new \in Seq(Symbols) /\ Len(new) = Len(sent[field]) + (upto - stream.pos)
      BY <3>6, <3>7
    <3>3. Len(new) \in 1..Len(sent[field]) + Len(Part(text, stream.pos, upto))
      BY <1>1, <1>4, <2>1, <3>1, <3>2
    <3>4. /\ Len(new) > Len(sent[field])
          /\ Len(new) - Len(sent[field]) = upto - stream.pos
      BY <1>1, <1>4, <3>1, <3>2
    <3>5. new[Len(new)] = Part(text, stream.pos, upto)[Len(new) - Len(sent[field])]
      <4>1. PICK k : k = Len(new)
        OBVIOUS
      <4>2. k \in 1..Len(sent[field]) + Len(part) /\ ~(k <= Len(sent[field]))
        <5>1. k = Len(sent[field]) + Len(part) /\ Len(part) \in Nat /\ Len(part) > 0
          BY <1>1, <1>4, <3>6, <3>7, <4>1
        <5> QED BY <3>1, <5>1
      <4>3. new[k] = part[k - Len(sent[field])]
        BY <3>7, <4>2
      <4> QED BY <3>0, <4>1, <4>3
    <3> QED BY <2>1, <3>2, <3>4, <3>5
  <2>5. sent' = [said EXCEPT !.blocks = blocks]
    BY <1>3, <1>4 DEF Deliver, Say, opened
  <2>6. sent' = [reasoning |-> IF field = "reasoning" THEN new ELSE sent.reasoning,
                 content |-> IF field = "content" THEN new ELSE sent.content,
                 calls |-> sent.calls, blocks |-> blocks]
    BY <1>3, <2>2, <2>5
  <2>7. SentOK'
    BY <1>3, <2>4, <2>6, SentIs
  <2>8. stream.final \/ Last(new) # "u"
    BY <1>4, <2>4 DEF Last
  <2> QED BY <1>2, <2>6, <2>7, <2>8
<1>5. CASE ~(upto > stream.pos)
  <2>1. sent' = [sent EXCEPT !.blocks = blocks]
    BY <1>3, <1>5 DEF Deliver, opened
  <2>2. sent' = [reasoning |-> sent.reasoning, content |-> sent.content,
                 calls |-> sent.calls, blocks |-> blocks]
    BY <1>3, <2>1
  <2> QED BY <1>2, <1>3, <2>2, SentIs
<1> QED
    BY <1>4, <1>5

(* What an update knows when it starts. *)
LEMMA Updating ==
    ASSUME TurnInv, pc \in Updates
    PROVE  /\ text \in Seq(Symbols) /\ Len(text) \in Nat /\ ~broken
           /\ stream \in Streams /\ stream.pos \in 0..Len(text) /\ stream.upto \in 0..Len(text)
           /\ tool \in ToolStreams /\ tool.at \in 0..Len(text)
           /\ Reached(stream.pos) /\ Reached(stream.upto) /\ Reached(tool.at)
           /\ Return \in {"observe", "close"}
<1>1. ~broken
    BY DEF TurnInv, PlaceInv, Updates
<1>2. Reached(stream.pos) /\ Reached(stream.upto) /\ Reached(tool.at)
    BY <1>1 DEF TurnInv, PlaceInv
<1>3. stream.pos \in 0..Len(text) /\ stream.upto \in 0..Len(text) /\ tool.at \in 0..Len(text)
    BY <1>2 DEF Reached
<1> QED
    BY <1>1, <1>2, <1>3, TextIs DEF TurnInv, TurnTypeOK, Return

LEMMA StreamPlainStep ==
    ASSUME TurnInv, StreamPlain
    PROVE  TurnInv'
<1>1. /\ pc = "plain" /\ Deliver("content", stream.upto, FALSE)
      /\ stream' = [stream EXCEPT !.pos = Max({stream.pos, stream.upto})] /\ pc' = Return
      /\ UNCHANGED <<req, text, stop, tool, broken>>
    BY DEF StreamPlain
<1>2. pc \in Updates
    BY <1>1 DEF Updates
<1>3. /\ stream \in Streams /\ stream.pos \in Nat /\ stream.upto \in Nat
      /\ stream.upto \in 0..Len(text)
      /\ Reached(stream.pos) /\ Reached(stream.upto) /\ Reached(tool.at)
      /\ Return \in {"observe", "close"} /\ tool \in ToolStreams
    BY <1>2, Updating
<1>4. Max({stream.pos, stream.upto}) \in {stream.pos, stream.upto}
    BY <1>3, MaxOfTwo
<1>5. /\ stream' \in Streams /\ stream'.upto = stream.upto /\ stream'.final = stream.final
      /\ stream'.pos = Max({stream.pos, stream.upto}) /\ Reached(stream'.pos)
    BY <1>1, <1>3, <1>4 DEF Streams
<1>6. stream.upto > stream.pos => stream.final \/ text[stream.upto] # "u"
    BY <1>1 DEF TurnInv, SaidInv
<1>7. /\ SentOK'
      /\ \A f \in {"reasoning", "content"} : stream.final \/ sent'[f] = <<>> \/ Last(sent'[f]) # "u"
    BY <1>1, <1>3, <1>6, DeliverIs
<1>8. SaidInv'
    BY <1>1, <1>3, <1>5, <1>7 DEF SaidInv
<1> QED
    BY <1>1, <1>2, <1>3, <1>5, <1>7, <1>8, UpdateStep

LEMMA CheckThinkPrefixStep ==
    ASSUME TurnInv, CheckThinkPrefix
    PROVE  TurnInv'
<1>1. /\ pc = "think" /\ UNCHANGED <<req, text, stop, tool, broken, sent>>
      /\ pc' \in {Return, pc}
      /\ \/ stream' = stream
         \/ stream' = [stream EXCEPT !.checked = TRUE, !.pos =
                IF At(Part(text, 0, stream.upto), 0, ThinkOpen) THEN 2 ELSE stream.pos]
    BY DEF CheckThinkPrefix
<1>2. pc \in Updates
    BY <1>1 DEF Updates
<1>3. /\ text \in Seq(Symbols) /\ stream \in Streams /\ stream.pos \in Nat
      /\ stream.upto \in 0..Len(text)
      /\ Reached(stream.pos) /\ Reached(stream.upto) /\ Reached(tool.at)
      /\ Return \in {"observe", "close"} /\ tool \in ToolStreams
    BY <1>2, Updating
<1>4. ASSUME At(Part(text, 0, stream.upto), 0, ThinkOpen) PROVE Reached(2)
  <2>1. Len(Part(text, 0, stream.upto)) = stream.upto
    BY <1>3, PartLeads
  <2>2. 0 + Len(ThinkOpen) <= Len(Part(text, 0, stream.upto)) /\ Len(ThinkOpen) = 2
    BY <1>4 DEF At, ThinkOpen
  <2>3. 2 \in 0..stream.upto
    BY <1>3, <2>1, <2>2 DEF Streams
  <2> QED BY <1>3, <2>3, ReachedDown DEF TurnInv
<1>5. /\ stream' \in Streams /\ stream'.upto = stream.upto /\ stream'.final = stream.final
      /\ Reached(stream'.pos)
  <2>1. CASE stream' = stream
    BY <1>3, <2>1
  <2>2. CASE stream' = [stream EXCEPT !.checked = TRUE, !.pos =
                IF At(Part(text, 0, stream.upto), 0, ThinkOpen) THEN 2 ELSE stream.pos]
    BY <1>3, <1>4, <2>2 DEF Streams
  <2> QED BY <1>1, <2>1, <2>2
<1>6. SentOK' /\ SaidInv'
    BY <1>1, <1>3, <1>5 DEF TurnInv, TurnTypeOK, SentOK, SaidInv
<1>7. pc' \in Updates \cup {Return}
    BY <1>1, <1>2
<1> QED
    BY <1>1, <1>2, <1>3, <1>5, <1>6, <1>7, UpdateStep

(* Before a marker, no character is cut. *)
LEMMA BeforeMarker ==
    ASSUME TurnTypeOK, CharactersWhole, NEW q \in 0..Len(text) - 1, text[q + 1] = "<",
           NEW p \in 1..q, p < q => text[p + 1] \in Space
    PROVE  text[p] # "u"
<1>1. text \in Seq(Symbols) /\ Len(text) \in Nat /\ Characters(text)
    BY TextIs
<1>2. p \in 1..Len(text) - 1 /\ (p = q \/ p < q)
    BY <1>1
<1>3. text[p + 1] # "v"
    BY <1>2 DEF Space
<1> QED
    BY <1>1, <1>2, <1>3 DEF Characters

LEMMA StreamThinkingStep ==
    ASSUME TurnInv, StreamThinking, CharactersWhole, StopApart
    PROVE  TurnInv'
<1>1. /\ pc = "think" /\ Deliver("reasoning", ThinkLimit, Closes # {} \/ stream.final)
      /\ stream' = IF Closes # {} THEN [stream EXCEPT !.pos = Min(Closes) + 2, !.mode = "text"]
                   ELSE [stream EXCEPT !.pos = Max({stream.pos, ThinkLimit}),
                                       !.mode = IF stream.final THEN "off" ELSE stream.mode]
      /\ pc' = IF Closes # {} THEN "text" ELSE Return
      /\ UNCHANGED <<req, text, stop, tool, broken>>
    BY DEF StreamThinking
<1>2. pc \in Updates
    BY <1>1 DEF Updates
<1>3. /\ text \in Seq(Symbols) /\ Len(text) \in Nat /\ stream \in Streams
      /\ stream.pos \in 0..Len(text) /\ stream.upto \in 0..Len(text)
      /\ Reached(stream.pos) /\ Reached(stream.upto) /\ Reached(tool.at)
      /\ Return \in {"observe", "close"} /\ tool \in ToolStreams
      /\ Characters(text) /\ stream.pos \in Nat /\ stream.upto \in Nat
    BY <1>2, Updating, TextIs DEF TurnInv
<1>4. ASSUME Closes # {}
      PROVE  /\ Min(Closes) \in 0..Len(text) /\ Reached(Min(Closes) + 2) /\ Min(Closes) + 2 \in Nat
             /\ Min(Closes) > 0 => text[Min(Closes)] # "u"
  <2>1. /\ Min(Closes) \in Nat /\ Min(Closes) + 2 <= Len(text)
        /\ EndsMarker(Min(Closes) + 2) /\ text[Min(Closes) + 1] = "<"
    BY <1>3, <1>4, MarkerEnds DEF TurnInv, Closes, Markers
  <2>2. PICK q : q = Min(Closes)
    OBVIOUS
  <2>3. q \in Nat /\ q + 2 <= Len(text) /\ EndsMarker(q + 2) /\ text[q + 1] = "<"
    BY <2>1, <2>2
  <2>4. q > 0 => text[q] # "u"
    <3>1. q \in 0..Len(text) - 1
      BY <1>3, <2>3
    <3>2. q > 0 => q \in 1..q
      BY <2>3
    <3> QED BY <2>3, <3>1, <3>2, BeforeMarker DEF TurnInv
  <2>5. Reached(q + 2)
    BY <2>3, ReachedMarker DEF TurnInv
  <2> QED BY <1>3, <2>2, <2>3, <2>4, <2>5
<1>5. ASSUME Closes = {}
      PROVE  /\ ThinkLimit \in 0..Len(text) /\ (stream.pos < ThinkLimit => ThinkLimit <= stream.upto)
             /\ ThinkLimit > stream.pos => stream.final \/ text[ThinkLimit] # "u"
  <2>1. CASE stream.final
    BY <1>3, <1>5, <2>1 DEF ThinkLimit
  <2>2. CASE ~stream.final
    <3>1. PICK limit : limit = IF stream.upto > 1 THEN stream.upto - 1 ELSE stream.pos
      OBVIOUS
    <3>2. limit \in 0..Len(text) /\ (stream.pos < limit => limit <= stream.upto)
      BY <1>3, <3>1
    <3>3. ThinkLimit = WholeChars(text, stream.pos, limit)
      BY <1>5, <2>2, <3>1 DEF ThinkLimit
    <3>4. /\ ThinkLimit \in 0..limit
          /\ ThinkLimit > stream.pos => text[ThinkLimit] # "u"
      BY <1>3, <3>2, <3>3, WholeCharsIs
    <3> QED BY <1>3, <3>2, <3>4
  <2> QED BY <2>1, <2>2
<1>6. /\ ThinkLimit \in 0..Len(text)
      /\ ThinkLimit > stream.pos => stream.final \/ text[ThinkLimit] # "u"
  <2>1. CASE Closes # {}
    <3>1. ThinkLimit = Min(Closes)
      BY <2>1 DEF ThinkLimit
    <3> QED BY <1>3, <1>4, <2>1, <3>1
  <2> QED BY <1>5, <2>1
<1>7. /\ stream' \in Streams /\ stream'.upto = stream.upto /\ stream'.final = stream.final
      /\ Reached(stream'.pos)
  <2>1. CASE Closes # {}
    BY <1>1, <1>3, <1>4, <2>1 DEF Streams, Modes
  <2>2. CASE Closes = {}
    <3>1. ThinkLimit \in Nat /\ Max({stream.pos, ThinkLimit}) \in {stream.pos, ThinkLimit}
      BY <1>3, <1>6, MaxOfTwo
    <3>2. Max({stream.pos, ThinkLimit}) = stream.pos \/ Max({stream.pos, ThinkLimit}) \in 0..stream.upto
      BY <1>3, <1>5, <1>6, <2>2, <3>1, MaxOfTwo
    <3>3. Reached(Max({stream.pos, ThinkLimit}))
      BY <1>3, <3>2, ReachedDown DEF TurnInv
    <3> QED BY <1>1, <1>3, <2>2, <3>1, <3>3 DEF Streams, Modes
  <2> QED BY <2>1, <2>2
<1>8. /\ SentOK'
      /\ \A f \in {"reasoning", "content"} : stream.final \/ sent'[f] = <<>> \/ Last(sent'[f]) # "u"
    BY <1>1, <1>6, DeliverIs
<1>9. SaidInv' /\ pc' \in Updates \cup {Return}
    BY <1>1, <1>3, <1>7, <1>8 DEF SaidInv, Updates
<1> QED
    BY <1>1, <1>2, <1>3, <1>7, <1>8, <1>9, UpdateStep

LEMMA StartsAre ==
    ASSUME TurnInv, pc \in Updates, CharactersWhole, StopApart, Starts # {}
    PROVE  /\ Min(Starts) \in Nat /\ stream.pos <= Min(Starts) /\ Min(Starts) + 2 <= Len(text)
           /\ Reached(Min(Starts)) /\ Reached(Min(Starts) + 2)
           /\ text[Min(Starts) + 1] = "<"
<1>1. /\ text \in Seq(Symbols) /\ Len(text) \in Nat /\ stream.pos \in Nat
    BY Updating
<1>2. Starts = Marks(text, ToolStart, stream.pos)
    BY DEF Starts
<1>3. /\ Min(Starts) \in Nat /\ stream.pos <= Min(Starts) /\ Min(Starts) + 2 <= Len(text)
      /\ EndsMarker(Min(Starts) + 2) /\ text[Min(Starts) + 1] = "<"
    BY <1>1, <1>2, MarkerEnds DEF TurnInv, Markers
<1>4. PICK q : q = Min(Starts)
    OBVIOUS
<1>5. q \in Nat /\ EndsMarker(q + 2) /\ q \in 0..q + 2
    BY <1>3, <1>4
<1>6. Reached(q + 2)
    BY <1>5, ReachedMarker DEF TurnInv
<1>7. Reached(q)
    BY <1>5, <1>6, ReachedDown DEF TurnInv
<1> QED
    BY <1>3, <1>4, <1>6, <1>7

LEMMA TextLimitIs ==
    ASSUME TurnInv, pc \in Updates, CharactersWhole, StopApart
    PROVE  /\ TextLimit \in 0..Len(text)
           /\ TextLimit > stream.pos => stream.final \/ text[TextLimit] # "u"
           /\ Starts = {} /\ TextLimit > stream.pos => TextLimit <= stream.upto
<1>1. /\ text \in Seq(Symbols) /\ Len(text) \in Nat /\ stream \in Streams
      /\ stream.pos \in 0..Len(text) /\ stream.upto \in 0..Len(text)
      /\ Characters(text) /\ stream.pos \in Nat /\ stream.upto \in Nat
    BY Updating, TextIs DEF TurnInv
<1>2. CASE stream.upto <= stream.pos
    BY <1>1, <1>2 DEF TextLimit
<1>3. CASE ~(stream.upto <= stream.pos) /\ Starts # {}
  <2>1. TextLimit = Trimmed(text, stream.pos, Min(Starts))
    BY <1>3 DEF TextLimit
  <2>2. PICK q : q = Min(Starts)
    OBVIOUS
  <2>3. q \in Nat /\ stream.pos <= q /\ q + 2 <= Len(text) /\ text[q + 1] = "<"
    BY <1>3, <2>2, StartsAre
  <2>4. PICK p : p = Trimmed(text, stream.pos, q)
    OBVIOUS
  <2>5. /\ p \in Nat /\ stream.pos <= p /\ p <= q
        /\ \A i \in p + 1 .. q : text[i] \in Space
    <3>1. q \in 0..Len(text)
      BY <1>1, <2>3
    <3> QED BY <1>1, <2>3, <2>4, <3>1, TrimmedIs
  <2>6. p > stream.pos => text[p] # "u"
    <3>1. p > stream.pos => p \in 1..q /\ q \in 0..Len(text) - 1 /\ (p < q => p + 1 \in p + 1 .. q)
      BY <1>1, <2>3, <2>5
    <3> QED BY <2>3, <2>5, <3>1, BeforeMarker DEF TurnInv
  <2> QED BY <1>1, <1>3, <2>1, <2>2, <2>3, <2>4, <2>5, <2>6
<1>4. CASE ~(stream.upto <= stream.pos) /\ Starts = {} /\ stream.final
    BY <1>1, <1>4 DEF TextLimit
<1>5. CASE ~(stream.upto <= stream.pos) /\ Starts = {} /\ ~stream.final
  <2> DEFINE opens == {p \in Max({stream.pos, stream.upto - Window}) .. stream.upto - 1 :
                          text[p + 1] = "<"}
             noMarker == IF opens = {} THEN stream.upto ELSE Max(opens)
             limit == IF req.tools THEN Trimmed(text, stream.pos, noMarker) ELSE stream.upto
  <2>1. TextLimit = WholeChars(text, stream.pos, limit)
    BY <1>5 DEF TextLimit
  <2>2. noMarker \in stream.pos..stream.upto
    <3>1. /\ Window \in Nat
          /\ Max({stream.pos, stream.upto - Window}) =
                 IF stream.pos <= stream.upto - Window THEN stream.upto - Window ELSE stream.pos
      BY <1>1, StreamAssumption, MaxOfTwo
    <3>2. PICK low \in Nat : low = Max({stream.pos, stream.upto - Window}) /\ stream.pos <= low
      BY <1>1, <3>1
    <3>3. opens \subseteq low..stream.upto - 1
      BY <3>2
    <3>4. CASE opens = {}
      BY <1>1, <1>5, <3>4
    <3>5. CASE opens # {}
      <4>1. stream.upto \in Int /\ opens \subseteq Int /\ \A p \in opens : p <= stream.upto
        BY <1>1, <3>2, <3>3
      <4> HIDE DEF opens
      <4>2. Max(opens) \in opens
        BY <3>5, <4>1, MaxIs
      <4>3. noMarker = Max(opens)
        BY <3>5
      <4>4. PICK m \in opens : m = Max(opens)
        BY <4>2
      <4>5. m \in low..stream.upto - 1
        BY <3>3
      <4> QED BY <1>1, <3>2, <4>3, <4>4, <4>5
    <3> QED BY <3>4, <3>5
  <2> HIDE DEF noMarker
  <2>3. limit \in stream.pos..stream.upto
    <3>1. noMarker \in 0..Len(text)
      BY <1>1, <2>2
    <3>2. /\ Trimmed(text, stream.pos, noMarker) \in Nat
          /\ stream.pos <= Trimmed(text, stream.pos, noMarker)
          /\ \/ Trimmed(text, stream.pos, noMarker) = stream.pos
             \/ Trimmed(text, stream.pos, noMarker) <= noMarker
      BY <1>1, <3>1, TrimmedIs
    <3> QED BY <1>1, <1>5, <2>2, <3>2
  <2> HIDE DEF limit
  <2>4. limit \in 0..Len(text)
    BY <1>1, <2>3
  <2>5. /\ TextLimit \in 0..limit
        /\ TextLimit > stream.pos => text[TextLimit] # "u"
    BY <1>1, <2>1, <2>4, WholeCharsIs
  <2> QED BY <1>1, <2>3, <2>4, <2>5
<1> QED
    BY <1>2, <1>3, <1>4, <1>5

LEMMA StreamTextStep ==
    ASSUME TurnInv, StreamText, CharactersWhole, StopApart
    PROVE  TurnInv'
<1> DEFINE live == Starts # {} /\ req.api = "openai" /\ Min(Starts) + 2 <= stream.upto
<1>1. /\ pc = "text" /\ Deliver("content", TextLimit, Starts # {} \/ stream.final)
      /\ tool' = IF live THEN [tool EXCEPT !.state = "invokes", !.at = Min(Starts) + 2] ELSE tool
      /\ stream' = IF Starts # {}
                   THEN [stream EXCEPT !.pos = Min(Starts), !.mode = IF live THEN "tool" ELSE "off"]
                   ELSE [stream EXCEPT !.pos = Max({stream.pos, TextLimit}),
                                       !.mode = IF stream.final THEN "off" ELSE stream.mode]
      /\ pc' = IF live THEN "tool" ELSE Return
      /\ UNCHANGED <<req, text, stop, broken>>
    BY DEF StreamText
<1>2. pc \in Updates
    BY <1>1 DEF Updates
<1>3. /\ text \in Seq(Symbols) /\ Len(text) \in Nat /\ stream \in Streams
      /\ stream.pos \in 0..Len(text) /\ stream.upto \in 0..Len(text)
      /\ Reached(stream.pos) /\ Reached(stream.upto) /\ Reached(tool.at)
      /\ Return \in {"observe", "close"} /\ tool \in ToolStreams
      /\ stream.pos \in Nat /\ stream.upto \in Nat
    BY <1>2, Updating
<1>4. Starts # {} => /\ Min(Starts) \in Nat /\ Min(Starts) + 2 \in Nat
                     /\ Reached(Min(Starts)) /\ Reached(Min(Starts) + 2)
    BY <1>2, StartsAre
<1>5. /\ TextLimit \in 0..Len(text) /\ TextLimit \in Nat
      /\ TextLimit > stream.pos => stream.final \/ text[TextLimit] # "u"
      /\ Starts = {} /\ TextLimit > stream.pos => TextLimit <= stream.upto
    BY <1>2, TextLimitIs
<1>6. /\ tool' \in ToolStreams /\ Reached(tool'.at)
    BY <1>1, <1>3, <1>4 DEF ToolStreams
<1>7. /\ stream' \in Streams /\ stream'.upto = stream.upto /\ stream'.final = stream.final
      /\ Reached(stream'.pos)
  <2>1. CASE Starts # {}
    BY <1>1, <1>3, <1>4, <2>1 DEF Streams, Modes
  <2>2. CASE Starts = {}
    <3>1. /\ Max({stream.pos, TextLimit}) \in Nat
          /\ \/ Max({stream.pos, TextLimit}) = stream.pos
             \/ Max({stream.pos, TextLimit}) \in 0..stream.upto
      BY <1>3, <1>5, <2>2, MaxOfTwo
    <3>2. Reached(Max({stream.pos, TextLimit}))
      BY <1>3, <3>1, ReachedDown DEF TurnInv
    <3> QED BY <1>1, <1>3, <2>2, <3>1, <3>2 DEF Streams, Modes
  <2> QED BY <2>1, <2>2
<1>8. /\ SentOK'
      /\ \A f \in {"reasoning", "content"} : stream.final \/ sent'[f] = <<>> \/ Last(sent'[f]) # "u"
    BY <1>1, <1>5, DeliverIs
<1>9. SaidInv' /\ pc' \in Updates \cup {Return}
    BY <1>1, <1>3, <1>7, <1>8 DEF SaidInv, Updates
<1> QED
    BY <1>1, <1>2, <1>6, <1>7, <1>8, <1>9, UpdateStep

(* The tags of a tool block lie in the text that may be shown. *)
LEMMA TagsAre ==
    ASSUME TurnInv, pc = "tool"
    PROVE  /\ TagAt \in Nat /\ Reached(TagAt)
           /\ TagEnd # {} => Min(TagEnd) + 1 \in Nat /\ Reached(Min(TagEnd) + 1)
           /\ At(Shown, TagAt, InvokeEnd) => Reached(TagAt + 2)
           /\ ValueEnds # {} => Min(ValueEnds) + 2 \in Nat /\ Reached(Min(ValueEnds) + 2)
<1>1. pc \in Updates
    BY DEF Updates
<1>2. /\ text \in Seq(Symbols) /\ Len(text) \in Nat /\ stream.upto \in 0..Len(text)
      /\ Reached(stream.upto) /\ tool.at \in Nat /\ stream.upto \in Nat
    BY <1>1, Updating
<1>3. TagAt \in 0..stream.upto
    BY <1>2, SkipIs DEF TagAt
<1>4. Shown \in Seq(Symbols) /\ Len(Shown) = stream.upto
    BY <1>2, PartLeads DEF Shown
<1>5. \A n \in 0..stream.upto : Reached(n)
    BY <1>2, ReachedDown DEF TurnInv
<1>6. /\ <<">">> \in Seq(Symbols) /\ Len(<<">">>) = 1
      /\ ParamEnd \in Seq(Symbols) /\ Len(ParamEnd) = 2 /\ Len(InvokeEnd) = 2
    BY DEF Symbols, ParamEnd, InvokeEnd
<1>7. ASSUME TagEnd # {} PROVE Min(TagEnd) + 1 \in 0..stream.upto
  <2>1. PICK lit \in Seq(Symbols) : lit = <<">">> /\ Len(lit) = 1
    BY <1>6
  <2>2. TagEnd = Marks(Shown, lit, TagAt)
    BY <2>1 DEF TagEnd
  <2>3. PICK tag : tag = TagAt
    OBVIOUS
  <2>4. tag \in Nat /\ Marks(Shown, lit, tag) = TagEnd
    BY <1>3, <2>2, <2>3
  <2>5. Min(TagEnd) \in Nat /\ Min(TagEnd) + Len(lit) <= Len(Shown)
    <3>1. Marks(Shown, lit, tag) # {}
      BY <1>7, <2>4
    <3>2. /\ Min(Marks(Shown, lit, tag)) \in Nat
          /\ Min(Marks(Shown, lit, tag)) + Len(lit) <= Len(Shown)
      BY <1>4, <2>4, <3>1, MarkedAt
    <3> QED BY <2>4, <3>2
  <2> QED BY <1>2, <1>4, <2>1, <2>5
<1>8. ASSUME At(Shown, TagAt, InvokeEnd) PROVE TagAt + 2 \in 0..stream.upto
  <2>1. TagAt + 2 <= Len(Shown)
    BY <1>6, <1>8 DEF At
  <2> QED BY <1>2, <1>3, <1>4, <2>1
<1>9. ASSUME ValueEnds # {} PROVE Min(ValueEnds) + 2 \in 0..stream.upto
  <2>1. PICK at : at = tool.at
    OBVIOUS
  <2>2. at \in Nat /\ ValueEnds = Marks(Shown, ParamEnd, at)
    BY <1>2, <2>1 DEF ValueEnds
  <2>3. Min(ValueEnds) \in Nat /\ Min(ValueEnds) + Len(ParamEnd) <= Len(Shown)
    BY <1>4, <1>6, <1>9, <2>2, MarkedAt
  <2> QED BY <1>2, <1>4, <1>6, <2>3
<1> QED
    BY <1>3, <1>5, <1>7, <1>8, <1>9

(* The value of a parameter is sent up to a place that may be shown. *)
LEMMA ValueLimitIs ==
    ASSUME TurnInv, pc = "tool", tool.at < stream.upto, CharactersWhole
    PROVE  Max({tool.at, ValueLimit}) \in Nat /\ Reached(Max({tool.at, ValueLimit}))
<1>1. pc \in Updates
    BY DEF Updates
<1>2. /\ text \in Seq(Symbols) /\ Len(text) \in Nat /\ stream.upto \in 0..Len(text)
      /\ Reached(stream.upto) /\ tool.at \in Nat /\ stream.upto \in Nat /\ Characters(text)
    BY <1>1, Updating, TextIs DEF TurnInv
<1> DEFINE limit == IF text[stream.upto] = "<" THEN stream.upto - 1 ELSE stream.upto
           whole == IF tool.string /\ limit > tool.at /\ text[limit] = "&" THEN limit - 1 ELSE limit
<1>3. limit \in Nat /\ tool.at <= limit /\ limit <= stream.upto
    BY <1>2
<1> HIDE DEF limit
<1>4. whole \in 0..stream.upto /\ tool.at <= whole
    BY <1>2, <1>3
<1>5. ValueLimit = WholeChars(text, tool.at, whole)
    BY DEF ValueLimit, limit
<1> HIDE DEF whole
<1>6. ValueLimit \in 0..whole
  <2>1. whole \in 0..Len(text)
    BY <1>2, <1>4
  <2> QED BY <1>2, <1>5, <2>1, WholeCharsIs
<1>7. Max({tool.at, ValueLimit}) \in 0..stream.upto
    BY <1>2, <1>4, <1>6, MaxOfTwo
<1> QED
    BY <1>2, <1>7, ReachedDown DEF TurnInv

LEMMA ToolStep ==
    ASSUME TurnInv, pc = "tool", UNCHANGED <<req, text, stop, broken>>,
           stream' \in {stream, [stream EXCEPT !.mode = "off"]},
           tool' \in ToolStreams, Reached(tool'.at), pc' \in {pc, Return},
           NEW c, sent' = [sent EXCEPT !.calls = c]
    PROVE  TurnInv'
<1>1. pc \in Updates
    BY DEF Updates
<1>2. stream \in Streams /\ Reached(stream.pos) /\ Return \in {"observe", "close"}
    BY <1>1, Updating
<1>3. /\ sent = [reasoning |-> sent.reasoning, content |-> sent.content,
                 calls |-> sent.calls, blocks |-> sent.blocks]
      /\ sent.reasoning \in Seq(Symbols) /\ sent.content \in Seq(Symbols)
    BY SentFields
<1>4. sent' = [reasoning |-> sent.reasoning, content |-> sent.content, calls |-> c,
               blocks |-> sent.blocks]
    BY <1>3
<1>5. SentOK'
    BY <1>3, <1>4, SentIs
<1>6. /\ stream' \in Streams /\ stream'.upto = stream.upto /\ stream'.final = stream.final
      /\ stream'.pos = stream.pos
    BY <1>2 DEF Streams, Modes
<1>7. SaidInv'
    BY <1>2, <1>4, <1>6 DEF TurnInv, SaidInv
<1> QED
    BY <1>1, <1>2, <1>5, <1>6, <1>7, UpdateStep

LEMMA StreamToolStep ==
    ASSUME TurnInv, StreamTool, CharactersWhole
    PROVE  TurnInv'
<1>1. /\ pc = "tool" /\ UNCHANGED <<req, text, stop, broken>>
    BY DEF StreamTool, ToolWaits, ToolDone, ToolFails, ToolStops, StartInvoke, EndInvoke,
           StartParam, EndParam, StreamValue, Live, AtInvoke, AtParam
<1>2. pc \in Updates
    BY <1>1 DEF Updates
<1>3. /\ tool \in ToolStreams /\ Reached(tool.at) /\ tool.at \in Nat
    BY <1>2, Updating
<1>4. /\ TagAt \in Nat /\ Reached(TagAt)
      /\ TagEnd # {} => Min(TagEnd) + 1 \in Nat /\ Reached(Min(TagEnd) + 1)
      /\ At(Shown, TagAt, InvokeEnd) => Reached(TagAt + 2)
      /\ ValueEnds # {} => Min(ValueEnds) + 2 \in Nat /\ Reached(Min(ValueEnds) + 2)
    BY <1>1, TagsAre
<1>5. sent = [sent EXCEPT !.calls = sent.calls]
    BY SentFields
<1>6. CASE ToolWaits
  <2>1. tool' = [tool EXCEPT !.at = TagAt] /\ pc' = Return /\ UNCHANGED <<stream, sent>>
    BY <1>6 DEF ToolWaits
  <2>2. tool' \in ToolStreams /\ tool'.at = TagAt
    BY <1>3, <1>4, <2>1 DEF ToolStreams
  <2> QED BY <1>1, <1>4, <1>5, <2>1, <2>2, ToolStep
<1>7. CASE ToolDone \/ ToolFails
  <2>1. ToolStops("done") \/ ToolStops("error")
    BY <1>7 DEF ToolDone, ToolFails
  <2>2. /\ tool' \in ToolStreams /\ tool'.at = tool.at /\ pc' = Return /\ UNCHANGED sent
        /\ stream' = [stream EXCEPT !.mode = "off"]
    BY <1>3, <2>1 DEF ToolStops, ToolStreams
  <2> QED BY <1>1, <1>3, <1>5, <2>2, ToolStep
<1>8. CASE StartInvoke
  <2>1. /\ TagEnd # {} /\ UNCHANGED <<stream, pc>>
        /\ sent' = [sent EXCEPT !.calls = Append(sent.calls, [params |-> <<>>, open |-> TRUE])]
        /\ tool' = [tool EXCEPT !.state = "params", !.at = Min(TagEnd) + 1]
    BY <1>8 DEF StartInvoke
  <2>2. tool' \in ToolStreams /\ tool'.at = Min(TagEnd) + 1
    BY <1>3, <1>4, <2>1 DEF ToolStreams
  <2> QED BY <1>1, <1>4, <2>1, <2>2, ToolStep
<1>9. CASE EndInvoke
  <2>1. /\ At(Shown, TagAt, InvokeEnd) /\ UNCHANGED <<stream, pc>>
        /\ sent' = [sent EXCEPT !.calls = [sent.calls EXCEPT ![Len(sent.calls)].open = FALSE]]
        /\ tool' = [tool EXCEPT !.state = "invokes", !.at = TagAt + 2]
    BY <1>9 DEF EndInvoke
  <2>2. tool' \in ToolStreams /\ tool'.at = TagAt + 2
    <3>1. PICK n \in Nat : n = TagAt + 2
      BY <1>4
    <3>2. tool' = [tool EXCEPT !.state = "invokes", !.at = n]
      BY <2>1, <3>1
    <3> QED BY <1>3, <3>1, <3>2 DEF ToolStreams
  <2> QED BY <1>1, <1>4, <2>1, <2>2, ToolStep
<1>10. CASE StartParam
  <2>1. PICK string \in BOOLEAN :
           /\ TagEnd # {} /\ UNCHANGED <<stream, pc>>
           /\ sent' = [sent EXCEPT !.calls = [sent.calls EXCEPT ![Len(sent.calls)].params =
                          Append(@, [string |-> string, value |-> <<>>])]]
           /\ tool' = [state |-> "value", at |-> Min(TagEnd) + 1, string |-> string]
    BY <1>10 DEF StartParam, Has
  <2>2. tool' \in ToolStreams /\ tool'.at = Min(TagEnd) + 1
    <3>1. PICK n \in Nat : n = Min(TagEnd) + 1
      BY <1>4, <2>1
    <3>2. tool' = [state |-> "value", at |-> n, string |-> string]
      BY <2>1, <3>1
    <3> QED BY <3>1, <3>2 DEF ToolStreams
  <2> QED BY <1>1, <1>4, <2>1, <2>2, ToolStep
<1>11. \A upto : \E c : SayValue(upto) = [sent EXCEPT !.calls = c]
  <2>1. SUFFICES ASSUME NEW upto PROVE \E c : SayValue(upto) = [sent EXCEPT !.calls = c]
    OBVIOUS
  <2>2. PICK part : part = IF tool.string THEN Unescape(Part(text, tool.at, upto))
                           ELSE Part(text, tool.at, upto)
    OBVIOUS
  <2>3. SayValue(upto) = [sent EXCEPT !.calls =
            [sent.calls EXCEPT ![Len(sent.calls)].params[Len(Last(sent.calls).params)].value = @ \o part]]
    BY <2>2 DEF SayValue
  <2> QED BY <2>3
<1>12. CASE EndParam
  <2>1. /\ ValueEnds # {} /\ UNCHANGED <<stream, pc>> /\ sent' = SayValue(Min(ValueEnds))
        /\ tool' = [tool EXCEPT !.state = "params", !.at = Min(ValueEnds) + 2]
    BY <1>12 DEF EndParam
  <2>2. tool' \in ToolStreams /\ tool'.at = Min(ValueEnds) + 2
    BY <1>3, <1>4, <2>1 DEF ToolStreams
  <2>3. PICK c : sent' = [sent EXCEPT !.calls = c]
    BY <1>11, <2>1
  <2> QED BY <1>1, <1>4, <2>1, <2>2, <2>3, ToolStep
<1>13. CASE StreamValue /\ tool.at < stream.upto
  <2>1. /\ UNCHANGED stream /\ pc' = Return /\ sent' = SayValue(Max({tool.at, ValueLimit}))
        /\ tool' = [tool EXCEPT !.at = Max({tool.at, ValueLimit})]
    BY <1>13 DEF StreamValue
  <2>2. Max({tool.at, ValueLimit}) \in Nat /\ Reached(Max({tool.at, ValueLimit}))
    BY <1>1, <1>13, ValueLimitIs
  <2>3. tool' \in ToolStreams /\ tool'.at = Max({tool.at, ValueLimit})
    BY <1>3, <2>1, <2>2 DEF ToolStreams
  <2>4. PICK c : sent' = [sent EXCEPT !.calls = c]
    BY <1>11, <2>1
  <2> QED BY <1>1, <2>1, <2>2, <2>3, <2>4, ToolStep
<1>14. CASE StreamValue /\ ~(tool.at < stream.upto)
  <2>1. UNCHANGED <<stream, sent, tool>> /\ pc' = Return
    BY <1>14 DEF StreamValue
  <2> QED BY <1>1, <1>3, <1>5, <2>1, ToolStep
<1> QED
    BY <1>6, <1>7, <1>8, <1>9, <1>10, <1>12, <1>13, <1>14 DEF StreamTool

LEMMA ParseStep ==
    ASSUME TurnInv, Parse
    PROVE  TurnInv'
<1>1. /\ pc = "parse" /\ UNCHANGED <<req, text, stop, tool, sent, broken>>
      /\ stream' = [stream EXCEPT !.upto = Len(text), !.final = TRUE]
      /\ pc' = IF broken THEN "done" ELSE IF stream.mode = "off" THEN "close" ELSE stream.mode
    BY DEF Parse
<1>2. /\ text \in Seq(Symbols) /\ Len(text) \in Nat /\ stream \in Streams
      /\ Reached(stream.pos) /\ Reached(tool.at)
    BY TextIs DEF TurnInv, TurnTypeOK, PlaceInv
<1>3. /\ stream' \in Streams /\ stream'.upto = Len(text) /\ stream'.final = TRUE
      /\ stream'.pos = stream.pos
    BY <1>1, <1>2 DEF Streams
<1>4. ASSUME NEW n, Reached(n) PROVE Reached(n)'
    BY <1>1, <1>3, <1>4 DEF Reached
<1>5. ~broken => Reached(Len(text))'
    BY <1>1, <1>2, <1>3 DEF Reached, TurnInv, StopInv
<1>6. TurnTypeOK' /\ SaidInv'
    BY <1>1, <1>3 DEF TurnInv, TurnTypeOK, SentOK, SaidInv
<1>7. pc' \in Updates \cup {"close", "done"}
    BY <1>1, <1>2 DEF Streams, Modes, Updates
<1>8. StopInv'
    BY <1>1, <1>3, <1>7 DEF TurnInv, StopInv, Longest, Updates
<1>9. Reached(stream.upto)' \/ broken'
    BY <1>1, <1>3, <1>5
<1>10. Reached(stream.pos)' /\ Reached(tool.at)'
    BY <1>1, <1>2, <1>3, <1>4
<1>11. PlaceInv'
    BY <1>1, <1>2, <1>3, <1>7, <1>9, <1>10 DEF PlaceInv, Updates
<1> QED
    BY <1>6, <1>8, <1>11 DEF TurnInv

(* Steps that leave the text and the places alone. *)
LEMMA EndStep ==
    ASSUME TurnInv, UNCHANGED <<req, text, stop, stream, tool>>,
           sent'.reasoning = sent.reasoning, sent'.content = sent.content, SentOK',
           broken' = broken \/ broken' = TRUE,
           pc' = "done" \/ (pc' = "parse" /\ ~stream.final /\ broken')
    PROVE  TurnInv'
<1>1. \A n : Reached(n) <=> Reached(n)'
    BY DEF Reached, EndsMarker, StopSafe, Longest
<1>2. TurnTypeOK' /\ SaidInv'
    BY DEF TurnInv, TurnTypeOK, SaidInv
<1>3. StopInv'
  <2>1. ASSUME stop.at # None, ~broken', stream.final PROVE Len(text) = stop.at
    BY <2>1 DEF TurnInv, StopInv
  <2> QED BY <2>1 DEF TurnInv, StopInv, Longest
<1>4. PlaceInv'
    BY <1>1 DEF TurnInv, PlaceInv
<1> QED
    BY <1>2, <1>3, <1>4 DEF TurnInv

LEMMA CloseStep ==
    ASSUME TurnInv, Close
    PROVE  TurnInv'
<1>1. PICK l, b : sent' = [sent EXCEPT !.calls = l, !.blocks = b]
    BY DEF Close
<1>2. /\ sent = [reasoning |-> sent.reasoning, content |-> sent.content,
                 calls |-> sent.calls, blocks |-> sent.blocks]
      /\ sent.reasoning \in Seq(Symbols) /\ sent.content \in Seq(Symbols)
    BY SentFields
<1>3. sent' = [reasoning |-> sent.reasoning, content |-> sent.content, calls |-> l, blocks |-> b]
    BY <1>1, <1>2
<1>4. SentOK' /\ sent'.reasoning = sent.reasoning /\ sent'.content = sent.content
    BY <1>2, <1>3, SentIs
<1>5. pc' = "done" /\ UNCHANGED <<req, text, stop, stream, tool, broken>>
    BY DEF Close
<1> QED
    BY <1>4, <1>5, EndStep

LEMMA WriteFailsStep ==
    ASSUME TurnInv, WriteFails
    PROVE  TurnInv'
<1>1. /\ broken' = TRUE /\ pc' = (IF stream.final THEN "done" ELSE "parse")
      /\ UNCHANGED <<req, text, stop, stream, tool, sent>>
    BY DEF WriteFails
<1>2. SentOK'
    BY <1>1 DEF TurnInv, TurnTypeOK, SentOK
<1> QED
    BY <1>1, <1>2, EndStep

LEMMA TurnStarts ==
    ASSUME Init
    PROVE  TurnInv
<1>1. /\ req \in Requests /\ text = <<>> /\ pc = "token" /\ broken = FALSE
      /\ stop = [from |-> 0, at |-> None] /\ tool = [state |-> "off", at |-> 0, string |-> FALSE]
      /\ sent = [reasoning |-> <<>>, content |-> <<>>, calls |-> <<>>, blocks |-> <<>>]
      /\ stream = [mode |-> stream.mode, pos |-> 0, checked |-> FALSE, upto |-> 0, final |-> FALSE]
      /\ stream.mode \in {"plain", "think", "text"}
    BY DEF Init
<1>2. text \in Seq(Symbols) /\ Len(text) = 0 /\ Leads(text, <<>>)
    BY <1>1 DEF Leads
<1>3. stream \in Streams /\ tool \in ToolStreams /\ stop \in [from : Nat, at : Nat \cup {None}]
  <2>1. PICK m \in Modes : stream = [mode |-> m, pos |-> 0, checked |-> FALSE, upto |-> 0, final |-> FALSE]
    BY <1>1 DEF Modes
  <2>2. stream \in Streams
    BY <2>1 DEF Streams
  <2>3. tool \in ToolStreams
    BY <1>1 DEF ToolStreams
  <2>4. stop \in [from : Nat, at : Nat \cup {None}]
    BY <1>1
  <2> QED BY <2>2, <2>3, <2>4
<1>4. SentOK
  <2>1. sent \in Sents({<<>>}, {<<>>})
    BY <1>1 DEF Sents
  <2> QED BY <2>1 DEF SentOK
<1>5. TurnTypeOK
    BY <1>1, <1>2, <1>3, <1>4 DEF TurnTypeOK
<1>6. ASSUME NEW s \in req.stops, NEW p \in Marks(text, s, 0) PROVE FALSE
  <2>1. s \in Seq(Symbols) /\ Len(s) \in Nat /\ Len(s) > 0
    BY <1>1, LongestIs, StreamAssumption, StringsAre
  <2>2. p \in Nat /\ p + Len(s) <= Len(text)
    <3>1. 0 \in Nat
      OBVIOUS
    <3>2. Marks(text, s, 0) \subseteq Nat /\ \A q \in Marks(text, s, 0) : q + Len(s) <= Len(text)
      BY <1>2, <2>1, <3>1, MarksAre
    <3> QED BY <1>6, <3>2
  <2> QED BY <1>2, <2>1, <2>2
<1>7. StopInv
    BY <1>1, <1>6 DEF StopInv
<1>8. Reached(0)
  <2>1. StopSafe(Len(text)) = 0
    BY <1>1, <1>2, SafeIs
  <2> QED BY <1>1, <1>2, <2>1 DEF Reached
<1>9. PlaceInv
    BY <1>1, <1>2, <1>8 DEF PlaceInv
<1>10. SaidInv
    BY <1>1 DEF SaidInv
<1> QED
    BY <1>5, <1>7, <1>9, <1>10 DEF TurnInv

(* Nothing sent has to be taken back, for any turns, stop sequences and    *)
(* tokens, when texts are cut between characters and no marker ends behind *)
(* the beginning of a stop sequence that was found.                        *)
THEOREM Stands ==
    ASSUME CharactersWhole
    PROVE  Spec /\ []StopApart => []SentStands
<1>1. Init => TurnInv
    BY TurnStarts
<1>2. TurnInv /\ StopApart /\ StopApart' /\ [Next]_vars => TurnInv'
  <2> SUFFICES ASSUME TurnInv, StopApart, StopApart', [Next]_vars
               PROVE  TurnInv'
    OBVIOUS
  <2>1. CASE Sample
    BY <2>1, SampleStep
  <2>2. CASE EndDecoding
    BY <2>2, EndDecodingStep
  <2>3. CASE Observe
    BY <2>3, ObserveStep
  <2>4. CASE StreamPlain
    BY <2>4, StreamPlainStep
  <2>5. CASE CheckThinkPrefix
    BY <2>5, CheckThinkPrefixStep
  <2>6. CASE StreamThinking
    BY <2>6, StreamThinkingStep
  <2>7. CASE StreamText
    BY <2>7, StreamTextStep
  <2>8. CASE StreamTool
    BY <2>8, StreamToolStep
  <2>9. CASE Parse
    BY <2>9, ParseStep
  <2>10. CASE Close
    BY <2>10, CloseStep
  <2>11. CASE WriteFails
    BY <2>11, WriteFailsStep
  <2>12. CASE Done \/ UNCHANGED vars
    <3>1. UNCHANGED <<req, text, pc, stop, stream, tool, sent, broken>>
      BY <2>12 DEF Done, vars
    <3>2. \A n : Reached(n) <=> Reached(n)'
      BY <3>1 DEF Reached, EndsMarker, StopSafe, Longest
    <3>3. TurnTypeOK' /\ SaidInv'
      BY <3>1 DEF TurnInv, TurnTypeOK, SentOK, SaidInv
    <3>4. StopInv' /\ PlaceInv'
      BY <3>1, <3>2 DEF TurnInv, StopInv, PlaceInv, Longest
    <3> QED BY <3>3, <3>4 DEF TurnInv
  <2> QED
    BY <2>1, <2>2, <2>3, <2>4, <2>5, <2>6, <2>7, <2>8, <2>9, <2>10, <2>11, <2>12 DEF Next
<1>3. TurnInv => SentStands
  <2> SUFFICES ASSUME TurnInv PROVE SentStands
    OBVIOUS
  <2>1. Reached(stream.pos) /\ Reached(tool.at) /\ stream.upto <= Len(text)
    BY DEF TurnInv, PlaceInv
  <2>2. tool.at <= Len(text) /\ (stop.at # None => stream.pos <= stop.at /\ tool.at <= stop.at)
    BY <2>1 DEF Reached
  <2> QED BY <2>1, <2>2 DEF TurnInv, SaidInv, SentStands
<1> QED
    BY <1>1, <1>2, <1>3, PTL DEF Spec

-----------------------------------------------------------------------------
(* The whole-text parse gives sequences.                                   *)

Backs(f, L, more, next, head, last) ==
    f = [p \in 0..L |-> IF p \in more THEN head[p] \o f[next[p]] ELSE last[p]]

(* A function whose value at a place follows from its value at a later one *)
(* exists,                                                                 *)
LEMMA Backward ==
    ASSUME NEW L \in Nat, NEW more, NEW next, NEW head, NEW last,
           \A p \in 0..L : p \in more => next[p] \in p + 1 .. L
    PROVE  \E f : Backs(f, L, more, next, head, last)
<1> DEFINE T == {n \in 0..L : \E g : g = [p \in L - n .. L |->
                     IF p \in more THEN head[p] \o g[next[p]] ELSE last[p]]}
<1>1. 0 \in T
  <2>1. L \notin more
    BY DEF T
  <2>2. PICK g : g = [p \in L - 0 .. L |-> last[p]]
    OBVIOUS
  <2>3. \A p \in L - 0 .. L : p \notin more
    BY <2>1
  <2>4. g = [p \in L - 0 .. L |-> IF p \in more THEN head[p] \o g[next[p]] ELSE last[p]]
    BY <2>2, <2>3
  <2>5. \E h : h = [p \in L - 0 .. L |-> IF p \in more THEN head[p] \o h[next[p]] ELSE last[p]]
    BY <2>4, Zenon
  <2>6. 0 \in 0..L
    OBVIOUS
  <2> QED BY <2>5, <2>6, Zenon
<1>2. ASSUME NEW n \in 0..L - 1, n \in T PROVE n + 1 \in T
  <2>1. PICK g : g = [p \in L - n .. L |-> IF p \in more THEN head[p] \o g[next[p]] ELSE last[p]]
    BY <1>2
  <2>2. PICK k \in 0..L : k = L - (n + 1)
    OBVIOUS
  <2>3. PICK h : h = [p \in k .. L |-> IF p = k
                          THEN IF k \in more THEN head[k] \o g[next[k]] ELSE last[k]
                          ELSE g[p]]
    OBVIOUS
  <2>4. \A p \in k..L : p = k \/ p \in L - n .. L
    BY <2>2
  <2>5. \A p \in L - n .. L : p \in k..L /\ p # k
    BY <2>2
  <2>6. \A p \in k..L : p \in more => next[p] \in L - n .. L
    BY <2>2
  <2>7. \A p \in L - n .. L : h[p] = g[p]
    BY <2>3, <2>5
  <2>8. ASSUME NEW p \in k..L
        PROVE  h[p] = IF p \in more THEN head[p] \o h[next[p]] ELSE last[p]
    <3>1. CASE p = k
      BY <2>3, <2>6, <2>7, <3>1
    <3>2. CASE p # k
      <4>1. p \in L - n .. L
        BY <2>4, <3>2
      <4>2. g[p] = IF p \in more THEN head[p] \o g[next[p]] ELSE last[p]
        BY <2>1, <4>1
      <4> QED BY <2>6, <2>7, <4>1, <4>2
    <3> QED BY <3>1, <3>2
  <2>9. h = [p \in k..L |-> IF p \in more THEN head[p] \o h[next[p]] ELSE last[p]]
    BY <2>3, <2>8
  <2>10. n + 1 \in 0..L
    OBVIOUS
  <2> QED BY <2>2, <2>9, <2>10
<1> HIDE DEF T
<1>3. L \in T
  <2>1. \A n \in 0..L : n \in T
    BY <1>1, <1>2, InductUpTo
  <2> QED BY <2>1
<1> QED
  <2>1. PICK g : g = [p \in L - L .. L |-> IF p \in more THEN head[p] \o g[next[p]] ELSE last[p]]
    BY <1>3 DEF T
  <2>2. L - L = 0
    OBVIOUS
  <2> QED BY <2>1, <2>2 DEF Backs

(* and its values end as one of the last ones does.                        *)
LEMMA Backed ==
    ASSUME NEW L \in Nat, NEW A, NEW more, NEW next, NEW head, NEW last, NEW f,
           Backs(f, L, more, next, head, last),
           \A p \in 0..L : p \in more => next[p] \in p + 1 .. L /\ head[p] \in Seq(A),
           \A p \in 0..L : p \notin more => last[p] \in Seq(A) /\ last[p] # <<>>
    PROVE  \A p \in 0..L : /\ f[p] \in Seq(A) /\ f[p] # <<>>
                           /\ \E k \in p..L : k \notin more /\ Last(f[p]) = Last(last[k])
<1> DEFINE OK(p) == /\ f[p] \in Seq(A) /\ f[p] # <<>>
                    /\ \E k \in p..L : k \notin more /\ Last(f[p]) = Last(last[k])
           T == {n \in 0..L : \A p \in L - n .. L : OK(p)}
<1>0. \A p \in 0..L : f[p] = IF p \in more THEN head[p] \o f[next[p]] ELSE last[p]
    BY DEF Backs
<1>1. \A p \in 0..L : p \notin more => OK(p)
    BY <1>0
<1>2. ASSUME NEW p \in 0..L, p \in more, OK(next[p]) PROVE OK(p)
  <2>1. PICK n \in p + 1 .. L : n = next[p]
    BY <1>2
  <2>2. f[p] = head[p] \o f[n] /\ head[p] \in Seq(A) /\ f[n] \in Seq(A) /\ f[n] # <<>>
    BY <1>0, <1>2, <2>1
  <2>3. PICK a \in Seq(A), b \in Seq(A) : a = head[p] /\ b = f[n] /\ f[p] = a \o b /\ b # <<>>
    BY <2>2
  <2>4. Len(a) \in Nat /\ Len(b) \in Nat /\ Len(b) > 0
    <3>1. b # <<>>
      BY <2>3
    <3>2. Len(a) \in Nat /\ Len(b) \in Nat
      BY LenProperties
    <3>3. Len(b) # 0
      BY <3>1, EmptySeq
    <3> QED BY <3>2, <3>3
  <2>5. /\ a \o b \in Seq(A) /\ Len(a \o b) = Len(a) + Len(b)
        /\ \A i \in 1 .. Len(a) + Len(b) : (a \o b)[i] = IF i <= Len(a) THEN a[i] ELSE b[i - Len(a)]
    BY ConcatProperties
  <2>6. PICK m : m = Len(a) + Len(b)
    OBVIOUS
  <2>7. m \in 1 .. Len(a) + Len(b) /\ ~(m <= Len(a)) /\ m - Len(a) = Len(b)
    BY <2>4, <2>6
  <2>8. (a \o b)[m] = b[Len(b)]
    BY <2>5, <2>7
  <2>9. Last(f[p]) = Last(b)
    BY <2>3, <2>5, <2>6, <2>8 DEF Last
  <2>10. f[p] # <<>>
    <3>1. PICK c \in Seq(A) : c = a \o b /\ Len(c) # 0
      <4>1. PICK c \in Seq(A) : c = a \o b
        BY <2>5
      <4>2. Len(c) = m /\ m # 0
        BY <2>4, <2>5, <2>6, <4>1
      <4> QED BY <4>1, <4>2
    <3>2. c # <<>>
      BY <3>1, EmptySeq
    <3> QED BY <2>3, <3>1, <3>2
  <2>11. PICK k \in n..L : k \notin more /\ Last(f[n]) = Last(last[k])
    BY <1>2, <2>1
  <2>12. k \in p..L
    BY <2>1
  <2> QED BY <2>3, <2>5, <2>9, <2>10, <2>11, <2>12
<1> HIDE DEF OK
<1>3. 0 \in T
  <2>1. L \notin more
    OBVIOUS
  <2>2. \A p \in L - 0 .. L : p = L
    OBVIOUS
  <2> QED BY <1>1, <2>1, <2>2
<1>4. ASSUME NEW n \in 0..L - 1, n \in T PROVE n + 1 \in T
  <2>1. ASSUME NEW p \in L - (n + 1) .. L PROVE OK(p)
    <3>1. p \in 0..L
      OBVIOUS
    <3>2. p \in more => next[p] \in L - n .. L
      BY <3>1
    <3> QED BY <1>1, <1>2, <1>4, <3>1, <3>2
  <2>2. n + 1 \in 0..L
    OBVIOUS
  <2> QED BY <2>1, <2>2
<1>5. L \in T
  <2> HIDE DEF T
  <2>1. \A n \in 0..L : n \in T
    BY <1>3, <1>4, InductUpTo
  <2> QED BY <2>1
<1>6. \A p \in 0..L : OK(p)
  <2>1. L - L = 0
    OBVIOUS
  <2> QED BY <1>5, <2>1
<1> QED
    BY <1>6 DEF OK

LEMMA SkipFrom ==
    ASSUME NEW s \in Seq(Symbols), NEW p \in 0..Len(s)
    PROVE  SkipSpace(s, p, Len(s)) \in p..Len(s) /\ SkipSpace(s, p, Len(s)) \in Nat
<1>1. Len(s) \in Nat /\ p \in Nat /\ p <= Len(s)
    BY LenProperties
<1> QED
    BY <1>1, SkipIs

LEMMA TagEndIs ==
    ASSUME NEW s \in Seq(Symbols), NEW q \in Nat, TagEnds(s, q) # {}
    PROVE  Min(TagEnds(s, q)) \in Nat /\ q <= Min(TagEnds(s, q)) /\ Min(TagEnds(s, q)) + 1 <= Len(s)
<1>1. PICK lit \in Seq(Symbols) : lit = <<">">> /\ Len(lit) = 1
  <2>1. <<">">> \in Seq(Symbols) /\ Len(<<">">>) = 1
    BY DEF Symbols
  <2> QED BY <2>1
<1>2. TagEnds(s, q) = Marks(s, lit, q)
    BY <1>1 DEF TagEnds
<1> QED
    BY <1>1, <1>2, MarkedAt

(* The parameters from a place on, and where they end. *)
LEMMA ParamsAre ==
    ASSUME NEW s \in Seq(Symbols)
    PROVE  \E A : \A p \in 0..Len(s) :
               /\ Params(s)[p] \in Seq(A) /\ Params(s)[p] # <<>>
               /\ Last(Params(s)[p]) = None \/ Last(Params(s)[p]) \in p + 1 .. Len(s)
<1>0. PICK L \in Nat : L = Len(s)
    BY LenProperties
<1> DEFINE q(p) == SkipSpace(s, p, L)
           after(p) == Min(Marks(s, ParamEnd, Min(TagEnds(s, q(p))))) + 2
           Body(f, p) == IF At(s, q(p), InvokeEnd) THEN <<q(p) + 2>>
                         ELSE IF HasParam(s, q(p)) THEN <<Param(s, q(p))>> \o f[after(p)]
                         ELSE <<None>>
           more == {p \in 0..L : ~At(s, q(p), InvokeEnd) /\ HasParam(s, q(p))}
           next == [p \in 0..L |-> after(p)]
           head == [p \in 0..L |-> <<Param(s, q(p))>>]
           last == [p \in 0..L |-> IF At(s, q(p), InvokeEnd) THEN <<q(p) + 2>> ELSE <<None>>]
           A == {Param(s, n) : n \in 0..L} \cup Int
<1>1. Params(s) = CHOOSE f : f = [p \in 0..L |-> Body(f, p)]
    BY <1>0, Zenon DEF Params
<1>2. \A p \in 0..L : q(p) \in p..L /\ q(p) \in Nat
    BY <1>0, SkipFrom
<1>3. ASSUME NEW p \in more PROVE after(p) \in p + 1 .. L
  <2>1. /\ q(p) \in Nat /\ p <= q(p) /\ TagEnds(s, q(p)) # {}
        /\ Marks(s, ParamEnd, Min(TagEnds(s, q(p))) + 1) # {}
    BY <1>2 DEF HasParam
  <2>2. PICK e : e = Min(TagEnds(s, q(p)))
    OBVIOUS
  <2>3. e \in Nat /\ q(p) <= e
    BY <2>1, <2>2, TagEndIs
  <2>4. ParamEnd \in Seq(Symbols) /\ Len(ParamEnd) = 2
    BY DEF ParamEnd, Symbols
  <2>5. Marks(s, ParamEnd, e) # {}
    <3>1. PICK m : m \in Marks(s, ParamEnd, e + 1)
      BY <2>1, <2>2
    <3>2. e + 1 \in Nat
      BY <2>3
    <3>3. m \in Nat /\ e + 1 <= m /\ At(s, m, ParamEnd)
      BY <2>4, <3>1, <3>2, MarksAre
    <3>4. m \in Marks(s, ParamEnd, e)
      BY <2>3, <2>4, <3>3, MarksAre
    <3> QED BY <3>4
  <2>6. PICK m : m = Min(Marks(s, ParamEnd, e))
    OBVIOUS
  <2>7. m \in Nat /\ e <= m /\ m + 2 <= L
    BY <1>0, <2>3, <2>4, <2>5, <2>6, MarkedAt
  <2>8. after(p) = m + 2
    BY <2>2, <2>6
  <2> HIDE DEF q, after
  <2> QED BY <1>0, <2>1, <2>3, <2>7, <2>8
<1>4. \A f : \A p \in 0..L : Body(f, p) = IF p \in more THEN head[p] \o f[next[p]] ELSE last[p]
    BY Zenon
<1>5. \A p \in 0..L : p \in more => next[p] \in p + 1 .. L /\ head[p] \in Seq(A)
  <2>1. \A p \in 0..L : <<Param(s, q(p))>> \in Seq(A)
    BY <1>2
  <2> QED BY <1>3, <2>1
<1>6. \A p \in 0..L : p \notin more => last[p] \in Seq(A) /\ last[p] # <<>>
  <2>1. \A n \in Int : <<n>> \in Seq(A) /\ <<n>> # <<>>
    OBVIOUS
  <2>2. ASSUME NEW p \in 0..L PROVE \E n \in Int : last[p] = <<n>>
    <3>1. q(p) + 2 \in Int /\ -1 \in Int
      BY <1>2
    <3>2. last[p] = <<q(p) + 2>> \/ last[p] = <<-1>>
      BY DEF None
    <3> QED BY <3>1, <3>2
  <2> HIDE DEF last, A
  <2> QED BY <2>1, <2>2
<1>7. \A k \in 0..L : Last(last[k]) = None \/ Last(last[k]) \in k + 1 .. L
  <2>1. SUFFICES ASSUME NEW k \in 0..L, At(s, q(k), InvokeEnd) PROVE q(k) + 2 \in k + 1 .. L
    BY DEF Last
  <2>2. q(k) + 2 <= L
    BY <1>0, <2>1 DEF At, InvokeEnd
  <2> QED BY <1>2, <2>2
<1>8. Params(s) = [p \in 0..L |-> Body(Params(s), p)]
  <2> HIDE DEF Body, more, next, head, last
  <2>1. PICK f : f = [p \in 0..L |-> IF p \in more THEN head[p] \o f[next[p]] ELSE last[p]]
    <3>1. \A p \in 0..L : p \in more => next[p] \in p + 1 .. L
      BY <1>5
    <3>2. \E f : Backs(f, L, more, next, head, last)
      BY <3>1, Backward
    <3> QED BY <3>2 DEF Backs
  <2>2. f = [p \in 0..L |-> Body(f, p)]
    BY <1>4, <2>1
  <2> QED BY <1>1, <2>2
<1> HIDE DEF Body, more, next, head, last, A
<1>9. Backs(Params(s), L, more, next, head, last)
    BY <1>4, <1>8 DEF Backs
<1>10. \A p \in 0..L : /\ Params(s)[p] \in Seq(A) /\ Params(s)[p] # <<>>
                       /\ \E k \in p..L : k \notin more /\ Last(Params(s)[p]) = Last(last[k])
    BY <1>5, <1>6, <1>9, Backed
<1>11. ASSUME NEW p \in 0..L
       PROVE  Last(Params(s)[p]) = None \/ Last(Params(s)[p]) \in p + 1 .. L
  <2>1. PICK k \in p..L : Last(Params(s)[p]) = Last(last[k])
    BY <1>10
  <2>2. k \in 0..L /\ k + 1 .. L \subseteq p + 1 .. L
    OBVIOUS
  <2> QED BY <1>7, <2>1, <2>2
<1> QED
    BY <1>0, <1>10, <1>11

LEMMA CallsAre ==
    ASSUME NEW s \in Seq(Symbols)
    PROVE  \E A : \A p \in 0..Len(s) : Calls(s)[p] \in Seq(A) /\ Calls(s)[p] # <<>>
<1>0. PICK L \in Nat : L = Len(s)
    BY LenProperties
<1> DEFINE q(p) == SkipSpace(s, p, L)
           params(p) == Params(s)[Min(TagEnds(s, q(p))) + 1]
           call(p) == [params |-> Front(params(p)), open |-> FALSE]
           goes(p) == /\ At(s, q(p), InvokeStart) /\ TagEnds(s, q(p)) # {}
                      /\ Has(s, q(p), Min(TagEnds(s, q(p))), "name")
                      /\ Last(params(p)) # None
           Body(f, p) == IF At(s, q(p), ToolEnd) THEN <<q(p) + 2>>
                         ELSE IF goes(p) THEN <<call(p)>> \o f[Last(params(p))]
                         ELSE <<None>>
           more == {p \in 0..L : ~At(s, q(p), ToolEnd) /\ goes(p)}
           next == [p \in 0..L |-> Last(params(p))]
           head == [p \in 0..L |-> <<call(p)>>]
           last == [p \in 0..L |-> IF At(s, q(p), ToolEnd) THEN <<q(p) + 2>> ELSE <<None>>]
           A == {call(p) : p \in 0..L} \cup Int
<1>1. Calls(s) = CHOOSE f : f = [p \in 0..L |-> Body(f, p)]
    BY <1>0, Zenon DEF Calls
<1>2. \A p \in 0..L : q(p) \in p..L /\ q(p) \in Nat
    BY <1>0, SkipFrom
<1>3. ASSUME NEW p \in more PROVE Last(params(p)) \in p + 1 .. L
  <2>1. /\ p \in 0..L /\ q(p) \in Nat /\ p <= q(p) /\ TagEnds(s, q(p)) # {}
        /\ Last(params(p)) # None
    BY <1>2
  <2>2. PICK e : e = Min(TagEnds(s, q(p)))
    OBVIOUS
  <2>3. e \in Nat /\ q(p) <= e /\ e + 1 <= L
    BY <1>0, <2>1, <2>2, TagEndIs
  <2>4. PICK n \in 0..L : n = e + 1 /\ p <= n
    BY <2>1, <2>3
  <2>5. Last(Params(s)[n]) = None \/ Last(Params(s)[n]) \in n + 1 .. L
    BY <1>0, ParamsAre
  <2>6. params(p) = Params(s)[n]
    BY <2>2, <2>4
  <2>7. n + 1 .. L \subseteq p + 1 .. L
    BY <2>4
  <2> QED BY <2>1, <2>5, <2>6, <2>7
<1>4. \A f : \A p \in 0..L : Body(f, p) = IF p \in more THEN head[p] \o f[next[p]] ELSE last[p]
    BY Zenon
<1>5. \A p \in 0..L : p \in more => next[p] \in p + 1 .. L /\ head[p] \in Seq(A)
  <2>1. \A p \in 0..L : call(p) \in A
    OBVIOUS
  <2> HIDE DEF call, A
  <2>2. \A p \in 0..L : <<call(p)>> \in Seq(A)
    BY <2>1
  <2> QED BY <1>3, <2>2
<1>6. \A p \in 0..L : p \notin more => last[p] \in Seq(A) /\ last[p] # <<>>
  <2>1. \A n \in Int : <<n>> \in Seq(A) /\ <<n>> # <<>>
    OBVIOUS
  <2>2. ASSUME NEW p \in 0..L PROVE \E n \in Int : last[p] = <<n>>
    <3>1. q(p) + 2 \in Int /\ -1 \in Int
      BY <1>2
    <3>2. last[p] = <<q(p) + 2>> \/ last[p] = <<-1>>
      BY DEF None
    <3> QED BY <3>1, <3>2
  <2> HIDE DEF last, A
  <2> QED BY <2>1, <2>2
<1>7. Backs(Calls(s), L, more, next, head, last)
  <2> HIDE DEF Body, more, next, head, last
  <2>1. PICK f : Backs(f, L, more, next, head, last)
    <3>1. \A p \in 0..L : p \in more => next[p] \in p + 1 .. L
      BY <1>5
    <3> QED BY <3>1, Backward
  <2>2. f = [p \in 0..L |-> Body(f, p)]
    BY <1>4, <2>1 DEF Backs
  <2>3. Calls(s) = [p \in 0..L |-> Body(Calls(s), p)]
    BY <1>1, <2>2
  <2> QED BY <1>4, <2>3 DEF Backs
<1> HIDE DEF Body, more, next, head, last, A
<1>8. \A p \in 0..L : Calls(s)[p] \in Seq(A) /\ Calls(s)[p] # <<>>
  <2>1. \A p \in 0..L : /\ Calls(s)[p] \in Seq(A) /\ Calls(s)[p] # <<>>
                        /\ \E k \in p..L : k \notin more /\ Last(Calls(s)[p]) = Last(last[k])
    BY <1>5, <1>6, <1>7, Backed
  <2> QED BY <2>1
<1> QED
    BY <1>0, <1>8

LEMMA MessageCalls ==
    ASSUME NEW s \in Seq(Symbols)
    PROVE  \E A : Message(s).calls \in Seq(A)
<1>1. PICK A : \A p \in 0..Len(s) : Calls(s)[p] \in Seq(A) /\ Calls(s)[p] # <<>>
    BY CallsAre
<1>2. <<>> \in Seq(A)
    BY EmptySeq
<1>3. CASE Marks(s, ToolStart, 0) = {}
    BY <1>2, <1>3 DEF Message, WithCalls
<1>4. CASE Marks(s, ToolStart, 0) # {}
  <2>1. /\ Marks(s, ToolStart, 0) \subseteq Nat
        /\ \A p \in Marks(s, ToolStart, 0) : p + 2 <= Len(s)
    <3>1. ToolStart \in Seq(Symbols) /\ Len(ToolStart) = 2
      BY MarkersAre DEF Markers
    <3> QED BY <3>1, MarksAre
  <2>2. BlockStart(s) \in Marks(s, ToolStart, 0)
    <3> DEFINE starts == Marks(s, ToolStart, 0)
               separated == {p \in starts : p > 0 /\ s[p] = "n"}
    <3>1. separated # {} => Min(separated) \in separated
      <4>1. separated \subseteq Int /\ (\A p \in separated : 0 <= p) /\ 0 \in Int
        BY <2>1
      <4> HIDE DEF separated
      <4> QED BY <4>1, MinIs
    <3>2. Min(starts) \in starts
      BY <1>4, <2>1, MinIs
    <3> QED BY <3>1, <3>2 DEF BlockStart
  <2>3. PICK p \in Marks(s, ToolStart, 0) : p = BlockStart(s)
    BY <2>2
  <2>4. p + 2 \in 0..Len(s)
    BY <2>1, LenProperties
  <2>5. PICK parsed \in Seq(A) : parsed = Calls(s)[p + 2] /\ parsed # <<>>
    BY <1>1, <2>4
  <2>6. Front(parsed) \in Seq(A)
    <3>1. Len(parsed) \in Nat /\ Len(parsed) # 0
      BY <2>5, LenProperties, EmptySeq
    <3>2. 1 \in Int /\ Len(parsed) - 1 \in Int
      BY <3>1
    <3>3. \A i \in 1..Len(parsed) - 1 : parsed[i] \in A
      BY <3>1, ElementOfSeq
    <3> QED BY <3>2, <3>3, SubSeqProperties DEF Front
  <2>7. Message(s).calls \in {Front(parsed), <<>>}
    BY <1>4, <2>3, <2>5 DEF Message, WithCalls
  <2> QED BY <1>2, <2>6, <2>7
<1> QED
    BY <1>3, <1>4

-----------------------------------------------------------------------------
(* The blocks of an Anthropic message.                                     *)

Block == [type : {"reasoning", "content", "tool"}, open : BOOLEAN]
Opened(type) == [type |-> type, open |-> TRUE]
Closed(type) == [type |-> type, open |-> FALSE]

(* The blocks there may be while the stream is in a mode. *)
BlocksOf(mode) ==
    CASE mode = "think" -> {<<>>, <<Opened("reasoning")>>}
      [] mode = "text" -> {<<>>, <<Closed("reasoning")>>, <<Opened("content")>>,
                           <<Closed("reasoning"), Opened("content")>>}
      [] mode = "off" -> {<<>>, <<Closed("reasoning")>>, <<Closed("content")>>,
                          <<Closed("reasoning"), Closed("content")>>}

BlocksTypeOK ==
    /\ req \in Requests /\ text \in Seq(Symbols)
    /\ stop.from \in Nat /\ stop.at \in Nat \cup {None}
    /\ stop.at # None => stop.at <= Len(text)
    /\ stream = [mode |-> stream.mode, pos |-> stream.pos, checked |-> stream.checked,
                 upto |-> stream.upto, final |-> stream.final]
    /\ sent = [reasoning |-> sent.reasoning, content |-> sent.content,
               calls |-> sent.calls, blocks |-> sent.blocks]

BlocksInv ==
    /\ req.api # "anthropic" => sent.blocks = <<>>
    /\ req.api = "anthropic" =>
         /\ stream.mode \in {"think", "text", "off"} /\ pc \notin {"plain", "tool"}
         /\ pc \in {"think", "text"} => stream.mode = pc
         /\ pc = "close" => stream.mode = "off"
         /\ pc # "done" => sent.blocks \in BlocksOf(stream.mode)
         /\ pc = "done" => BlocksInOrder

(* A block and the next one. *)
Follows(a, b) ==
    \/ a = "tool"
    \/ a = "reasoning" /\ b \in {"content", "tool"}
    \/ a = "content" /\ b = "tool"

(* BlocksInOrder of any blocks. *)
InOrder(blocks, whole) ==
    LET rank == [reasoning |-> 1, content |-> 2, tool |-> 3]
        types == [k \in DOMAIN blocks |-> rank[blocks[k].type]]
    IN  /\ \A k \in DOMAIN blocks : blocks[k].open => k = Len(blocks) /\ ~whole
        /\ \A k \in 1 .. Len(types) - 1 : types[k] < types[k + 1] \/ types[k] = 3

LEMMA InOrderIs ==
    ASSUME NEW b \in Seq(Block), NEW whole,
           \A k \in 1..Len(b) : b[k].open => k = Len(b) /\ ~whole,
           \A k \in 1..Len(b) - 1 : Follows(b[k].type, b[k + 1].type)
    PROVE  InOrder(b, whole)
<1> DEFINE rank == [reasoning |-> 1, content |-> 2, tool |-> 3]
           types == [k \in DOMAIN b |-> rank[b[k].type]]
<1>1. PICK n \in Nat : n = Len(b) /\ DOMAIN b = 1..n
    BY LenProperties
<1>2. \A k \in 1..n : b[k] \in Block
    BY <1>1, ElementOfSeq
<1>3. types = [k \in 1..n |-> rank[b[k].type]]
    BY <1>1
<1>4. \A k \in 1..n : rank[b[k].type] \in Int
    BY <1>2 DEF Block
<1>5. Len(types) = n
  <2> HIDE DEF rank
  <2>1. types \in [1..n -> Int]
    BY <1>3, <1>4
  <2>2. types \in Seq(Int)
    BY <2>1, IsASeq
  <2>3. DOMAIN types = 1..n
    BY <2>1
  <2> HIDE DEF types
  <2> QED BY <1>1, <2>2, <2>3, LenProperties
<1>6. ASSUME NEW k \in 1..n - 1 PROVE types[k] < types[k + 1] \/ types[k] = 3
  <2>1. k \in 1..n /\ k + 1 \in 1..n
    BY <1>1
  <2>2. Follows(b[k].type, b[k + 1].type)
    BY <1>1
  <2>3. types[k] = rank[b[k].type] /\ types[k + 1] = rank[b[k + 1].type]
    BY <1>3, <2>1
  <2> QED BY <2>2, <2>3 DEF Follows
<1> QED
    BY <1>1, <1>5, <1>6 DEF InOrder

LEMMA BlockTuples ==
    /\ \A t \in {"reasoning", "content", "tool"} : Opened(t) \in Block /\ Closed(t) \in Block
    /\ \A x \in Block : <<x>> \in Seq(Block) /\ Len(<<x>>) = 1 /\ <<x>>[1] = x
    /\ \A x, y \in Block : /\ <<x, y>> \in Seq(Block) /\ Len(<<x, y>>) = 2
                           /\ <<x, y>>[1] = x /\ <<x, y>>[2] = y
<1>1. \A t \in {"reasoning", "content", "tool"} : Opened(t) \in Block /\ Closed(t) \in Block
    BY DEF Opened, Closed, Block
<1>2. ASSUME NEW x \in Block, NEW y \in Block
      PROVE  /\ <<x>> \in Seq(Block) /\ Len(<<x>>) = 1 /\ <<x>>[1] = x
             /\ <<x, y>> \in Seq(Block) /\ Len(<<x, y>>) = 2
             /\ <<x, y>>[1] = x /\ <<x, y>>[2] = y
    OBVIOUS
<1> QED
    BY <1>1, <1>2

LEMMA ShortInOrder ==
    ASSUME NEW mode \in {"think", "text", "off"}, NEW b \in BlocksOf(mode), NEW whole, ~whole
    PROVE  InOrder(b, whole)
<1>2. b \in {<<>>, <<Opened("reasoning")>>, <<Closed("reasoning")>>, <<Opened("content")>>,
             <<Closed("content")>>, <<Closed("reasoning"), Opened("content")>>,
             <<Closed("reasoning"), Closed("content")>>}
    BY DEF BlocksOf
<1>3. /\ b \in Seq(Block)
      /\ \A k \in 1..Len(b) : b[k].open => k = Len(b)
      /\ \A k \in 1..Len(b) - 1 : Follows(b[k].type, b[k + 1].type)
  <2>1. CASE b = <<>>
    BY <2>1, EmptySeq
  <2>2. CASE \E x \in Block : b = <<x>>
    BY <2>2
  <2>3. CASE \E y \in {Opened("content"), Closed("content")} : b = <<Closed("reasoning"), y>>
    <3>1. PICK y \in {Opened("content"), Closed("content")} : b = <<Closed("reasoning"), y>>
      BY <2>3
    <3>2. PICK x \in Block : x = Closed("reasoning") /\ y \in Block
      BY <3>1, BlockTuples
    <3>3. b \in Seq(Block) /\ Len(b) = 2 /\ b[1] = x /\ b[2] = y
      BY <3>1, <3>2, BlockTuples
    <3>4. ~x.open /\ Follows(x.type, y.type)
      BY <3>1, <3>2 DEF Opened, Closed, Follows
    <3>5. \A k \in 1..2 : k = 1 \/ k = 2
      OBVIOUS
    <3>6. \A k \in 1..2 - 1 : k = 1
      OBVIOUS
    <3> QED BY <3>3, <3>4, <3>5, <3>6
  <2> QED BY <1>2, <2>1, <2>2, <2>3, BlockTuples
<1> QED
    BY <1>3, InOrderIs

LEMMA ToolsInOrder ==
    ASSUME NEW b \in BlocksOf("off"), NEW n \in Nat, NEW whole
    PROVE  InOrder(b \o [k \in 1..n |-> Closed("tool")], whole)
<1>1. PICK t : t = [k \in 1..n |-> Closed("tool")]
    OBVIOUS
<1>2. t \in Seq(Block) /\ Len(t) = n /\ \A k \in 1..n : t[k] = Closed("tool")
  <2>1. Closed("tool") \in Block
    BY DEF Closed, Block
  <2>2. t \in [1..n -> Block] /\ DOMAIN t = 1..n
    BY <1>1, <2>1
  <2>3. t \in Seq(Block)
    BY <2>2, IsASeq
  <2> QED BY <1>1, <2>2, <2>3, LenProperties
<1>3. /\ b \in Seq(Block) /\ Len(b) \in Nat /\ \A k \in 1..Len(b) : ~b[k].open
      /\ \A k \in 1..Len(b) - 1 : Follows(b[k].type, b[k + 1].type)
      /\ \A k \in 1..Len(b) : b[k].type \in {"reasoning", "content"}
  <2>1. b \in {<<>>, <<Closed("reasoning")>>, <<Closed("content")>>,
               <<Closed("reasoning"), Closed("content")>>}
    BY DEF BlocksOf
  <2>2. CASE b = <<>>
    BY <2>2, EmptySeq
  <2>3. CASE \E x \in {Closed("reasoning"), Closed("content")} : b = <<x>>
    <3>1. PICK x \in {Closed("reasoning"), Closed("content")} : b = <<x>> /\ x \in Block
      BY <2>3, BlockTuples
    <3>2. b \in Seq(Block) /\ Len(b) = 1 /\ b[1] = x
      BY <3>1, BlockTuples
    <3>3. ~x.open /\ x.type \in {"reasoning", "content"}
      BY <3>1 DEF Closed
    <3> QED BY <3>2, <3>3
  <2>4. CASE b = <<Closed("reasoning"), Closed("content")>>
    BY <2>4 DEF Closed, Block, Follows
  <2> QED BY <2>1, <2>2, <2>3, <2>4
<1>4. PICK c : c = b \o t
    OBVIOUS
<1>5. /\ c \in Seq(Block) /\ Len(c) = Len(b) + n
      /\ \A k \in 1..Len(b) + n : c[k] = IF k <= Len(b) THEN b[k] ELSE t[k - Len(b)]
    BY <1>2, <1>3, <1>4, ConcatProperties
<1>6. \A k \in 1..Len(c) : IF k <= Len(b) THEN c[k] = b[k] ELSE c[k] = Closed("tool")
    BY <1>2, <1>3, <1>5
<1>7. \A k \in 1..Len(c) : ~c[k].open
    BY <1>3, <1>6 DEF Closed
<1>8. ASSUME NEW k \in 1..Len(c) - 1 PROVE Follows(c[k].type, c[k + 1].type)
  <2>1. k \in 1..Len(c) /\ k + 1 \in 1..Len(c)
    BY <1>3, <1>5
  <2>2. CASE k + 1 <= Len(b)
    <3>1. k \in 1..Len(b) - 1 /\ k <= Len(b)
      BY <1>3, <2>2
    <3> QED BY <1>3, <1>6, <2>1, <2>2, <3>1
  <2>3. CASE k <= Len(b) /\ ~(k + 1 <= Len(b))
    <3>1. k \in 1..Len(b)
      BY <2>3
    <3>2. c[k + 1].type = "tool"
      BY <1>6, <2>1, <2>3 DEF Closed
    <3> QED BY <1>3, <1>6, <2>1, <2>3, <3>1, <3>2 DEF Follows
  <2>4. CASE ~(k <= Len(b))
    BY <1>6, <2>1, <2>4 DEF Closed, Follows
  <2> QED BY <1>3, <2>2, <2>3, <2>4
<1> QED
    BY <1>1, <1>4, <1>5, <1>7, <1>8, InOrderIs

LEMMA TuplesAre ==
    ASSUME NEW b \in Seq(Block)
    PROVE  (Len(b) = 1 => b = <<b[1]>>) /\ (Len(b) = 2 => b = <<b[1], b[2]>>)
<1>1. CASE Len(b) = 1
  <2>1. b[1] \in Block
    BY <1>1, ElementOfSeq
  <2>2. <<b[1]>> \in Seq(Block) /\ Len(<<b[1]>>) = 1 /\ <<b[1]>>[1] = b[1]
    BY <2>1, BlockTuples
  <2>3. \A i \in 1..1 : i = 1
    OBVIOUS
  <2> QED BY <1>1, <2>2, <2>3, SeqEqual
<1>2. CASE Len(b) = 2
  <2>1. b[1] \in Block /\ b[2] \in Block
    BY <1>2, ElementOfSeq
  <2>2. PICK t \in Seq(Block) : t = <<b[1], b[2]>> /\ Len(t) = 2 /\ t[1] = b[1] /\ t[2] = b[2]
    <3>1. PICK x \in Block, y \in Block : x = b[1] /\ y = b[2]
      BY <2>1
    <3>2. /\ <<x, y>> \in Seq(Block) /\ Len(<<x, y>>) = 2
          /\ <<x, y>>[1] = x /\ <<x, y>>[2] = y
      BY BlockTuples
    <3> QED BY <3>1, <3>2
  <2>3. \A i \in 1..2 : i = 1 \/ i = 2
    OBVIOUS
  <2>4. \A i \in 1..Len(b) : b[i] = t[i]
    BY <1>2, <2>2, <2>3
  <2>5. b = t
    BY <1>2, <2>2, <2>4, SeqEqual
  <2> QED BY <1>2, <2>2, <2>5
<1> QED
    BY <1>1, <1>2

LEMMA CloseLastIs ==
    ASSUME NEW b \in Seq(Block), Len(b) > 0
    PROVE  /\ CloseLast(b) \in Seq(Block) /\ Len(CloseLast(b)) = Len(b)
           /\ \A i \in 1..Len(b) : CloseLast(b)[i] = IF i = Len(b) THEN Closed(b[i].type) ELSE b[i]
<1>1. PICK n \in Nat : n = Len(b) /\ n > 0 /\ b \in [1..n -> Block]
    BY LenProperties
<1>2. b # <<>>
    BY EmptySeq
<1>3. CloseLast(b) = [b EXCEPT ![n] = [b[n] EXCEPT !.open = FALSE]]
    BY <1>1, <1>2 DEF CloseLast
<1>4. n \in 1..n /\ b[n] \in Block
    BY <1>1
<1>5. [b[n] EXCEPT !.open = FALSE] = Closed(b[n].type) /\ Closed(b[n].type) \in Block
  <2>1. PICK x \in Block : x = b[n]
    BY <1>4
  <2>2. [x EXCEPT !.open = FALSE] = Closed(x.type)
    <3>1. /\ [x EXCEPT !.open = FALSE] \in Block
          /\ [x EXCEPT !.open = FALSE].type = x.type /\ [x EXCEPT !.open = FALSE].open = FALSE
      BY DEF Block
    <3>2. x.type \in {"reasoning", "content", "tool"}
      BY DEF Block
    <3>3. /\ Closed(x.type) \in Block
          /\ Closed(x.type).type = x.type /\ Closed(x.type).open = FALSE
      BY <3>2, BlockTuples DEF Closed
    <3>4. \A y, z \in Block : y.type = z.type /\ y.open = z.open => y = z
      BY DEF Block
    <3> QED BY <3>1, <3>3, <3>4
  <2>3. x.type \in {"reasoning", "content", "tool"}
    BY DEF Block
  <2> QED BY <2>1, <2>2, <2>3, BlockTuples
<1>6. CloseLast(b) = [b EXCEPT ![n] = Closed(b[n].type)]
    BY <1>3, <1>5
<1>7. /\ CloseLast(b) \in [1..n -> Block]
      /\ \A i \in 1..n : CloseLast(b)[i] = IF i = n THEN Closed(b[i].type) ELSE b[i]
    BY <1>1, <1>5, <1>6
<1>8. CloseLast(b) \in Seq(Block)
    BY <1>7, IsASeq
<1>9. Len(CloseLast(b)) = n
  <2>1. PICK c \in Seq(Block) : c = CloseLast(b) /\ DOMAIN c = 1..n
    BY <1>7, <1>8
  <2>2. Len(c) = n
    BY <1>1, <2>1, LenProperties
  <2> QED BY <2>1, <2>2
<1> QED
    BY <1>1, <1>7, <1>8, <1>9

(* Closing the last of one or two blocks. *)
LEMMA CloseTuples ==
    /\ CloseLast(<<>>) = <<>>
    /\ \A x \in Block : CloseLast(<<x>>) = <<Closed(x.type)>>
    /\ \A x, y \in Block : CloseLast(<<x, y>>) = <<x, Closed(y.type)>>
<1>1. CloseLast(<<>>) = <<>>
    BY DEF CloseLast
<1>2. ASSUME NEW x \in Block PROVE CloseLast(<<x>>) = <<Closed(x.type)>>
  <2>1. PICK b \in Seq(Block) : b = <<x>> /\ Len(b) = 1 /\ b[1] = x
    BY BlockTuples
  <2>2. 1 \in 1..Len(b) /\ Len(b) > 0
    BY <2>1
  <2>3. CloseLast(b) \in Seq(Block) /\ Len(CloseLast(b)) = 1 /\ CloseLast(b)[1] = Closed(x.type)
    BY <2>1, <2>2, CloseLastIs
  <2> QED BY <2>1, <2>3, TuplesAre
<1>3. ASSUME NEW x \in Block, NEW y \in Block PROVE CloseLast(<<x, y>>) = <<x, Closed(y.type)>>
  <2>0. /\ <<x, y>> \in Seq(Block) /\ Len(<<x, y>>) = 2
        /\ <<x, y>>[1] = x /\ <<x, y>>[2] = y
    BY BlockTuples
  <2>1. PICK b \in Seq(Block) : b = <<x, y>> /\ Len(b) = 2 /\ b[1] = x /\ b[2] = y
    BY <2>0
  <2>2. 1 \in 1..Len(b) /\ 2 \in 1..Len(b) /\ Len(b) > 0 /\ 1 # Len(b)
    BY <2>1
  <2>3. /\ CloseLast(b) \in Seq(Block) /\ Len(CloseLast(b)) = 2
        /\ CloseLast(b)[1] = x /\ CloseLast(b)[2] = Closed(y.type)
    BY <2>1, <2>2, CloseLastIs
  <2> QED BY <2>1, <2>3, TuplesAre
<1> QED
    BY <1>1, <1>2, <1>3

LEMMA ThinkBlocks ==
    ASSUME NEW b \in BlocksOf("think"), NEW o \in {b, OpenFor(b, "reasoning")}
    PROVE  /\ o \in BlocksOf("think")
           /\ CloseLast(o) \in BlocksOf("text") /\ CloseLast(o) \in BlocksOf("off")
<1>1. b \in {<<>>, <<Opened("reasoning")>>}
    BY DEF BlocksOf
<1>2. OpenFor(<<>>, "reasoning") = <<Opened("reasoning")>>
    BY DEF OpenFor, Opened
<1>3. OpenFor(<<Opened("reasoning")>>, "reasoning") = <<Opened("reasoning")>>
    BY DEF OpenFor, Opened, Last
<1>4. o \in {<<>>, <<Opened("reasoning")>>}
    BY <1>1, <1>2, <1>3
<1>5. CloseLast(<<>>) = <<>> /\ CloseLast(<<Opened("reasoning")>>) = <<Closed("reasoning")>>
  <2>1. PICK x \in Block : x = Opened("reasoning")
    BY BlockTuples
  <2>2. x.type = "reasoning"
    BY <2>1 DEF Opened
  <2> QED BY <2>1, <2>2, CloseTuples
<1> QED
    BY <1>4, <1>5 DEF BlocksOf

LEMMA TextBlocks ==
    ASSUME NEW b \in BlocksOf("text"), NEW o \in {b, OpenFor(b, "content")}
    PROVE  o \in BlocksOf("text") /\ CloseLast(o) \in BlocksOf("off")
<1>1. b \in {<<>>, <<Closed("reasoning")>>, <<Opened("content")>>,
             <<Closed("reasoning"), Opened("content")>>}
    BY DEF BlocksOf
<1>2. OpenFor(<<>>, "content") = <<Opened("content")>>
    BY DEF OpenFor, Opened
<1>3. OpenFor(<<Closed("reasoning")>>, "content") = <<Closed("reasoning"), Opened("content")>>
  <2>1. PICK x \in Block : x = Closed("reasoning")
    BY BlockTuples
  <2>2. Last(<<x>>) = x /\ <<x>> # <<>>
    BY DEF Last
  <2>3. x # Opened("content")
    BY <2>1 DEF Opened, Closed
  <2>4. OpenFor(<<x>>, "content") = Append(<<x>>, Opened("content"))
    BY <2>2, <2>3 DEF OpenFor, Opened
  <2>5. Append(<<x>>, Opened("content")) = <<x, Opened("content")>>
    <3>1. PICK y \in Block : y = Opened("content")
      BY BlockTuples
    <3>2. PICK d \in Seq(Block) : d = <<x>> /\ Len(d) = 1 /\ d[1] = x
      BY BlockTuples
    <3>3. PICK c : c = Append(d, y)
      OBVIOUS
    <3>4. c \in Seq(Block) /\ Len(c) = 2 /\ c[1] = x /\ c[2] = y
      BY <3>2, <3>3, AppendProperties
    <3> QED BY <3>1, <3>2, <3>3, <3>4, TuplesAre
  <2> QED BY <2>1, <2>4, <2>5
<1>4. OpenFor(<<Opened("content")>>, "content") = <<Opened("content")>>
    BY DEF OpenFor, Opened, Last
<1>5. OpenFor(<<Closed("reasoning"), Opened("content")>>, "content") =
          <<Closed("reasoning"), Opened("content")>>
    BY DEF OpenFor, Opened, Closed, Last
<1>6. o \in {<<>>, <<Closed("reasoning")>>, <<Opened("content")>>,
             <<Closed("reasoning"), Opened("content")>>}
    BY <1>1, <1>2, <1>3, <1>4, <1>5
<1>7. /\ CloseLast(<<>>) = <<>>
      /\ CloseLast(<<Closed("reasoning")>>) = <<Closed("reasoning")>>
      /\ CloseLast(<<Opened("content")>>) = <<Closed("content")>>
      /\ CloseLast(<<Closed("reasoning"), Opened("content")>>) =
             <<Closed("reasoning"), Closed("content")>>
  <2>1. PICK x \in Block, y \in Block : x = Closed("reasoning") /\ y = Opened("content")
    BY BlockTuples
  <2>2. x.type = "reasoning" /\ y.type = "content"
    BY <2>1 DEF Opened, Closed
  <2> QED BY <2>1, <2>2, CloseTuples
<1> QED
    BY <1>6, <1>7 DEF BlocksOf

LEMMA DeliverBlocks ==
    ASSUME BlocksTypeOK, NEW field \in {"reasoning", "content"}, NEW upto, NEW close \in BOOLEAN,
           Deliver(field, upto, close)
    PROVE  /\ sent' = [reasoning |-> sent'.reasoning, content |-> sent'.content,
                       calls |-> sent'.calls, blocks |-> sent'.blocks]
           /\ req.api # "anthropic" => sent'.blocks = sent.blocks
           /\ req.api = "anthropic" =>
                  \E o \in {sent.blocks, OpenFor(sent.blocks, field)} :
                      sent'.blocks = IF close THEN CloseLast(o) ELSE o
<1> DEFINE said == IF upto > stream.pos THEN Say(field, upto) ELSE sent
           opened == IF upto > stream.pos THEN OpenFor(sent.blocks, field) ELSE sent.blocks
<1>1. sent' = IF req.api = "anthropic"
              THEN [said EXCEPT !.blocks = IF close THEN CloseLast(opened) ELSE opened]
              ELSE said
    BY DEF Deliver
<1>2. opened \in {sent.blocks, OpenFor(sent.blocks, field)}
    OBVIOUS
<1>3. sent = [reasoning |-> sent.reasoning, content |-> sent.content,
              calls |-> sent.calls, blocks |-> sent.blocks]
    BY DEF BlocksTypeOK
<1>4. PICK r, c : said = [reasoning |-> r, content |-> c, calls |-> sent.calls, blocks |-> sent.blocks]
  <2>1. PICK part : part = Part(text, stream.pos, upto)
    OBVIOUS
  <2>2. Say(field, upto) = [sent EXCEPT ![field] = @ \o part]
    BY <2>1 DEF Say
  <2>3. Say(field, upto) = [reasoning |-> IF field = "reasoning" THEN sent.reasoning \o part ELSE sent.reasoning,
                            content |-> IF field = "content" THEN sent.content \o part ELSE sent.content,
                            calls |-> sent.calls, blocks |-> sent.blocks]
    BY <1>3, <2>2
  <2> QED BY <1>3, <2>3
<1> HIDE DEF said, opened
<1>5. CASE req.api = "anthropic"
  <2>1. PICK b : b = IF close THEN CloseLast(opened) ELSE opened
    OBVIOUS
  <2>2. sent' = [said EXCEPT !.blocks = b]
    BY <1>1, <1>5, <2>1
  <2>3. sent' = [reasoning |-> r, content |-> c, calls |-> sent.calls, blocks |-> b]
    BY <1>4, <2>2
  <2>4. sent'.blocks = b /\ sent' = [reasoning |-> sent'.reasoning, content |-> sent'.content,
                                     calls |-> sent'.calls, blocks |-> sent'.blocks]
    BY <2>3
  <2> QED BY <1>2, <1>5, <2>1, <2>4
<1>6. CASE req.api # "anthropic"
    BY <1>1, <1>4, <1>6
<1> QED
    BY <1>5, <1>6

(* Steps that leave the request, the text and the stop sequences alone. *)
LEMMA TypeKept ==
    ASSUME BlocksTypeOK, UNCHANGED <<req, text, stop>>,
           stream' = [mode |-> stream'.mode, pos |-> stream'.pos, checked |-> stream'.checked,
                      upto |-> stream'.upto, final |-> stream'.final],
           sent' = [reasoning |-> sent'.reasoning, content |-> sent'.content,
                    calls |-> sent'.calls, blocks |-> sent'.blocks]
    PROVE  BlocksTypeOK'
BY DEF BlocksTypeOK

LEMMA SampleType ==
    ASSUME BlocksTypeOK, Sample
    PROVE  BlocksTypeOK'
<1> DEFINE found == UNION {Marks(text', s, stop.from) : s \in req.stops}
           hit == found # {}
           from == IF hit \/ Longest <= 1 THEN stop.from ELSE Max({0, Len(text') - (Longest - 1)})
           at == IF hit THEN Min(found) ELSE None
<1>1. /\ text' \in Longer /\ UNCHANGED <<req, sent>>
      /\ stop' = [from |-> from, at |-> at]
      /\ \E u : stream' = [stream EXCEPT !.upto = u]
    BY DEF Sample
<1>2. /\ req \in Requests /\ text \in Seq(Symbols) /\ stop.from \in Nat
      /\ stream = [mode |-> stream.mode, pos |-> stream.pos, checked |-> stream.checked,
                   upto |-> stream.upto, final |-> stream.final]
      /\ sent = [reasoning |-> sent.reasoning, content |-> sent.content,
                 calls |-> sent.calls, blocks |-> sent.blocks]
    BY DEF BlocksTypeOK
<1>3. text' \in Seq(Symbols) /\ Len(text') \in Nat
    BY <1>1, <1>2, LongerIs, LenProperties
<1>4. \A s \in req.stops : s \in Seq(Symbols) /\ Len(s) \in Nat
    BY <1>2, StreamAssumption, StringsAre, LenProperties
<1>5. found \subseteq 0..Len(text')
  <2>1. SUFFICES ASSUME NEW s \in req.stops, NEW p \in Marks(text', s, stop.from)
                 PROVE  p \in 0..Len(text')
    OBVIOUS
  <2>2. p \in Nat /\ p + Len(s) <= Len(text')
    BY <1>2, <1>3, <1>4, MarksAre
  <2> QED BY <1>3, <1>4, <2>2
<1> HIDE DEF found
<1>6. hit => Min(found) \in 0..Len(text')
  <2>1. found \subseteq Int /\ (\A n \in found : 0 <= n) /\ 0 \in Int
    BY <1>5
  <2>2. hit => Min(found) \in found
    BY <2>1, MinIs
  <2> QED BY <1>5, <2>2
<1>7. from \in Nat
  <2>1. Longest \in Nat
    BY <1>2, LongestIs
  <2>2. Max({0, Len(text') - (Longest - 1)}) =
            IF 0 <= Len(text') - (Longest - 1) THEN Len(text') - (Longest - 1) ELSE 0
    BY <1>3, <2>1, MaxOfTwo
  <2> QED BY <1>2, <1>3, <2>1, <2>2
<1> HIDE DEF from
<1>8. at \in Nat \cup {None} /\ (at # None => at <= Len(text'))
    BY <1>6, <1>3
<1> HIDE DEF at
<1>9. stop'.from = from /\ stop'.at = at
    BY <1>1
<1>10. stream' = [mode |-> stream'.mode, pos |-> stream'.pos, checked |-> stream'.checked,
                  upto |-> stream'.upto, final |-> stream'.final]
    BY <1>1, <1>2
<1> QED
    BY <1>1, <1>2, <1>3, <1>7, <1>8, <1>9, <1>10 DEF BlocksTypeOK

LEMMA ObserveType ==
    ASSUME BlocksTypeOK, Observe
    PROVE  BlocksTypeOK'
<1>1. /\ UNCHANGED <<req, stop, stream, sent>>
      /\ text' = IF stop.at = None THEN text ELSE Part(text, 0, stop.at)
    BY DEF Observe
<1>2. CASE stop.at = None
    BY <1>1, <1>2 DEF BlocksTypeOK
<1>3. CASE stop.at # None
  <2>1. text \in Seq(Symbols) /\ stop.at \in 0..Len(text)
    <3>1. Len(text) \in Nat
      BY LenProperties DEF BlocksTypeOK
    <3> QED BY <1>3, <3>1 DEF BlocksTypeOK
  <2>2. Part(text, 0, stop.at) \in Seq(Symbols) /\ Len(Part(text, 0, stop.at)) = stop.at
    BY <2>1, PartLeads
  <2>3. text' \in Seq(Symbols) /\ Len(text') = stop.at
    BY <1>1, <1>3, <2>2
  <2> QED BY <1>1, <1>3, <2>1, <2>3 DEF BlocksTypeOK
<1> QED
    BY <1>2, <1>3

LEMMA BlocksKept ==
    ASSUME BlocksInv, UNCHANGED req, sent'.blocks = sent.blocks, stream'.mode = stream.mode,
           pc # "done", pc' # "done",
           req.api = "anthropic" => /\ pc' \notin {"plain", "tool"}
                                    /\ pc' \in {"think", "text"} => stream.mode = pc'
                                    /\ pc' = "close" => stream.mode = "off"
    PROVE  BlocksInv'
BY DEF BlocksInv

LEMMA OtherBlocks ==
    ASSUME BlocksInv, UNCHANGED req, sent'.blocks = sent.blocks, req.api # "anthropic"
    PROVE  BlocksInv'
BY DEF BlocksInv

LEMMA BlocksStep ==
    ASSUME UNCHANGED req, req.api = "anthropic", stream'.mode \in {"think", "text", "off"},
           pc' \notin {"plain", "tool", "done"}, pc' \in {"think", "text"} => stream'.mode = pc',
           pc' = "close" => stream'.mode = "off", sent'.blocks \in BlocksOf(stream'.mode)
    PROVE  BlocksInv'
BY DEF BlocksInv

LEMMA FormIs ==
    ASSUME BlocksTypeOK
    PROVE  /\ stream = [mode |-> stream.mode, pos |-> stream.pos, checked |-> stream.checked,
                        upto |-> stream.upto, final |-> stream.final]
           /\ sent = [reasoning |-> sent.reasoning, content |-> sent.content,
                      calls |-> sent.calls, blocks |-> sent.blocks]
BY DEF BlocksTypeOK

LEMMA DecodeBlocks ==
    ASSUME BlocksTypeOK, BlocksInv, Sample \/ EndDecoding \/ Observe
    PROVE  BlocksTypeOK' /\ BlocksInv'
<1>1. CASE Sample
  <2>1. /\ pc = "token" /\ UNCHANGED <<req, sent>>
        /\ \E u : stream' = [stream EXCEPT !.upto = u]
        /\ pc' = IF stream.mode = "off" THEN "observe" ELSE stream.mode
    BY <1>1 DEF Sample
  <2>2. stream'.mode = stream.mode
    BY <2>1, FormIs
  <2>3. req.api = "anthropic" => stream.mode \in {"think", "text", "off"}
    BY DEF BlocksInv
  <2>4. CASE req.api = "anthropic"
    <3>1. pc' # "done" /\ pc' \notin {"plain", "tool"} /\ pc' # "close"
          /\ (pc' \in {"think", "text"} => stream.mode = pc')
      BY <2>1, <2>3, <2>4
    <3>2. UNCHANGED req /\ sent'.blocks = sent.blocks /\ pc # "done"
      BY <2>1
    <3> QED BY <1>1, <2>2, <3>1, <3>2, SampleType, BlocksKept
  <2>5. CASE req.api # "anthropic"
    BY <1>1, <2>1, <2>5, SampleType, OtherBlocks
  <2> QED BY <2>4, <2>5
<1>2. CASE EndDecoding
  <2>1. pc = "token" /\ pc' = "parse" /\ UNCHANGED <<req, text, stop, stream, sent>>
    BY <1>2 DEF EndDecoding
  <2>2. BlocksTypeOK'
    BY <2>1 DEF BlocksTypeOK
  <2> QED BY <2>1, <2>2, BlocksKept
<1>3. CASE Observe
  <2>1. pc = "observe" /\ pc' \in {"token", "parse"} /\ UNCHANGED <<req, stream, sent>>
    BY <1>3 DEF Observe
  <2> QED BY <1>3, <2>1, ObserveType, BlocksKept
<1> QED
    BY <1>1, <1>2, <1>3

LEMMA ThinkingBlocks ==
    ASSUME BlocksTypeOK, BlocksInv, CheckThinkPrefix \/ StreamThinking
    PROVE  BlocksTypeOK' /\ BlocksInv'
<1>1. CASE CheckThinkPrefix
  <2>1. /\ pc = "think" /\ UNCHANGED <<req, text, stop, sent>>
        /\ pc' = pc \/ pc' = "observe"
        /\ stream' = stream \/ \E p : stream' = [stream EXCEPT !.checked = TRUE, !.pos = p]
    BY <1>1 DEF CheckThinkPrefix, Return
  <2>2. /\ stream'.mode = stream.mode
        /\ stream' = [mode |-> stream'.mode, pos |-> stream'.pos, checked |-> stream'.checked,
                      upto |-> stream'.upto, final |-> stream'.final]
    BY <2>1, FormIs
  <2>3. BlocksTypeOK'
    BY <2>1, <2>2, FormIs, TypeKept
  <2>4. req.api = "anthropic" => stream.mode = "think"
    BY <2>1 DEF BlocksInv
  <2> QED BY <2>1, <2>2, <2>3, <2>4, BlocksKept
<1>2. CASE StreamThinking
  <2> DEFINE close == Closes # {} \/ stream.final
  <2>1. /\ pc = "think" /\ Deliver("reasoning", ThinkLimit, close) /\ UNCHANGED <<req, text, stop>>
        /\ \E p : stream' = IF Closes # {} THEN [stream EXCEPT !.pos = p, !.mode = "text"]
                            ELSE [stream EXCEPT !.pos = p,
                                     !.mode = IF stream.final THEN "off" ELSE stream.mode]
        /\ pc' = IF Closes # {} THEN "text" ELSE IF stream.final THEN "close" ELSE "observe"
    BY <1>2 DEF StreamThinking, Return
  <2>2. /\ stream'.mode = IF Closes # {} THEN "text" ELSE IF stream.final THEN "off" ELSE stream.mode
        /\ stream' = [mode |-> stream'.mode, pos |-> stream'.pos, checked |-> stream'.checked,
                      upto |-> stream'.upto, final |-> stream'.final]
    BY <2>1, FormIs
  <2>3. close \in BOOLEAN
    <3>1. CASE close BY <3>1
    <3>2. CASE ~close BY <3>2
    <3> QED BY <3>1, <3>2
  <2> HIDE DEF close
  <2>4. /\ sent' = [reasoning |-> sent'.reasoning, content |-> sent'.content,
                    calls |-> sent'.calls, blocks |-> sent'.blocks]
        /\ req.api # "anthropic" => sent'.blocks = sent.blocks
        /\ req.api = "anthropic" =>
               \E o \in {sent.blocks, OpenFor(sent.blocks, "reasoning")} :
                   sent'.blocks = IF close THEN CloseLast(o) ELSE o
    BY <2>1, <2>3, DeliverBlocks
  <2>5. BlocksTypeOK'
    BY <2>1, <2>2, <2>4, TypeKept
  <2>6. CASE req.api # "anthropic"
    BY <2>1, <2>4, <2>5, <2>6, OtherBlocks
  <2>7. CASE req.api = "anthropic"
    <3>1. stream.mode = "think" /\ sent.blocks \in BlocksOf("think")
      BY <2>1, <2>7 DEF BlocksInv
    <3>2. PICK o \in {sent.blocks, OpenFor(sent.blocks, "reasoning")} :
              sent'.blocks = IF close THEN CloseLast(o) ELSE o
      BY <2>4, <2>7
    <3>3. /\ o \in BlocksOf("think")
          /\ CloseLast(o) \in BlocksOf("text") /\ CloseLast(o) \in BlocksOf("off")
      BY <3>1, ThinkBlocks
    <3>4. sent'.blocks \in BlocksOf(stream'.mode)
      BY <2>2, <3>1, <3>2, <3>3 DEF close
    <3>5. /\ pc' \in {"text", "close", "observe"} /\ stream'.mode \in {"think", "text", "off"}
          /\ pc' = "text" => stream'.mode = "text"
          /\ pc' = "close" => stream'.mode = "off"
      BY <2>1, <2>2, <3>1
    <3> QED BY <2>1, <2>5, <2>7, <3>4, <3>5, BlocksStep
  <2> QED BY <2>6, <2>7
<1> QED
    BY <1>1, <1>2

LEMMA ContentBlocks ==
    ASSUME BlocksTypeOK, BlocksInv, StreamText
    PROVE  BlocksTypeOK' /\ BlocksInv'
<1> DEFINE close == Starts # {} \/ stream.final
           live == Starts # {} /\ req.api = "openai" /\ Min(Starts) + 2 <= stream.upto
<1>1. /\ pc = "text" /\ Deliver("content", TextLimit, close) /\ UNCHANGED <<req, text, stop>>
      /\ \E p : stream' = IF Starts # {}
                          THEN [stream EXCEPT !.pos = p, !.mode = IF live THEN "tool" ELSE "off"]
                          ELSE [stream EXCEPT !.pos = p,
                                   !.mode = IF stream.final THEN "off" ELSE stream.mode]
      /\ pc' = IF live THEN "tool" ELSE IF stream.final THEN "close" ELSE "observe"
    BY DEF StreamText, Return
<1>2. /\ stream'.mode = IF Starts # {} THEN IF live THEN "tool" ELSE "off"
                        ELSE IF stream.final THEN "off" ELSE stream.mode
      /\ stream' = [mode |-> stream'.mode, pos |-> stream'.pos, checked |-> stream'.checked,
                    upto |-> stream'.upto, final |-> stream'.final]
    BY <1>1, FormIs
<1>3. close \in BOOLEAN /\ (req.api = "anthropic" => ~live)
  <2>1. CASE close BY <2>1
  <2>2. CASE ~close BY <2>2
  <2> QED BY <2>1, <2>2
<1> HIDE DEF close, live
<1>4. /\ sent' = [reasoning |-> sent'.reasoning, content |-> sent'.content,
                  calls |-> sent'.calls, blocks |-> sent'.blocks]
      /\ req.api # "anthropic" => sent'.blocks = sent.blocks
      /\ req.api = "anthropic" =>
             \E o \in {sent.blocks, OpenFor(sent.blocks, "content")} :
                 sent'.blocks = IF close THEN CloseLast(o) ELSE o
    BY <1>1, <1>3, DeliverBlocks
<1>5. BlocksTypeOK'
    BY <1>1, <1>2, <1>4, TypeKept
<1>6. CASE req.api # "anthropic"
    BY <1>1, <1>4, <1>5, <1>6, OtherBlocks
<1>7. CASE req.api = "anthropic"
  <2>1. stream.mode = "text" /\ sent.blocks \in BlocksOf("text") /\ ~live
    BY <1>1, <1>3, <1>7 DEF BlocksInv
  <2>2. PICK o \in {sent.blocks, OpenFor(sent.blocks, "content")} :
            sent'.blocks = IF close THEN CloseLast(o) ELSE o
    BY <1>4, <1>7
  <2>3. o \in BlocksOf("text") /\ CloseLast(o) \in BlocksOf("off")
    BY <2>1, TextBlocks
  <2>4. sent'.blocks \in BlocksOf(stream'.mode)
    BY <1>2, <2>1, <2>2, <2>3 DEF close
  <2>5. pc' \in {"close", "observe"} /\ stream'.mode \in {"off", "text"}
        /\ (pc' = "close" => stream'.mode = "off")
    BY <1>1, <1>2, <2>1
  <2> QED BY <1>1, <1>5, <1>7, <2>4, <2>5, BlocksStep
<1> QED
    BY <1>6, <1>7

LEMMA BlocksDone ==
    ASSUME UNCHANGED req, stream'.mode \in {"think", "text", "off"}, pc' = "done",
           InOrder(sent'.blocks, Whole')
    PROVE  req.api = "anthropic" => BlocksInv'
<1>1. BlocksInOrder'
    BY DEF BlocksInOrder, InOrder
<1> QED
    BY <1>1 DEF BlocksInv

LEMMA OtherStreams ==
    ASSUME BlocksTypeOK, BlocksInv, StreamPlain \/ StreamTool
    PROVE  BlocksTypeOK' /\ BlocksInv'
<1>1. CASE StreamPlain
  <2>1. /\ pc = "plain" /\ Deliver("content", stream.upto, FALSE) /\ UNCHANGED <<req, text, stop>>
        /\ \E p : stream' = [stream EXCEPT !.pos = p]
    BY <1>1 DEF StreamPlain
  <2>2. stream' = [mode |-> stream'.mode, pos |-> stream'.pos, checked |-> stream'.checked,
                   upto |-> stream'.upto, final |-> stream'.final]
    BY <2>1, FormIs
  <2>3. req.api # "anthropic"
    BY <2>1 DEF BlocksInv
  <2>4. /\ sent' = [reasoning |-> sent'.reasoning, content |-> sent'.content,
                    calls |-> sent'.calls, blocks |-> sent'.blocks]
        /\ sent'.blocks = sent.blocks
    BY <2>1, <2>3, DeliverBlocks
  <2> QED BY <2>1, <2>2, <2>3, <2>4, TypeKept, OtherBlocks
<1>2. CASE StreamTool
  <2>1. /\ pc = "tool" /\ UNCHANGED <<req, text, stop>>
        /\ stream' \in {stream, [stream EXCEPT !.mode = "off"]}
    BY <1>2 DEF StreamTool, ToolWaits, ToolDone, ToolFails, ToolStops, StartInvoke, EndInvoke,
           StartParam, EndParam, StreamValue, Live, AtInvoke, AtParam
  <2>2. stream' = [mode |-> stream'.mode, pos |-> stream'.pos, checked |-> stream'.checked,
                   upto |-> stream'.upto, final |-> stream'.final]
    BY <2>1, FormIs
  <2>3. req.api # "anthropic"
    BY <2>1 DEF BlocksInv
  <2>4. PICK c : sent' = [sent EXCEPT !.calls = c]
    <3>1. CASE ToolWaits \/ ToolDone \/ ToolFails
      <4>1. sent' = sent
        BY <3>1 DEF ToolWaits, ToolDone, ToolFails, ToolStops
      <4>2. sent' = [sent EXCEPT !.calls = sent.calls]
        BY <4>1, FormIs
      <4> QED BY <4>2
    <3>2. CASE StartInvoke
      BY <3>2 DEF StartInvoke
    <3>3. CASE EndInvoke
      <4>1. sent' = [sent EXCEPT !.calls = [sent.calls EXCEPT ![Len(sent.calls)].open = FALSE]]
        BY <3>3 DEF EndInvoke
      <4> QED BY <4>1
    <3>4. CASE StartParam
      <4>1. PICK p : sent' = [sent EXCEPT !.calls = [sent.calls EXCEPT ![Len(sent.calls)].params = Append(@, p)]]
        BY <3>4 DEF StartParam
      <4> QED BY <4>1
    <3>5. CASE EndParam \/ StreamValue
      <4>1. sent' = sent \/ \E upto : sent' = SayValue(upto)
        BY <3>5 DEF EndParam, StreamValue
      <4>2. CASE sent' = sent
        BY <4>2, FormIs
      <4>3. CASE \E upto : sent' = SayValue(upto)
        <5>1. PICK upto : sent' = SayValue(upto)
          BY <4>3
        <5>2. PICK part : part = IF tool.string THEN Unescape(Part(text, tool.at, upto))
                                 ELSE Part(text, tool.at, upto)
          OBVIOUS
        <5>3. sent' = [sent EXCEPT !.calls =
                  [sent.calls EXCEPT ![Len(sent.calls)].params[Len(Last(sent.calls).params)].value = @ \o part]]
          BY <5>1, <5>2 DEF SayValue
        <5> QED BY <5>3
      <4> QED BY <4>1, <4>2, <4>3
    <3> QED BY <1>2, <3>1, <3>2, <3>3, <3>4, <3>5 DEF StreamTool
  <2>5. /\ sent' = [reasoning |-> sent'.reasoning, content |-> sent'.content,
                    calls |-> sent'.calls, blocks |-> sent'.blocks]
        /\ sent'.blocks = sent.blocks
    BY <2>4, FormIs
  <2> QED BY <2>1, <2>2, <2>3, <2>5, TypeKept, OtherBlocks
<1> QED
    BY <1>1, <1>2

LEMMA EndBlocks ==
    ASSUME BlocksTypeOK, BlocksInv, Parse \/ WriteFails
    PROVE  BlocksTypeOK' /\ BlocksInv'
<1>1. /\ pc # "done" /\ UNCHANGED <<req, text, stop, sent>>
      /\ stream' = stream \/ \E u : stream' = [stream EXCEPT !.upto = u, !.final = TRUE]
      /\ \/ pc' = "done" /\ broken'
         \/ pc' = "parse"
         \/ pc' = IF stream.mode = "off" THEN "close" ELSE stream.mode
  <2>1. CASE Parse
    <3>1. /\ pc' = IF broken THEN "done"
                   ELSE IF stream.mode = "off" THEN "close" ELSE stream.mode
          /\ broken' = broken
      BY <2>1 DEF Parse
    <3>2. CASE broken
      BY <2>1, <3>1, <3>2 DEF Parse
    <3>3. CASE ~broken
      BY <2>1, <3>1, <3>3 DEF Parse
    <3> QED BY <3>2, <3>3
  <2>2. CASE WriteFails
    BY <2>2 DEF WriteFails, Writes, AtInvoke, AtParam, Live
  <2> QED BY <2>1, <2>2
<1>2. /\ stream'.mode = stream.mode
      /\ stream' = [mode |-> stream'.mode, pos |-> stream'.pos, checked |-> stream'.checked,
                    upto |-> stream'.upto, final |-> stream'.final]
    BY <1>1, FormIs
<1>3. BlocksTypeOK'
    BY <1>1, <1>2, FormIs, TypeKept
<1>4. CASE req.api # "anthropic"
    BY <1>1, <1>3, <1>4, OtherBlocks
<1>5. CASE req.api = "anthropic"
  <2>1. stream.mode \in {"think", "text", "off"} /\ sent.blocks \in BlocksOf(stream.mode)
    BY <1>1, <1>5 DEF BlocksInv
  <2>2. CASE pc' = "done" /\ broken'
    <3>1. ~Whole'
      BY <2>2, Zenon DEF Whole
    <3>2. sent.blocks = sent'.blocks
      BY <1>1
    <3>3. PICK whole : whole = Whole'
      OBVIOUS
    <3>4. InOrder(sent'.blocks, Whole')
      <4>1. ~whole
        BY <3>1, <3>3
      <4>2. InOrder(sent.blocks, whole)
        BY <2>1, <4>1, ShortInOrder
      <4> QED BY <3>2, <3>3, <4>2
    <3> QED BY <1>1, <1>2, <1>3, <1>5, <2>1, <2>2, <3>4, BlocksDone
  <2>3. CASE ~(pc' = "done" /\ broken')
    BY <1>1, <1>2, <1>3, <1>5, <2>1, <2>3, BlocksStep
  <2> QED BY <2>2, <2>3
<1> QED
    BY <1>4, <1>5

LEMMA CloseBlocks ==
    ASSUME BlocksTypeOK, BlocksInv, Close
    PROVE  BlocksTypeOK' /\ BlocksInv'
<1> DEFINE calls == IF req.api = "plain" THEN <<>> ELSE Message(text).calls
           quiet == /\ \E k \in DOMAIN sent.blocks : sent.blocks[k].type = "reasoning"
                    /\ \A k \in DOMAIN sent.blocks : sent.blocks[k].type # "content"
                    /\ calls = <<>>
           base == IF quiet THEN Append(sent.blocks, Closed("content")) ELSE sent.blocks
<1>1. /\ pc = "close" /\ pc' = "done" /\ UNCHANGED <<req, text, stop, stream>>
      /\ sent' = [sent EXCEPT
             !.calls = IF sent.calls = <<>> THEN calls ELSE sent.calls,
             !.blocks = IF req.api # "anthropic" THEN sent.blocks
                        ELSE base \o [k \in DOMAIN calls |-> Closed("tool")]]
    BY DEF Close, Closed
<1>2. PICK c, b : /\ b = IF req.api # "anthropic" THEN sent.blocks
                         ELSE base \o [k \in DOMAIN calls |-> Closed("tool")]
                  /\ sent' = [sent EXCEPT !.calls = c, !.blocks = b]
    BY <1>1
<1> HIDE DEF base, calls
<1>3. /\ sent' = [reasoning |-> sent'.reasoning, content |-> sent'.content,
                  calls |-> sent'.calls, blocks |-> sent'.blocks]
      /\ sent'.blocks = b
    BY <1>2, FormIs
<1>4. BlocksTypeOK'
    BY <1>1, <1>3, FormIs, TypeKept
<1>5. CASE req.api # "anthropic"
    BY <1>1, <1>2, <1>3, <1>4, <1>5, OtherBlocks
<1>6. CASE req.api = "anthropic"
  <2>1. stream.mode = "off" /\ sent.blocks \in BlocksOf("off")
    BY <1>1, <1>6 DEF BlocksInv
  <2>2. PICK n \in Nat : DOMAIN calls = 1..n
    <3>1. PICK A : Message(text).calls \in Seq(A)
      BY MessageCalls DEF BlocksTypeOK
    <3>2. calls = Message(text).calls
      BY <1>6 DEF calls
    <3> QED BY <3>1, <3>2, LenProperties
  <2>3. base \in BlocksOf("off")
    <3>1. CASE quiet
      <4>1. sent.blocks \in {<<>>, <<Closed("reasoning")>>, <<Closed("content")>>,
                             <<Closed("reasoning"), Closed("content")>>}
        BY <2>1 DEF BlocksOf
      <4>2. PICK x \in Block, y \in Block : x = Closed("reasoning") /\ y = Closed("content")
        BY BlockTuples
      <4>3. x.type = "reasoning" /\ y.type = "content"
        BY <4>2 DEF Closed
      <4>4. /\ <<x>> \in Seq(Block) /\ Len(<<x>>) = 1 /\ <<x>>[1] = x
            /\ <<y>> \in Seq(Block) /\ Len(<<y>>) = 1 /\ <<y>>[1] = y
            /\ <<x, y>> \in Seq(Block) /\ Len(<<x, y>>) = 2 /\ <<x, y>>[2] = y
        BY BlockTuples
      <4>5. DOMAIN <<>> = {} /\ 1 \in DOMAIN <<y>> /\ 2 \in DOMAIN <<x, y>>
        OBVIOUS
      <4>6. sent.blocks = <<x>>
        BY <3>1, <4>1, <4>2, <4>3, <4>4, <4>5
      <4>7. PICK s \in Seq(Block) : s = <<x>> /\ Len(s) = 1 /\ s[1] = x
        BY <4>4
      <4>8. Append(s, y) \in Seq(Block) /\ Len(Append(s, y)) = 2 /\ Append(s, y)[1] = x
            /\ Append(s, y)[2] = y
        BY <4>7, AppendProperties
      <4>9. base = <<x, y>>
        BY <3>1, <4>2, <4>6, <4>7, <4>8, TuplesAre DEF base
      <4> QED BY <4>2, <4>9 DEF BlocksOf
    <3>2. CASE ~quiet
      BY <2>1, <3>2 DEF base
    <3> QED BY <3>1, <3>2
  <2>4. b = base \o [k \in 1..n |-> Closed("tool")]
    BY <1>2, <1>6, <2>2
  <2>5. InOrder(sent'.blocks, Whole')
    BY <1>3, <2>3, <2>4, ToolsInOrder
  <2> QED BY <1>1, <1>4, <1>6, <2>1, <2>5, BlocksDone
<1> QED
    BY <1>5, <1>6

(* The blocks of a message follow one another, and none is left open in a  *)
(* whole one, whatever the texts, the tokens and the stop sequences are.   *)
THEOREM Blocks ==
    Spec => []BlocksInOrder
<1>1. Init => BlocksTypeOK /\ BlocksInv
  <2> SUFFICES ASSUME Init PROVE BlocksTypeOK /\ BlocksInv
    OBVIOUS
  <2>1. /\ req \in Requests /\ text = <<>> /\ pc = "token"
        /\ stop = [from |-> 0, at |-> None]
        /\ sent = [reasoning |-> <<>>, content |-> <<>>, calls |-> <<>>, blocks |-> <<>>]
        /\ stream = [mode |-> IF req.api = "plain" THEN "plain"
                              ELSE IF req.think THEN "think" ELSE "text",
                     pos |-> 0, checked |-> FALSE, upto |-> 0, final |-> FALSE]
    BY DEF Init
  <2>2. BlocksTypeOK
    BY <2>1 DEF BlocksTypeOK
  <2>3. BlocksInv
    BY <2>1 DEF BlocksInv, BlocksOf
  <2> QED BY <2>2, <2>3
<1>2. BlocksTypeOK /\ BlocksInv /\ [Next]_vars => (BlocksTypeOK /\ BlocksInv)'
  <2> SUFFICES ASSUME BlocksTypeOK, BlocksInv, [Next]_vars
               PROVE  BlocksTypeOK' /\ BlocksInv'
    OBVIOUS
  <2>1. CASE Sample \/ EndDecoding \/ Observe
    BY <2>1, DecodeBlocks
  <2>2. CASE CheckThinkPrefix \/ StreamThinking
    BY <2>2, ThinkingBlocks
  <2>3. CASE StreamText
    BY <2>3, ContentBlocks
  <2>4. CASE StreamPlain \/ StreamTool
    BY <2>4, OtherStreams
  <2>5. CASE Parse \/ WriteFails
    BY <2>5, EndBlocks
  <2>6. CASE Close
    BY <2>6, CloseBlocks
  <2>7. CASE Done \/ UNCHANGED vars
    <3>1. UNCHANGED vars
      BY <2>7 DEF Done
    <3>2. BlocksTypeOK'
      BY <3>1 DEF vars, BlocksTypeOK
    <3>3. BlocksInOrder <=> BlocksInOrder'
      BY <3>1 DEF vars, BlocksInOrder, Whole
    <3>4. BlocksInv'
      BY <3>1, <3>3 DEF vars, BlocksInv
    <3> QED BY <3>2, <3>4
  <2> QED
    BY <2>1, <2>2, <2>3, <2>4, <2>5, <2>6, <2>7 DEF Next
<1>3. BlocksTypeOK /\ BlocksInv => BlocksInOrder
  <2> SUFFICES ASSUME BlocksTypeOK, BlocksInv PROVE BlocksInOrder
    OBVIOUS
  <2>1. CASE req.api = "anthropic" /\ pc = "done"
    BY <2>1 DEF BlocksInv
  <2>2. CASE req.api = "anthropic" /\ pc # "done"
    <3>1. ~Whole
      BY <2>2 DEF Whole
    <3>2. stream.mode \in {"think", "text", "off"} /\ sent.blocks \in BlocksOf(stream.mode)
      BY <2>2 DEF BlocksInv
    <3>3. InOrder(sent.blocks, Whole)
      BY <3>1, <3>2, ShortInOrder
    <3> QED BY <3>3 DEF InOrder, BlocksInOrder
  <2>3. CASE req.api # "anthropic"
    <3>1. sent.blocks = <<>>
      BY <2>3 DEF BlocksInv
    <3>2. sent.blocks \in Seq(Block) /\ Len(sent.blocks) = 0
      BY <3>1, EmptySeq
    <3>3. InOrder(sent.blocks, Whole)
      BY <3>2, InOrderIs
    <3> QED BY <3>3 DEF InOrder, BlocksInOrder
  <2> QED BY <2>1, <2>2, <2>3
<1> QED
    BY <1>1, <1>2, <1>3, PTL DEF Spec

=============================================================================
