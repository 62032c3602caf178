------------------------ MODULE KvCheckpointsProofs ------------------------
(***************************************************************************)
(* The checkpoint policy for any prompts, vocabulary, options and any      *)
(* number of jobs, faults and restarts: what the files of the directory    *)
(* are, that generation continues the client's text, and that a disk hit   *)
(* is the longest there is.                                                *)
(***************************************************************************)
EXTENDS KvCheckpoints, SequenceTheorems, WellFoundedInduction, TLAPS

CONSTANT Chars       \* the symbols of texts: bytes and the markers

(* What the tokenizer and the renderer are, as far as the proofs use it.
   Types first; then that the tokens of a text spell it (the tokenizer cuts
   bytes and merges pieces, it drops none), and that a history renders token
   by token (render_tokens_text appends the text of each). *)
TextsTyped ==
    /\ Prompts \subseteq Seq(Chars)
    /\ {ThinkTag, ThinkEnd, Eos} \subseteq Chars
    /\ \A text \in Seq(Chars) : /\ Tokenize(text) \in Seq(Vocab)
                                /\ Rerendered(text) \subseteq Seq(Chars)
    /\ \A toks \in Seq(Vocab) : TextOf(toks) \in Seq(Chars)

TextsSpell ==
    /\ \A text \in Seq(Chars) : TextOf(Tokenize(text)) = text
    /\ \A s, t \in Seq(Vocab) : TextOf(s \o t) = TextOf(s) \o TextOf(t)

-----------------------------------------------------------------------------
(* Types. *)

File == [text : Seq(Chars), tokens : Seq(Vocab), hits : Nat, run : Runs]

Jobs  == [text : Seq(Chars), tools : BOOLEAN]
Syncs == [goal : Seq(Vocab), at : Nat, quiet : BOOLEAN,
          next : {"idle", "coldstore", "synced", "rewritten"}]
Saves == [note : BOOLEAN, fresh : BOOLEAN,
          next : {"idle", "load", "full", "decode", "chunk", "sample", "exit"}]

Saving == pc \in {"store", "write", "evict"}
Going(p) == pc = p \/ (Saving /\ save.next = p)
Syncing == pc = "sync" \/ Going("chunk")

KTypeOK ==
    /\ run \in Runs
    /\ live \in Seq(Vocab) /\ valid \in BOOLEAN
    /\ disk \in Seq(File)
    /\ job \in Jobs /\ want \in Seq(Chars) /\ eff \in Seq(Vocab)
    /\ sync \in Syncs /\ save \in Saves
    /\ out \in Seq(Vocab)

(* The history never passes the context; a chunk is cut within its goal; and
   a file is written only of a valid history, long enough, whose name is
   free. *)
LengthInv ==
    /\ Len(live) <= run.ctx
    /\ Going("sample") => Len(live) < run.ctx
    /\ Syncing => sync.next # "idle"
    /\ Going("chunk") => sync.at <= Len(sync.goal) /\ Len(sync.goal) < run.ctx
    /\ pc = "write" => valid /\ Len(live) >= MinTokens /\ LiveName = {}

FilesInv == KTypeOK /\ LengthInv /\ FilesAreCheckpoints

(* What the session is brought to: tokens of the wanted text, which is the
   client's until the turn is rewritten; nothing is generated before decode;
   and a sync that ends leaves exactly its goal. *)
Prefilling == \/ \E p \in {"load", "cold", "coldstore", "full", "synced"} : Going(p)
              \/ Syncing /\ sync.next # "rewritten"
TurnInv ==
    /\ TextOf(eff) = want
    /\ Prefilling \/ Generating => want = job.text
    /\ Prefilling \/ Going("idle") \/ Going("exit") => out = <<>>
    /\ Syncing => sync.goal = eff \/ sync.next = "coldstore"
    /\ pc = "synced" => valid /\ live = eff

TurnOK == TurnInv /\ GeneratesFromPrompt
IInv == FilesInv /\ TurnOK

-----------------------------------------------------------------------------
(* Numbers and sequences. *)

(* A set of naturals that is not empty has a least element.  (The library
   states well-foundedness for a relation given as an operator.) *)
Below == {p \in Nat \X Nat : p[1] < p[2]}

LEMMA LeastNat ==
    ASSUME NEW T, T \subseteq Nat, T # {}
    PROVE  \E m \in T : \A n \in T : m <= n
<1>1. IsWellFoundedOn(Below, Nat)
    BY NatLessThanWellFounded DEF OpToRel, Below
<1>2. PICK m \in T : \A n \in T : ~ (<<n, m>> \in Below)
    BY <1>1, WFMin, Zenon
<1>3. \A n \in T : ~ (n < m)
    BY <1>2 DEF Below
<1> QED
    BY <1>3

(* The operators of the library find the largest and the smaller number. *)
LEMMA MaxUpTo ==
    ASSUME NEW n \in Nat, NEW T, T \subseteq 0 .. n, T # {}
    PROVE  Max(T) \in T /\ \A i \in T : i <= Max(T)
<1> DEFINE Gaps == {n - i : i \in T}
<1>0. \A i \in T : i \in Nat /\ i <= n
    OBVIOUS
<1>1. Gaps \subseteq Nat /\ Gaps # {}
  <2>1. \A i \in T : n - i \in Nat
    BY <1>0
  <2>2. \E i \in T : n - i \in Gaps
    OBVIOUS
  <2> QED BY <2>1, <2>2
<1>2. PICK g \in Gaps : \A h \in Gaps : g <= h
    BY <1>1, LeastNat
<1>3. PICK m \in T : g = n - m
    OBVIOUS
<1>4. \A i \in T : i <= m
  <2> TAKE i \in T
  <2>1. g <= n - i
    BY <1>2
  <2> QED BY <1>0, <1>3, <2>1
<1> QED
    BY <1>4 DEF Max

(* Min of two numbers is the smaller one. *)
LEMMA MinOfTwo ==
    ASSUME NEW a \in Int, NEW b \in Int
    PROVE  Min({a, b}) = IF a <= b THEN a ELSE b
BY DEF Min

(* RemoveAt leaves out one place: the places after it move down by one. *)
LEMMA RemoveAtIs ==
    ASSUME NEW S, NEW s \in Seq(S), NEW i \in 1 .. Len(s)
    PROVE  /\ RemoveAt(s, i) \in Seq(S)
           /\ Len(RemoveAt(s, i)) = Len(s) - 1
           /\ \A j \in 1 .. Len(s) - 1 : RemoveAt(s, i)[j] = IF j < i THEN s[j] ELSE s[j + 1]
<1> DEFINE a == SubSeq(s, 1, i - 1)
           b == SubSeq(s, i + 1, Len(s))
<1>0. Len(s) \in Nat /\ \A j \in 1 .. Len(s) : s[j] \in S
    BY LenProperties, ElementOfSeq
<1>1. a \in Seq(S) /\ Len(a) = i - 1 /\ \A j \in 1 .. i - 1 : a[j] = s[j]
  <2>1. \A j \in 1 .. i - 1 : s[j] \in S
    BY <1>0
  <2>2. i - 1 \in Int /\ 1 \in Int
    OBVIOUS
  <2> QED BY <2>1, <2>2, SubSeqProperties
<1>2. b \in Seq(S) /\ Len(b) = Len(s) - i /\ \A j \in 1 .. Len(s) - i : b[j] = s[i + j]
  <2>1. \A j \in i + 1 .. Len(s) : s[j] \in S
    BY <1>0
  <2>2. i + 1 \in Int /\ Len(s) \in Int
    BY <1>0
  <2>3. /\ b \in Seq(S)
        /\ Len(b) = IF i + 1 <= Len(s) THEN Len(s) - (i + 1) + 1 ELSE 0
        /\ \A j \in 1 .. Len(s) - (i + 1) + 1 : b[j] = s[(i + 1) + j - 1]
    BY <2>1, <2>2, SubSeqProperties
  <2> QED BY <1>0, <2>3
<1>3. RemoveAt(s, i) = a \o b
    BY DEF RemoveAt
<1>4. /\ a \o b \in Seq(S)
      /\ Len(a \o b) = Len(a) + Len(b)
      /\ \A j \in 1 .. Len(a) + Len(b) : (a \o b)[j] = IF j <= Len(a) THEN a[j] ELSE b[j - Len(a)]
    BY <1>1, <1>2, ConcatProperties
<1> HIDE DEF a, b
<1>5. ASSUME NEW j \in 1 .. Len(s) - 1
      PROVE  (a \o b)[j] = IF j < i THEN s[j] ELSE s[j + 1]
  <2>1. j \in Int /\ i \in Int /\ (j < i \/ j >= i)
    BY <1>0
  <2>2. j < i => (a \o b)[j] = s[j]
    BY <1>0, <1>1, <1>2, <1>4
  <2>3. j >= i => (a \o b)[j] = s[j + 1]
    <3> SUFFICES ASSUME j >= i PROVE (a \o b)[j] = s[j + 1]
      OBVIOUS
    <3>1. (a \o b)[j] = b[j - (i - 1)]
      BY <1>0, <1>1, <1>2, <1>4
    <3>2. j - (i - 1) \in 1 .. Len(s) - i
      BY <1>0
    <3>3. b[j - (i - 1)] = s[i + (j - (i - 1))]
      BY <1>2, <3>2
    <3>4. i + (j - (i - 1)) = j + 1
      OBVIOUS
    <3> QED BY <3>1, <3>3, <3>4
  <2> QED BY <2>1, <2>2, <2>3
<1> QED
    BY <1>0, <1>1, <1>2, <1>3, <1>4, <1>5

(* A cut of a sequence is a sequence, and a prefix is followed by the rest. *)
LEMMA CutIsSeq ==
    ASSUME NEW S, NEW s \in Seq(S), NEW m \in Nat \ {0}, NEW n \in Int, n <= Len(s)
    PROVE  /\ SubSeq(s, m, n) \in Seq(S)
           /\ Len(SubSeq(s, m, n)) = IF m <= n THEN n - m + 1 ELSE 0
BY LenProperties, ElementOfSeq, SubSeqProperties

LEMMA PrefixThenRest ==
    ASSUME NEW S, NEW s \in Seq(S), NEW t \in Seq(S), IsPrefix(s, t)
    PROVE  /\ SubSeq(t, Len(s) + 1, Len(t)) \in Seq(S)
           /\ s \o SubSeq(t, Len(s) + 1, Len(t)) = t
<1>1. Len(s) \in Nat /\ Len(t) \in Nat /\ Len(s) <= Len(t)
    BY LenProperties DEF IsPrefix
<1>2. SubSeq(t, 1, Len(s)) = s
    BY SubSeqFull DEF IsPrefix
<1>3. SubSeq(t, 1, Len(s)) \o SubSeq(t, Len(s) + 1, Len(t)) = SubSeq(t, 1, Len(t))
  <2>1. 1 \in 1 .. Len(t) + 1 /\ Len(s) \in 1 - 1 .. Len(t) /\ Len(t) \in Len(s) .. Len(t)
    BY <1>1
  <2> QED BY <2>1, ConcatAdjacentSubSeq
<1>4. SubSeq(t, 1, Len(t)) = t
    BY SubSeqFull
<1>5. SubSeq(t, Len(s) + 1, Len(t)) \in Seq(S)
  <2>1. Len(s) + 1 \in Nat \ {0} /\ Len(t) \in Int /\ Len(t) <= Len(t)
    BY <1>1
  <2> QED BY <2>1, CutIsSeq
<1> QED
    BY <1>2, <1>3, <1>4, <1>5

-----------------------------------------------------------------------------
(* Directories. *)

Whole(d) ==
    \A i \in DOMAIN d :
        /\ d[i].text = TextOf(d[i].tokens)
        /\ Len(d[i].tokens) \in MinTokens .. d[i].run.ctx
        /\ \A j \in DOMAIN d : d[i].text = d[j].text => i = j

(* The property the run checks, stated of a directory. *)
LEMMA FilesAreWhole == FilesAreCheckpoints <=> Whole(disk)
BY DEF FilesAreCheckpoints, Whole

(* What is left after a deletion is whole, and the name deleted is free. *)
LEMMA RemoveKeepsWhole ==
    ASSUME NEW d \in Seq(File), Whole(d), NEW i \in DOMAIN d
    PROVE  /\ RemoveAt(d, i) \in Seq(File)
           /\ Whole(RemoveAt(d, i))
           /\ Named(RemoveAt(d, i), d[i].text) = {}
<1> DEFINE r == RemoveAt(d, i)
           at(j) == IF j < i THEN j ELSE j + 1
<1>1. DOMAIN d = 1 .. Len(d) /\ Len(d) \in Nat
    BY LenProperties
<1>2. /\ r \in Seq(File) /\ Len(r) = Len(d) - 1
      /\ \A j \in 1 .. Len(d) - 1 : r[j] = IF j < i THEN d[j] ELSE d[j + 1]
    BY <1>1, RemoveAtIs
<1>3. DOMAIN r = 1 .. Len(d) - 1
    BY <1>2, LenProperties
<1>4. \A j \in DOMAIN r : /\ at(j) \in DOMAIN d /\ at(j) # i /\ r[j] = d[at(j)]
                          /\ \A k \in DOMAIN r : at(j) = at(k) => j = k
    BY <1>1, <1>2, <1>3
<1> HIDE DEF r, at
<1>5. Whole(r)
    BY <1>4 DEF Whole
<1>6. Named(r, d[i].text) = {}
    BY <1>4 DEF Whole, Named
<1> QED
    BY <1>2, <1>5, <1>6 DEF r

(* A checkpoint under a free name keeps the directory whole. *)
LEMMA AddKeepsWhole ==
    ASSUME NEW d \in Seq(File), Whole(d), NEW f \in File,
           f.text = TextOf(f.tokens), Len(f.tokens) \in MinTokens .. f.run.ctx,
           Named(d, f.text) = {}
    PROVE  Append(d, f) \in Seq(File) /\ Whole(Append(d, f))
<1> DEFINE a == Append(d, f)
<1>1. DOMAIN d = 1 .. Len(d) /\ Len(d) \in Nat
    BY LenProperties
<1>2. /\ a \in Seq(File) /\ Len(a) = Len(d) + 1
      /\ \A j \in 1 .. Len(d) : a[j] = d[j]
      /\ a[Len(d) + 1] = f
    BY AppendProperties
<1>3. DOMAIN a = 1 .. Len(d) + 1
    BY <1>2, LenProperties
<1> HIDE DEF a
<1>4. \A j \in DOMAIN a : (j \in DOMAIN d /\ a[j] = d[j]) \/ (j = Len(d) + 1 /\ a[j] = f)
    BY <1>1, <1>2, <1>3
<1>5. \A j \in DOMAIN d : d[j].text # f.text
    BY DEF Named
<1>6. Whole(a)
    BY <1>4, <1>5 DEF Whole
<1> QED
    BY <1>2, <1>6 DEF a

(* Counting a hit changes nothing else of a file. *)
LEMMA CountHit ==
    ASSUME NEW g \in File
    PROVE  LET f == [g EXCEPT !.hits = @ + 1]
           IN  f \in File /\ f.text = g.text /\ f.tokens = g.tokens /\ f.run = g.run
BY DEF File

(* A hit leaves the directory whole: the file goes, or moves to the end. *)
LEMMA HitKeepsWhole ==
    ASSUME NEW d \in Seq(File), Whole(d), NEW i \in DOMAIN d
    PROVE  AfterHit(d, i) \in Seq(File) /\ Whole(AfterHit(d, i))
<1> DEFINE r == RemoveAt(d, i)
           f == [d[i] EXCEPT !.hits = @ + 1]
<1>1. r \in Seq(File) /\ Whole(r) /\ Named(r, d[i].text) = {}
    BY RemoveKeepsWhole
<1>2. d[i] \in File
    BY LenProperties, ElementOfSeq
<1>3. f \in File /\ f.text = d[i].text /\ f.tokens = d[i].tokens /\ f.run = d[i].run
    BY <1>2, CountHit
<1>4. d[i].text = TextOf(d[i].tokens) /\ Len(d[i].tokens) \in MinTokens .. d[i].run.ctx
    BY DEF Whole
<1> HIDE DEF r, f
<1>5. Append(r, f) \in Seq(File) /\ Whole(Append(r, f))
    BY <1>1, <1>3, <1>4, AddKeepsWhole
<1> QED
    BY <1>1, <1>5 DEF AfterHit, r, f

-----------------------------------------------------------------------------
(* Eviction finds a victim.  Scores are fractions compared by multiplying
   out; the order they give is the order of the fractions. *)

(* Numbers compare as their products with a positive number do. *)
LEMMA TimesKeepsOrder ==
    ASSUME NEW x \in Nat, NEW y \in Nat, NEW c \in Nat \ {0}
    PROVE  x <= y <=> x * c <= y * c
OBVIOUS

(* c/r is not below a/p and below b/q: then a/p is below b/q. *)
LEMMA Fractions ==
    ASSUME NEW a \in Nat, NEW b \in Nat, NEW c \in Nat,
           NEW p \in Nat \ {0}, NEW q \in Nat \ {0}, NEW r \in Nat \ {0},
           ~(c * p < a * r), c * q < b * r
    PROVE  a * q < b * p
<1>1. a * r <= c * p /\ a * r \in Nat /\ c * p \in Nat /\ c * q \in Nat /\ b * r \in Nat
    OBVIOUS
<1>2. (a * r) * q <= (c * p) * q
    BY <1>1, TimesKeepsOrder
<1>3. ~((b * r) * p <= (c * q) * p)
    BY <1>1, TimesKeepsOrder
<1>4. (a * r) * q = (a * q) * r /\ (c * p) * q = (c * q) * p /\ (b * r) * p = (b * p) * r
    OBVIOUS
<1>5. /\ (a * r) * q \in Nat /\ (c * p) * q \in Nat /\ (b * r) * p \in Nat /\ (c * q) * p \in Nat
      /\ a * q \in Nat /\ b * p \in Nat
    BY <1>1
<1>6. ~((b * p) * r <= (a * q) * r)
    BY <1>2, <1>3, <1>4, <1>5
<1>7. ~(b * p <= a * q)
    BY <1>5, <1>6, TimesKeepsOrder
<1> QED
    BY <1>5, <1>7

Weight(f) == (f.hits + 1) * Len(f.tokens)

(* A file's score is a fraction with a positive denominator. *)
LEMMA ScoresAreNumbers ==
    ASSUME NEW d \in Seq(File), Whole(d), NEW n \in DOMAIN d
    PROVE  Weight(d[n]) \in Nat /\ FileSize(d[n]) \in Nat \ {0}
<1>1. d[n] \in File
    BY LenProperties, ElementOfSeq
<1>2. d[n].hits \in Nat /\ Len(d[n].tokens) \in Nat
    BY <1>1, LenProperties DEF File
<1>3. Len(d[n].tokens) >= MinTokens
    BY DEF Whole
<1>4. Overhead \in Nat /\ MinTokens \in Nat \ {0}
    BY OptionsAssumption
<1>5. FileSize(d[n]) \in Nat \ {0}
    BY <1>2, <1>3, <1>4 DEF FileSize
<1>6. ASSUME NEW a \in Nat, NEW b \in Nat PROVE (a + 1) * b \in Nat
    OBVIOUS
<1> QED
    BY <1>2, <1>5, <1>6 DEF Weight

(* Comparing scores is asymmetric, and a file not above one that is below another
   is below it too. *)
LEMMA ScoresAreOrdered ==
    ASSUME NEW d \in Seq(File), Whole(d), NEW i \in DOMAIN d, NEW j \in DOMAIN d
    PROVE  /\ ScoreBelow(d[i], d[j]) => ~ScoreBelow(d[j], d[i])
           /\ \A k \in DOMAIN d : ~ScoreBelow(d[k], d[i]) /\ ScoreBelow(d[k], d[j])
                                  => ScoreBelow(d[i], d[j])
<1>1. \A f, g : ScoreBelow(f, g) <=> Weight(f) * FileSize(g) < Weight(g) * FileSize(f)
    BY DEF ScoreBelow, Weight
<1>2. \A n \in DOMAIN d : Weight(d[n]) \in Nat /\ FileSize(d[n]) \in Nat \ {0}
    BY ScoresAreNumbers
<1>3. Weight(d[i]) * FileSize(d[j]) \in Nat /\ Weight(d[j]) * FileSize(d[i]) \in Nat
    BY <1>2
<1>4. ScoreBelow(d[i], d[j]) => ~ScoreBelow(d[j], d[i])
    BY <1>1, <1>3
<1>5. ASSUME NEW k \in DOMAIN d, ~ScoreBelow(d[k], d[i]), ScoreBelow(d[k], d[j])
      PROVE  ScoreBelow(d[i], d[j])
  <2>1. Weight(d[i]) * FileSize(d[j]) < Weight(d[j]) * FileSize(d[i])
    BY <1>1, <1>2, <1>5, Fractions
  <2> QED BY <1>1, <2>1
<1> QED
    BY <1>4, <1>5

(* Among the first n files there is one that none of them scores below. *)
Lowest(d, n, i) == \A j \in 1 .. n : ~ScoreBelow(d[j], d[i])

(* ... by induction on n, as the least n without one cannot be. *)
LEMMA LowestScore ==
    ASSUME NEW d \in Seq(File), Whole(d), NEW l \in 1 .. Len(d)
    PROVE  \E i \in 1 .. l : Lowest(d, l, i)
<1> DEFINE Bad == {n \in 1 .. Len(d) : \A i \in 1 .. n : ~Lowest(d, n, i)}
<1>1. DOMAIN d = 1 .. Len(d) /\ Len(d) \in Nat
    BY LenProperties
<1>2. \A i, j \in DOMAIN d : ScoreBelow(d[i], d[j]) => ~ScoreBelow(d[j], d[i])
    BY ScoresAreOrdered
<1>3. Bad = {}
  <2> SUFFICES ASSUME Bad # {} PROVE FALSE
    OBVIOUS
  <2>1. Bad \subseteq Nat
    BY <1>1
  <2>2. PICK m \in Bad : \A n \in Bad : m <= n
    BY <2>1, LeastNat, Zenon
  <2>3. m \in 1 .. Len(d) /\ m \in Nat /\ m >= 1 /\ \A i \in 1 .. m : ~Lowest(d, m, i)
    BY <1>1, <2>2
  <2>4. CASE m = 1
    <3>1. 1 \in DOMAIN d
      BY <1>1, <2>3, <2>4
    <3>2. Lowest(d, 1, 1)
      BY <1>2, <3>1 DEF Lowest
    <3> QED BY <2>3, <2>4, <3>2
  <2>5. CASE m > 1
    <3>1. m - 1 \in 1 .. Len(d) /\ ~(m <= m - 1)
      BY <1>1, <2>3, <2>5
    <3>2. m - 1 \notin Bad
      BY <2>2, <3>1
    <3>3. PICK i \in 1 .. m - 1 : Lowest(d, m - 1, i)
      BY <3>1, <3>2
    <3>4. \A j \in 1 .. m : j \in 1 .. m - 1 \/ j = m
      BY <2>3
    <3>5. /\ i \in 1 .. m /\ m \in 1 .. m /\ i \in DOMAIN d /\ m \in DOMAIN d
          /\ \A j \in 1 .. m : j \in DOMAIN d
      BY <1>1, <2>3, <3>3
    <3>6. CASE ~ScoreBelow(d[m], d[i])
      <4>1. Lowest(d, m, i)
        BY <3>3, <3>4, <3>6 DEF Lowest
      <4> QED BY <2>3, <3>5, <4>1
    <3>7. CASE ScoreBelow(d[m], d[i])
      <4>1. ASSUME NEW j \in 1 .. m, ScoreBelow(d[j], d[m]) PROVE FALSE
        <5>1. j \in 1 .. m - 1
          BY <1>2, <3>4, <3>5, <4>1
        <5>2. ~ScoreBelow(d[j], d[i])
          BY <3>3, <5>1 DEF Lowest
        <5>3. ScoreBelow(d[i], d[m])
          BY <3>5, <4>1, <5>2, ScoresAreOrdered
        <5> QED BY <1>2, <3>5, <3>7, <5>3
      <4>2. Lowest(d, m, m)
        BY <4>1 DEF Lowest
      <4> QED BY <2>3, <3>5, <4>2
    <3> QED BY <3>6, <3>7
  <2> QED BY <2>3, <2>4, <2>5
<1> QED
    BY <1>3

(* kv_cache_evict always finds a file to delete: the first of those no file scores
   below. *)
LEMMA VictimIsAFile ==
    ASSUME NEW d \in Seq(File), Whole(d), d # <<>>
    PROVE  Victim(d) \in DOMAIN d
<1> DEFINE Low == {i \in DOMAIN d : Lowest(d, Len(d), i)}
<1>1. DOMAIN d = 1 .. Len(d) /\ Len(d) \in Nat \ {0} /\ Len(d) \in 1 .. Len(d)
    BY LenProperties, EmptySeq
<1>2. Low # {} /\ Low \subseteq Nat
    BY <1>1, LowestScore
<1>3. PICK i \in Low : \A j \in Low : i <= j
    BY <1>2, LeastNat, Zenon
<1>4. i \in DOMAIN d /\ \A k \in DOMAIN d : ~ScoreBelow(d[k], d[i])
    BY <1>1, <1>3 DEF Lowest
<1>5. ASSUME NEW j \in 1 .. i - 1 PROVE ScoreBelow(d[i], d[j])
  <2>1. j \in DOMAIN d /\ ~(i <= j)
    BY <1>1, <1>4
  <2>2. j \notin Low
    BY <1>3, <2>1
  <2>3. PICK k \in DOMAIN d : ScoreBelow(d[k], d[j])
    BY <1>1, <2>1, <2>2 DEF Lowest
  <2>4. ~ScoreBelow(d[k], d[i])
    BY <1>4
  <2> QED BY <1>4, <2>1, <2>3, <2>4, ScoresAreOrdered
<1> QED
    BY <1>4, <1>5 DEF Victim

-----------------------------------------------------------------------------
(* Texts and tokens. *)

(* An empty history renders to the empty text. *)
LEMMA EmptyRendersEmpty ==
    ASSUME TextsTyped, TextsSpell PROVE TextOf(<<>>) = <<>>
<1>1. <<>> \in Seq(Vocab) /\ TextOf(<<>>) \in Seq(Chars)
    BY EmptySeq DEF TextsTyped
<1>2. <<>> \o <<>> = <<>>
    BY <1>1, ConcatEmptySeq
<1>3. TextOf(<<>>) \o TextOf(<<>>) = TextOf(<<>>)
    BY <1>1, <1>2 DEF TextsSpell
<1> QED
    BY <1>1, <1>3, ConcatEqualIffEmpty

(* A history that renders to the beginning of a text, continued with the
   tokens of the rest, renders to the text. *)
LEMMA ContinueSpells ==
    ASSUME TextsTyped, NEW toks \in Seq(Vocab), NEW text \in Seq(Chars),
           IsPrefix(TextOf(toks), text)
    PROVE  /\ Continue(toks, text) \in Seq(Vocab)
           /\ TextsSpell => TextOf(Continue(toks, text)) = text
<1> DEFINE rest == SubSeq(text, Len(TextOf(toks)) + 1, Len(text))
<1>1. TextOf(toks) \in Seq(Chars)
    BY DEF TextsTyped
<1>2. rest \in Seq(Chars) /\ TextOf(toks) \o rest = text
    BY <1>1, PrefixThenRest
<1>3. Continue(toks, text) = toks \o Tokenize(rest)
    BY DEF Continue
<1> HIDE DEF rest
<1>4. Tokenize(rest) \in Seq(Vocab)
    BY <1>2 DEF TextsTyped
<1>5. toks \o Tokenize(rest) \in Seq(Vocab)
    BY <1>4, ConcatProperties
<1>6. TextsSpell => TextOf(toks \o Tokenize(rest)) = text
    BY <1>2, <1>4 DEF TextsSpell
<1> QED
    BY <1>3, <1>5, <1>6

-----------------------------------------------------------------------------
(* The records of a call. *)

(* A call of ds4_session_sync sets its goal and where it returns to. *)
LEMMA SyncCall ==
    ASSUME KTypeOK, NEW goal \in Seq(Vocab), NEW quiet \in BOOLEAN,
           NEW next \in {"coldstore", "synced", "rewritten"},
           CallSync(goal, next, quiet)
    PROVE  sync' \in Syncs /\ sync'.goal = goal /\ sync'.next = next
BY DEF CallSync, Syncs

(* A call of kv_cache_store_live_prefix sets where it returns to. *)
LEMMA SaveCall ==
    ASSUME NEW note \in BOOLEAN,
           NEW next \in {"load", "full", "decode", "chunk", "sample", "exit"},
           CallSave(next, note)
    PROVE  save' \in Saves /\ save'.next = next
BY DEF CallSave, Saves

(* The records of a worker that is in no call. *)
LEMMA NoCall ==
    /\ NoSync \in Syncs /\ NoSync.next = "idle"
    /\ NoSave \in Saves /\ NoSave.next = "idle"
    /\ NoJob \in Jobs
<1>1. <<>> \in Seq(Vocab) /\ <<>> \in Seq(Chars)
    BY EmptySeq
<1> QED
    BY <1>1 DEF NoSync, NoSave, NoJob, Syncs, Saves, Jobs

(* What the types say of the fields the steps read. *)
LEMMA FieldTypes ==
    ASSUME KTypeOK
    PROVE  /\ sync.goal \in Seq(Vocab) /\ sync.at \in Nat /\ sync.quiet \in BOOLEAN
           /\ sync.next \in {"idle", "coldstore", "synced", "rewritten"}
           /\ save.next \in {"idle", "load", "full", "decode", "chunk", "sample", "exit"}
           /\ job.text \in Seq(Chars)
           /\ Len(live) \in Nat /\ Len(sync.goal) \in Nat /\ Len(eff) \in Nat
           /\ DOMAIN disk = 1 .. Len(disk)
           /\ run.ctx \in Nat \ {0} /\ run.chunk \in Nat \ {0}
<1>1. /\ sync.goal \in Seq(Vocab) /\ sync.at \in Nat /\ sync.quiet \in BOOLEAN
      /\ sync.next \in {"idle", "coldstore", "synced", "rewritten"}
    BY DEF KTypeOK, Syncs
<1>2. save.next \in {"idle", "load", "full", "decode", "chunk", "sample", "exit"}
    BY DEF KTypeOK, Saves
<1>3. job.text \in Seq(Chars)
    BY DEF KTypeOK, Jobs
<1>4. run.ctx \in Nat \ {0} /\ run.chunk \in Nat \ {0}
    BY ServerAssumption DEF KTypeOK
<1>5. live \in Seq(Vocab) /\ eff \in Seq(Vocab) /\ disk \in Seq(File)
    BY DEF KTypeOK
<1> QED
    BY <1>1, <1>2, <1>3, <1>4, <1>5, LenProperties

-----------------------------------------------------------------------------
(* The first invariant, step by step. *)

(* It holds when a process first opens an empty directory. *)
LEMMA FilesInit == ASSUME TextsTyped, Init PROVE FilesInv
<1>1. Len(<<>>) = 0 /\ <<>> \in Seq(Vocab) /\ <<>> \in Seq(Chars) /\ <<>> \in Seq(File)
    BY EmptySeq
<1>2. run.ctx \in Nat
    BY ServerAssumption DEF Init
<1>3. KTypeOK
    BY <1>1, NoCall DEF Init, KTypeOK
<1>4. LengthInv
    BY <1>1, <1>2 DEF Init, LengthInv, Going, Saving, Syncing
<1>5. DOMAIN disk = {}
    BY <1>1, LenProperties DEF Init
<1> QED
    BY <1>3, <1>4, <1>5 DEF FilesInv, FilesAreCheckpoints

(* Taking a job and finding a live hit change no file. *)
LEMMA TakeJobFiles ==
    ASSUME TextsTyped, FilesInv, NEW text \in Prompts, NEW tools \in BOOLEAN, TakeJob(text, tools)
    PROVE  FilesInv'
<1> USE DEF FilesInv
<1>1. text \in Seq(Chars) /\ Tokenize(text) \in Seq(Vocab)
    BY DEF TextsTyped
<1>2. eff' \in Seq(Vocab)
  <2>1. CASE eff' = Tokenize(text)
    BY <1>1, <2>1
  <2>2. CASE TextHit(text) /\ eff' = Continue(live, text)
    BY <1>1, <2>2, ContinueSpells DEF TextHit, KTypeOK
  <2> QED BY <2>1, <2>2 DEF TakeJob
<1>3. save' \in Saves
    BY SaveCall DEF TakeJob, BeginLookup, KTypeOK
<1>4. KTypeOK'
  <2>1. job' \in Jobs /\ want' \in Seq(Chars)
    BY <1>1 DEF TakeJob, Jobs
  <2>2. UNCHANGED <<run, live, valid, disk, sync, out>>
    BY DEF TakeJob, session, decode
  <2> QED BY <1>2, <1>3, <2>1, <2>2 DEF KTypeOK
<1>5. /\ pc' = "cold" \/ pc' = "load" \/ (pc' = "store" /\ save'.next = "load")
      /\ UNCHANGED <<run, session, disk, sync>>
    BY SaveCall DEF TakeJob, BeginLookup, CallSave
<1>6. LengthInv' /\ FilesAreCheckpoints'
    BY <1>5 DEF LengthInv, FilesAreCheckpoints, Going, Saving, Syncing, session
<1> QED
    BY <1>4, <1>6

(* A miss, a hit and a failed load: a hit takes its file away or counts it. *)
LEMMA LookupFiles ==
    ASSUME TextsTyped, FilesInv,
           LoadMiss \/ \E i \in DOMAIN disk : LoadHit(i) \/ LoadFails(i)
    PROVE  FilesInv'
<1> USE DEF FilesInv
<1>1. \/ pc' = "cold" /\ sync' = sync
      \/ pc' = "sync" /\ CallSync(eff', "rewritten", TRUE)
    BY DEF AfterLookup, LoadMiss, LoadHit, LoadFails, CallSync
<1>0. ASSUME eff' \in Seq(Vocab)
      PROVE  /\ sync' \in Syncs
             /\ \/ pc' = "cold" /\ sync' = sync
                \/ pc' = "sync" /\ sync'.next = "rewritten"
  <2>1. CASE pc' = "cold" /\ sync' = sync
    BY <2>1 DEF KTypeOK
  <2>2. CASE pc' = "sync" /\ CallSync(eff', "rewritten", TRUE)
    BY <1>0, <2>2, SyncCall
  <2> QED BY <1>1, <2>1, <2>2
<1>2. UNCHANGED <<run, job, want, save, out>>
    BY DEF LoadMiss, LoadHit, LoadFails, decode
<1>3. CASE ((live' = <<>> /\ valid' = FALSE) \/ UNCHANGED session) /\ UNCHANGED <<disk, eff>>
  <2>0. <<>> \in Seq(Vocab) /\ Len(<<>>) = 0 /\ run.ctx \in Nat
    BY EmptySeq, FieldTypes
  <2>1. Len(live') <= run.ctx /\ live' \in Seq(Vocab) /\ valid' \in BOOLEAN /\ eff' \in Seq(Vocab)
    <3>1. live' \in {<<>>, live} /\ valid' \in {FALSE, valid} /\ eff' = eff
      BY <1>3 DEF session
    <3>2. /\ live \in Seq(Vocab) /\ valid \in BOOLEAN /\ eff \in Seq(Vocab)
          /\ Len(live) <= run.ctx
      BY DEF KTypeOK, LengthInv
    <3>3. live' \in Seq(Vocab) /\ Len(live') <= run.ctx
      <4>1. CASE live' = <<>>
        <5>1. Len(live') = 0 /\ live' \in Seq(Vocab)
          BY <2>0, <4>1
        <5> QED BY <2>0, <5>1
      <4>2. CASE live' = live
        BY <3>2, <4>2
      <4> QED BY <3>1, <4>1, <4>2
    <3>4. valid' \in BOOLEAN
      BY <3>1, <3>2
    <3> QED BY <3>1, <3>2, <3>3, <3>4
  <2>2. KTypeOK'
    BY <1>0, <1>2, <1>3, <2>1 DEF KTypeOK
  <2>3. LengthInv' /\ FilesAreCheckpoints'
    BY <1>0, <1>2, <1>3, <2>1 DEF LengthInv, FilesAreCheckpoints, Going, Saving, Syncing
  <2> QED BY <2>2, <2>3
<1>4. ASSUME NEW i \in DOMAIN disk, LoadHit(i) PROVE FilesInv'
  <2>1. disk[i] \in File /\ IsPrefix(disk[i].text, want) /\ disk[i].text = TextOf(disk[i].tokens)
    BY <1>4, FieldTypes, ElementOfSeq
       DEF LoadHit, TextPrefixes, Candidates, FilesAreCheckpoints, KTypeOK
  <2>2. disk[i].tokens \in Seq(Vocab) /\ Len(disk[i].tokens) < run.ctx
    BY <1>4, <2>1 DEF LoadHit, Loadable, File
  <2>3. eff' \in Seq(Vocab)
    BY <1>4, <2>1, <2>2, ContinueSpells DEF LoadHit, KTypeOK
  <2>4. disk' \in Seq(File) /\ FilesAreCheckpoints'
    BY <1>4, HitKeepsWhole DEF LoadHit, KTypeOK, Whole, FilesAreCheckpoints
  <2>5. live' = disk[i].tokens /\ valid' = TRUE
    BY <1>4 DEF LoadHit
  <2>6. KTypeOK'
    BY <1>0, <1>2, <2>2, <2>3, <2>4, <2>5 DEF KTypeOK
  <2>7. Len(disk[i].tokens) \in Nat /\ run.ctx \in Nat
    BY <2>2, FieldTypes, LenProperties
  <2>8. LengthInv'
    BY <1>0, <1>2, <2>2, <2>3, <2>5, <2>7 DEF LengthInv, Going, Saving, Syncing
  <2> QED BY <2>4, <2>6, <2>8
<1> QED
    BY <1>3, <1>4 DEF LoadMiss, LoadFails, session

(* The cut of a cold prompt is shorter than the prompt. *)
LEMMA ColdCut ==
    ASSUME KTypeOK, ColdStoreLen >= MinTokens, ColdStoreLen < Len(eff)
    PROVE  SubSeq(eff, 1, ColdStoreLen) \in Seq(Vocab)
<1>1. ColdStoreLen \in Int
  <2>1. Len(eff) \in Nat /\ Trim \in Nat /\ Align \in Nat
    BY OptionsAssumption, FieldTypes
  <2>2. StableLen(Len(eff)) \in Int
    <3> DEFINE n == Len(eff) - Trim
    <3>1. n \in Int
      BY <2>1
    <3>2. CASE Align > 0
      <4>1. n % Align \in Int
        BY <2>1, <3>1, <3>2
      <4> QED BY <3>1, <4>1 DEF StableLen
    <3> QED BY <2>1, <3>1, <3>2 DEF StableLen
  <2> QED BY <2>1, <2>2 DEF ColdStoreLen, StoreLen
<1> QED
    BY <1>1, CutIsSeq, FieldTypes DEF KTypeOK

(* From a prefill to decoding: the wanted tokens fit the context. *)
LEMMA PrefillFiles ==
    ASSUME FilesInv,
           Prefill \/ StoreCold \/ PrefillRest \/ StartDecode \/ StreamStartFails \/ SyncRefused
    PROVE  FilesInv'
<1> USE DEF FilesInv
<1>1. UNCHANGED <<run, live, valid, disk, job, want, eff, out>>
    BY DEF Prefill, StoreCold, PrefillRest, StartDecode, StreamStartFails, SyncRefused,
           session, request, decode
<1>2. \/ /\ pc' = "sync" /\ sync' \in Syncs /\ sync'.next \in {"coldstore", "synced"}
         /\ save' = save
      \/ /\ pc' = "store" /\ save' \in Saves /\ save'.next \in {"full", "decode"}
         /\ sync' = sync
      \/ pc' \in {"decode", "done"} /\ UNCHANGED <<sync, save>>
  <2>1. ASSUME Prefill PROVE pc' = "sync" /\ sync' \in Syncs /\ sync'.next \in {"coldstore", "synced"} /\ save' = save
    BY <2>1, ColdCut, SyncCall DEF Prefill, KTypeOK, CallSync
  <2>2. ASSUME PrefillRest PROVE pc' = "sync" /\ sync' \in Syncs /\ sync'.next = "synced" /\ save' = save
    BY <2>2, SyncCall DEF PrefillRest, KTypeOK, CallSync
  <2>3. ASSUME StoreCold PROVE pc' = "store" /\ save' \in Saves /\ save'.next = "full" /\ sync' = sync
    BY <2>3, SaveCall DEF StoreCold, CallSave
  <2>4. ASSUME StartDecode
        PROVE  \/ pc' = "store" /\ save' \in Saves /\ save'.next = "decode" /\ sync' = sync
               \/ pc' = "decode" /\ UNCHANGED <<sync, save>>
    BY <2>4, SaveCall DEF StartDecode, CallSave
  <2> QED BY <2>1, <2>2, <2>3, <2>4 DEF StreamStartFails, SyncRefused
<1>3. KTypeOK'
    BY <1>1, <1>2 DEF KTypeOK
<1>4. LengthInv' /\ FilesAreCheckpoints'
    BY <1>1, <1>2 DEF LengthInv, FilesAreCheckpoints, Going, Saving, Syncing
<1> QED
    BY <1>3, <1>4

(* Chunks end within the goal. *)
LEMMA BoundaryWithin ==
    ASSUME KTypeOK, sync.at <= Len(sync.goal)
    PROVE  NextBoundary(sync.at) \in 0 .. Len(sync.goal)
<1> DEFINE q == sync.at \div run.chunk
<1>1. ASSUME NEW n \in Nat, NEW c \in Nat \ {0} PROVE n \div c \in Nat
    OBVIOUS
<1>2. q \in Nat /\ run.chunk \in Nat
    BY <1>1, FieldTypes
<1> HIDE DEF q
<1>3. (q + 1) * run.chunk \in Nat
  <2>1. ASSUME NEW c \in Nat, NEW d \in Nat PROVE c * d \in Nat
    OBVIOUS
  <2> QED BY <1>2, <2>1
<1> QED
  <2> DEFINE b == (q + 1) * run.chunk
  <2>1. Len(sync.goal) \in Nat
    BY FieldTypes
  <2>2. Min({Len(sync.goal), b}) = IF Len(sync.goal) <= b THEN Len(sync.goal) ELSE b
    BY <1>3, <2>1, MinOfTwo
  <2>3. NextBoundary(sync.at) = Min({Len(sync.goal), b})
    BY DEF NextBoundary, q
  <2> HIDE DEF b
  <2> QED BY <1>3, <2>1, <2>2, <2>3 DEF b

(* A chunk of a prefill stays within its goal. *)
LEMMA ProgressFiles ==
    ASSUME FilesInv, NEW n \in Nat, Progress(n)
    PROVE  /\ sync' \in Syncs /\ save' \in Saves
           /\ sync'.goal = sync.goal /\ sync'.at = n /\ sync'.next = sync.next
           /\ Going("chunk")'
           /\ pc' \in {"store", "chunk"}
<1> USE DEF FilesInv
<1>1. sync' = [sync EXCEPT !.at = n] /\ sync \in Syncs
    BY DEF Progress, KTypeOK
<1>2. sync' \in Syncs
    BY <1>1 DEF Syncs
<1>3. sync'.goal = sync.goal /\ sync'.at = n /\ sync'.next = sync.next
    BY <1>1 DEF Syncs
<1>4. (pc' = "store" /\ save' \in Saves /\ save'.next = "chunk") \/ (pc' = "chunk" /\ save' = save)
    BY SaveCall DEF Progress, CallSave
<1> QED
    BY <1>2, <1>3, <1>4 DEF KTypeOK, Going, Saving

(* Each chunk lengthens the history to a cut of the goal. *)
LEMMA ChunkFiles ==
    ASSUME FilesInv, SyncChunked \/ Chunk
    PROVE  FilesInv'
<1> USE DEF FilesInv
<1>1. /\ UNCHANGED <<run, disk, job, want, eff, out>>
      /\ sync.next # "idle" /\ Len(sync.goal) < run.ctx
      /\ \E n \in 0 .. Len(sync.goal) :
            /\ Progress(n)
            /\ (live' = live /\ valid' = valid) \/ (live' = SubSeq(sync.goal, 1, n) /\ valid' = TRUE)
  <2>1. CASE SyncChunked
    <3>1. /\ UNCHANGED <<run, disk, job, want, eff, out, live, valid>>
          /\ sync.next # "idle" /\ Len(sync.goal) < run.ctx
          /\ Progress(IF Extends THEN Len(live) ELSE 0)
      BY <2>1 DEF SyncChunked, Accepted, request, decode, session, LengthInv, Syncing
    <3>2. (IF Extends THEN Len(live) ELSE 0) \in 0 .. Len(sync.goal)
      BY FieldTypes DEF Extends, IsPrefix
    <3> QED BY <3>1, <3>2
  <2>2. CASE Chunk
    <3>1. /\ UNCHANGED <<run, disk, job, want, eff, out>>
          /\ sync.next # "idle" /\ Len(sync.goal) < run.ctx
          /\ live' = SubSeq(sync.goal, 1, NextBoundary(sync.at)) /\ valid' = TRUE
          /\ Progress(NextBoundary(sync.at))
      BY <2>2 DEF Chunk, request, decode, LengthInv, Syncing, Going
    <3>2. NextBoundary(sync.at) \in 0 .. Len(sync.goal)
      BY <2>2, BoundaryWithin DEF Chunk, LengthInv, Going
    <3> QED BY <3>1, <3>2
  <2> QED BY <2>1, <2>2
<1>2. PICK n \in 0 .. Len(sync.goal) :
            /\ Progress(n)
            /\ (live' = live /\ valid' = valid) \/ (live' = SubSeq(sync.goal, 1, n) /\ valid' = TRUE)
    BY <1>1
<1>3. /\ live' \in Seq(Vocab) /\ valid' \in BOOLEAN
      /\ Len(live') <= run.ctx
  <2>1. CASE live' = live /\ valid' = valid
    BY <2>1 DEF KTypeOK, LengthInv
  <2>2. CASE live' = SubSeq(sync.goal, 1, n) /\ valid' = TRUE
    <3>1. SubSeq(sync.goal, 1, n) \in Seq(Vocab) /\ Len(SubSeq(sync.goal, 1, n)) = IF 1 <= n THEN n ELSE 0
      BY CutIsSeq, FieldTypes
    <3> QED BY <1>1, <2>2, <3>1, FieldTypes
  <2> QED BY <1>2, <2>1, <2>2
<1>4. /\ sync' \in Syncs /\ save' \in Saves
      /\ sync'.goal = sync.goal /\ sync'.at = n /\ sync'.next = sync.next
      /\ pc' \in {"store", "chunk"}
      /\ Going("chunk")'
    BY <1>2, ProgressFiles
<1>5. KTypeOK'
    BY <1>1, <1>3, <1>4 DEF KTypeOK
<1>6. LengthInv' /\ FilesAreCheckpoints'
    BY <1>1, <1>3, <1>4 DEF LengthInv, FilesAreCheckpoints, Going, Saving, Syncing
<1> QED
    BY <1>5, <1>6

(* A sync that ends leaves its goal as the history, within the context. *)
LEMMA SyncEndFiles ==
    ASSUME FilesInv, SyncAtOnce \/ SyncFails \/ ChunkFails \/ ChunksDone
    PROVE  FilesInv'
<1> USE DEF FilesInv
<1>1. /\ UNCHANGED <<run, disk, job, want, eff, out, sync, save>>
      /\ sync.next # "idle" /\ Len(sync.goal) < run.ctx
      /\ pc' \in {"done", sync.next}
      /\ \/ live' \in {sync.goal, live}
         \/ \E n \in Len(live) .. Len(sync.goal) - 1 : live' = SubSeq(sync.goal, 1, n)
      /\ valid' \in BOOLEAN
    BY DEF SyncAtOnce, SyncFails, ChunkFails, ChunksDone, Accepted, LengthInv, Syncing, Going,
           request, decode
<1>2. live' \in Seq(Vocab) /\ Len(live') <= run.ctx
  <2>1. CASE live' \in {sync.goal, live}
    BY <1>1, <2>1, FieldTypes DEF KTypeOK, LengthInv
  <2>2. ASSUME NEW n \in Len(live) .. Len(sync.goal) - 1, live' = SubSeq(sync.goal, 1, n)
        PROVE  live' \in Seq(Vocab) /\ Len(live') <= run.ctx
    <3>1. live' \in Seq(Vocab) /\ Len(live') = IF 1 <= n THEN n ELSE 0
      BY <2>2, CutIsSeq, FieldTypes
    <3> QED BY <1>1, <3>1, FieldTypes
  <2> QED BY <1>1, <2>1, <2>2
<1>3. KTypeOK'
    BY <1>1, <1>2 DEF KTypeOK
<1>4. pc' \in {"done", "coldstore", "synced", "rewritten"}
    BY <1>1, FieldTypes
<1>5. LengthInv' /\ FilesAreCheckpoints'
    BY <1>1, <1>2, <1>4 DEF LengthInv, FilesAreCheckpoints, Going, Saving, Syncing
<1> QED
    BY <1>3, <1>5

(* Steps of a store: what they do to the directory. *)
LEMMA StoreFiles ==
    ASSUME TextsTyped, FilesInv, StoreStep
    PROVE  FilesInv'
<1> USE DEF FilesInv
<1>1. UNCHANGED <<run, live, valid, job, want, eff, out, sync>>
    BY DEF StoreStep, StoreSkipped, StoreNew, WriteFails, Rename, StoreKnown, StoreReplaces,
           Evict, EvictDone, EvictFails, session, request, decode
<1>2. save' \in Saves /\ save'.next = save.next
  <2>1. CASE save' = save
    BY <2>1 DEF KTypeOK
  <2>2. CASE save' = [save EXCEPT !.fresh = TRUE]
    BY <2>2 DEF KTypeOK, Saves
  <2> QED BY <2>1, <2>2
       DEF StoreStep, StoreSkipped, StoreNew, WriteFails, Rename, StoreKnown, StoreReplaces,
           Evict, EvictDone, EvictFails
<1>3. ASSUME disk' \in Seq(File), Whole(disk'),
             pc' \in {save.next, "write", "evict"}, Saving,
             pc' = "write" => valid /\ Len(live) >= MinTokens /\ LiveName' = {}
      PROVE  FilesInv'
  <2>1. KTypeOK'
    BY <1>1, <1>2, <1>3 DEF KTypeOK
  <2>2. FilesAreCheckpoints'
    BY <1>3 DEF Whole, FilesAreCheckpoints
  <2>3. \A p \in {"sample", "chunk"} : Going(p)' => Going(p)
    BY <1>2, <1>3 DEF Going, Saving
  <2>4. Syncing' => Syncing
    BY <1>2, <1>3, <2>3, FieldTypes DEF Syncing, Going, Saving
  <2>5. LengthInv'
    BY <1>1, <1>3, <2>3, <2>4 DEF LengthInv
  <2> QED BY <2>1, <2>2, <2>5
<1>4. disk \in Seq(File) /\ Whole(disk) /\ DOMAIN disk = 1 .. Len(disk)
    BY FilesAreWhole, FieldTypes DEF KTypeOK
<1>5. save.next # "write"
    BY FieldTypes
<1>6. CASE \/ StoreSkipped \/ StoreNew \/ WriteFails \/ EvictDone \/ EvictFails
           \/ \E i \in DOMAIN disk : StoreKnown(i)
  <2>1. disk' = disk /\ Saving
    BY <1>6 DEF StoreSkipped, StoreNew, WriteFails, StoreKnown, EvictDone, EvictFails, Saving
  <2>2. pc' = save.next \/ StoreNew
    BY <1>6 DEF StoreSkipped, WriteFails, StoreKnown, EvictDone, EvictFails
  <2>3. StoreNew => pc' = "write" /\ valid /\ Len(live) >= MinTokens /\ LiveName' = {}
    BY <1>1, <2>1 DEF StoreNew, LiveName
  <2> QED BY <1>3, <1>4, <1>5, <2>1, <2>2, <2>3
<1>7. ASSUME NEW i \in DOMAIN disk, StoreReplaces(i) PROVE FilesInv'
  <2>1. disk' = RemoveAt(disk, i) /\ disk[i].text = TextOf(live)
    BY <1>7 DEF StoreReplaces, LiveName, Named
  <2>2. disk' \in Seq(File) /\ Whole(disk') /\ Named(disk', TextOf(live)) = {}
    BY <1>4, <2>1, RemoveKeepsWhole
  <2>3. pc' = "write" /\ valid /\ Len(live) >= MinTokens /\ Saving /\ LiveName' = {}
    BY <1>1, <1>7, <2>2 DEF StoreReplaces, LiveName, Saving
  <2> QED BY <1>3, <2>2, <2>3
<1>8. CASE Rename
  <2> DEFINE f == NewFile(live, run)
  <2>1. valid /\ Len(live) >= MinTokens /\ Named(disk, TextOf(live)) = {}
    BY <1>8 DEF Rename, LengthInv, LiveName
  <2>2. f \in File /\ f.text = TextOf(live) /\ f.tokens = live /\ f.run = run
    BY DEF NewFile, File, KTypeOK, TextsTyped
  <2>3. Len(live) \in MinTokens .. run.ctx
    BY <2>1, FieldTypes, OptionsAssumption DEF LengthInv
  <2> HIDE DEF f
  <2>4. Append(disk, f) \in Seq(File) /\ Whole(Append(disk, f))
    BY <1>4, <2>1, <2>2, <2>3, AddKeepsWhole
  <2>5. disk' = Append(disk, f) /\ pc' = "evict" /\ Saving
    BY <1>8 DEF Rename, Saving, f
  <2> QED BY <1>3, <2>4, <2>5
<1>9. CASE Evict
  <2>1. Victim(disk) \in DOMAIN disk
    BY <1>4, <1>9, VictimIsAFile DEF Evict
  <2>2. disk' \in Seq(File) /\ Whole(disk')
    BY <1>4, <1>9, <2>1, RemoveKeepsWhole DEF Evict
  <2>3. pc' = "evict" /\ Saving
    BY <1>9 DEF Evict, Saving
  <2> QED BY <1>3, <2>2, <2>3
<1> QED
    BY <1>6, <1>7, <1>8, <1>9 DEF StoreStep

(* The text a turn is rewritten to is a text, and what is set up is its
   tokens. *)
LEMMA RewriteSetsUp ==
    ASSUME TextsTyped, KTypeOK, NEW text \in Seq(Chars), Rewrite(text) \/ Leave
    PROVE  \/ pc' = "done" /\ UNCHANGED <<want, eff, sync>>
           \/ /\ want' = text /\ eff' = Tokenize(text) /\ eff' \in Seq(Vocab) /\ valid
              /\ \/ pc' = "reload" /\ sync' = sync
                 \/ pc' = "sync" /\ sync' \in Syncs /\ sync'.goal = eff' /\ sync'.next = "rewritten"
<1>1. Tokenize(text) \in Seq(Vocab)
    BY DEF TextsTyped
<1>2. CallSync(Tokenize(text), "rewritten", TRUE)
      => pc' = "sync" /\ sync' \in Syncs /\ sync'.goal = Tokenize(text) /\ sync'.next = "rewritten"
    BY <1>1, SyncCall DEF CallSync
<1> QED
    BY <1>1, <1>2 DEF Rewrite, Leave

(* The prompt, its reasoning closed, and the reply after it make a text. *)
LEMMA ThinkingTextIsText ==
    ASSUME TextsTyped, KTypeOK
    PROVE  Front(job.text) \o <<ThinkEnd>>
             \o SubSeq(Replied, Max({i \in DOMAIN Replied : Replied[i] = ThinkEnd} \cup {0}) + 1,
                       Len(Replied))
             \o <<Eos>> \in Seq(Chars)
<1> DEFINE ends == {i \in DOMAIN Replied : Replied[i] = ThinkEnd} \cup {0}
           shown == SubSeq(Replied, Max(ends) + 1, Len(Replied))
<1>1. Replied \in Seq(Chars)
    BY DEF Replied, TextsTyped, KTypeOK
<1>2. Len(Replied) \in Nat /\ DOMAIN Replied = 1 .. Len(Replied)
    BY <1>1, LenProperties
<1>3. ends \subseteq 0 .. Len(Replied) /\ ends # {}
    BY <1>2
<1>4. Max(ends) \in ends
    BY <1>2, <1>3, MaxUpTo
<1>5. Max(ends) + 1 \in Nat \ {0}
    BY <1>2, <1>3, <1>4
<1> HIDE DEF ends
<1>6. shown \in Seq(Chars)
  <2>1. \A m \in Nat \ {0} : SubSeq(Replied, m, Len(Replied)) \in Seq(Chars)
    BY <1>1, <1>2, CutIsSeq
  <2> QED BY <1>5, <2>1
<1>7. <<ThinkEnd>> \in Seq(Chars) /\ <<Eos>> \in Seq(Chars)
    BY DEF TextsTyped
<1>8. Front(job.text) \in Seq(Chars)
  <2>1. job.text \in Seq(Chars) /\ Len(job.text) \in Nat
    BY FieldTypes, LenProperties
  <2> QED BY <2>1, CutIsSeq DEF Front
<1> HIDE DEF shown
<1>9. Front(job.text) \o <<ThinkEnd>> \o shown \o <<Eos>> \in Seq(Chars)
  <2>1. Front(job.text) \o <<ThinkEnd>> \in Seq(Chars)
    BY <1>7, <1>8, ConcatProperties
  <2>2. Front(job.text) \o <<ThinkEnd>> \o shown \in Seq(Chars)
    BY <1>6, <2>1, ConcatProperties
  <2> QED BY <1>7, <2>2, ConcatProperties
<1> QED
    BY <1>9 DEF shown, ends

(* What the two rewrites do. *)
LEMMA CanonicalSetsUp ==
    ASSUME TextsTyped, KTypeOK,
           CanonicalThinking \/ \E reply \in Rerendered(Replied) : CanonicalTool(reply)
    PROVE  /\ UNCHANGED <<run, live, valid, disk, job, save, out>>
           /\ \/ pc' = "done" /\ UNCHANGED <<want, eff, sync>>
              \/ \E text \in Seq(Chars) :
                    /\ want' = text /\ eff' = Tokenize(text) /\ eff' \in Seq(Vocab) /\ valid
                    /\ \/ pc' = "reload" /\ sync' = sync
                       \/ pc' = "sync" /\ sync' \in Syncs /\ sync'.goal = eff' /\ sync'.next = "rewritten"
<1>1. UNCHANGED <<run, live, valid, disk, job, save, out>>
    BY DEF CanonicalThinking, CanonicalTool, session, decode
<1>2. \E text \in Seq(Chars) : Rewrite(text) \/ Leave
  <2>1. ASSUME CanonicalThinking PROVE \E text \in Seq(Chars) : Rewrite(text) \/ Leave
    BY <2>1, ThinkingTextIsText, Zenon DEF CanonicalThinking
  <2>2. ASSUME NEW reply \in Rerendered(Replied), CanonicalTool(reply)
        PROVE  \E text \in Seq(Chars) : Rewrite(text) \/ Leave
    <3>1. Replied \in Seq(Chars)
      BY DEF Replied, TextsTyped, KTypeOK
    <3>2. reply \in Seq(Chars) /\ <<Eos>> \in Seq(Chars)
      BY <3>1, <2>2 DEF TextsTyped
    <3>3. job.text \o reply \in Seq(Chars)
      BY <3>2, FieldTypes, ConcatProperties
    <3>4. job.text \o reply \o <<Eos>> \in Seq(Chars)
      BY <3>2, <3>3, ConcatProperties
    <3> QED BY <2>2, <3>4, Zenon DEF CanonicalTool
  <2> QED BY <2>1, <2>2
<1> QED
    BY <1>1, <1>2, RewriteSetsUp

(* Sampling adds one token while there is room; rewriting sets up a sync. *)
LEMMA DecodeFiles ==
    ASSUME TextsTyped, FilesInv, DecodeStep
    PROVE  FilesInv'
<1> USE DEF FilesInv
<1>1. CASE StoreContinued
  <2>1. /\ UNCHANGED <<run, live, valid, disk, job, want, eff, out, sync>>
        /\ Len(live) < run.ctx
    BY <1>1 DEF StoreContinued, Room, session, request, decode
  <2>2. \/ pc' = "store" /\ save' \in Saves /\ save'.next = "sample"
        \/ pc' = "sample" /\ save' = save
    BY <1>1, SaveCall DEF StoreContinued, CallSave
  <2>3. KTypeOK'
    BY <2>1, <2>2 DEF KTypeOK
  <2>4. LengthInv' /\ FilesAreCheckpoints'
    BY <2>1, <2>2 DEF LengthInv, FilesAreCheckpoints, Going, Saving, Syncing
  <2> QED BY <2>3, <2>4
<1>2. ASSUME NEW t \in Sampled, Eval(t) PROVE FilesInv'
  <2>1. t \in Vocab /\ live \in Seq(Vocab) /\ out \in Seq(Vocab) /\ Len(live) < run.ctx
    BY <1>2, ServerAssumption DEF KTypeOK, LengthInv, Going, Eval
  <2>2. /\ UNCHANGED <<run, valid, disk, job, want, eff, sync, save>>
        /\ live' = Append(live, t) /\ out' = Append(out, t) /\ pc' = "decode"
    BY <1>2 DEF Eval, request
  <2>3. live' \in Seq(Vocab) /\ Len(live') = Len(live) + 1 /\ out' \in Seq(Vocab)
    BY <2>1, <2>2, AppendProperties
  <2>4. KTypeOK'
    BY <2>2, <2>3 DEF KTypeOK
  <2>5. LengthInv' /\ FilesAreCheckpoints'
    BY <2>1, <2>2, <2>3, FieldTypes DEF LengthInv, FilesAreCheckpoints, Going, Saving, Syncing
  <2> QED BY <2>4, <2>5
<1>3. CASE EvalFails \/ Stop \/ ToolCallEnds \/ StopSequence \/ Cut \/ Rewritten
  <2>1. /\ UNCHANGED <<run, disk, job, want, eff, out, sync, save>>
        /\ valid' \in BOOLEAN /\ live' \in Seq(Vocab) /\ Len(live') <= run.ctx
    <3>1. <<>> \in Seq(Vocab) /\ Len(<<>>) = 0 /\ run.ctx \in Nat
      BY EmptySeq, FieldTypes
    <3>2. CASE StopSequence
      <4>1. /\ UNCHANGED <<run, disk, job, want, eff, out, sync, save>>
            /\ live' = <<>> /\ valid' = FALSE
        BY <3>2 DEF StopSequence, request, decode
      <4>2. live' \in Seq(Vocab) /\ Len(live') = 0
        BY <3>1, <4>1
      <4>3. Len(live') <= run.ctx
        BY <3>1, <4>2
      <4>4. valid' \in BOOLEAN
        BY <4>1
      <4> QED BY <4>1, <4>2, <4>3, <4>4
    <3> QED BY <1>3, <3>2 DEF EvalFails, Stop, ToolCallEnds, Cut, Rewritten, session, request,
                              decode, KTypeOK, LengthInv
  <2>2. pc' \in {"done", "think", "tool"}
    BY <1>3 DEF EvalFails, Stop, ToolCallEnds, StopSequence, Cut, Rewritten
  <2>3. KTypeOK'
    BY <2>1 DEF KTypeOK
  <2>4. LengthInv' /\ FilesAreCheckpoints'
    BY <2>1, <2>2 DEF LengthInv, FilesAreCheckpoints, Going, Saving, Syncing
  <2> QED BY <2>3, <2>4
<1>4. CASE CanonicalThinking \/ \E reply \in Rerendered(Replied) : CanonicalTool(reply)
  <2>1. UNCHANGED <<run, live, valid, disk, job, save, out>>
    BY <1>4, CanonicalSetsUp
  <2>2. want' \in Seq(Chars) /\ eff' \in Seq(Vocab) /\ sync' \in Syncs
    BY <1>4, CanonicalSetsUp DEF KTypeOK
  <2>3. pc' \in {"done", "reload"} \/ (pc' = "sync" /\ sync'.next = "rewritten")
    BY <1>4, CanonicalSetsUp
  <2>4. KTypeOK'
    BY <2>1, <2>2 DEF KTypeOK
  <2>5. LengthInv' /\ FilesAreCheckpoints'
    BY <2>1, <2>3 DEF LengthInv, FilesAreCheckpoints, Going, Saving, Syncing
  <2> QED BY <2>4, <2>5
<1>5. CASE EndJob
  <2>1. /\ UNCHANGED <<run, live, valid, disk>> /\ pc' = "idle"
        /\ job' = NoJob /\ want' = <<>> /\ eff' = <<>> /\ out' = <<>>
        /\ sync' = NoSync /\ save' = NoSave
    BY <1>5 DEF EndJob, ResetJob, session
  <2>2. KTypeOK'
    BY <2>1, NoCall, EmptySeq DEF KTypeOK
  <2>3. LengthInv' /\ FilesAreCheckpoints'
    BY <2>1 DEF LengthInv, FilesAreCheckpoints, Going, Saving, Syncing
  <2> QED BY <2>2, <2>3
<1> QED
    BY <1>1, <1>2, <1>3, <1>4, <1>5 DEF DecodeStep

(* A crash or an exit keeps the directory only, and the next process opens it. *)
LEMMA ProcessFiles ==
    ASSUME TextsTyped, FilesInv, Shutdown \/ \E r \in Runs : Crash(r) \/ Exit(r)
    PROVE  FilesInv'
<1> USE DEF FilesInv
<1>1. CASE Shutdown
  <2>1. /\ UNCHANGED <<run, live, valid, disk, job, want, eff, out, sync>>
        /\ pc' = "store" /\ save' \in Saves /\ save'.next = "exit"
    BY <1>1, SaveCall DEF Shutdown, CallSave, session, request, decode
  <2>2. KTypeOK'
    BY <2>1 DEF KTypeOK
  <2>3. LengthInv' /\ FilesAreCheckpoints'
    BY <2>1 DEF LengthInv, FilesAreCheckpoints, Going, Saving, Syncing
  <2> QED BY <2>2, <2>3
<1>2. ASSUME NEW r \in Runs, Start(r) PROVE FilesInv'
  <2>1. /\ run' \in Runs /\ live' = <<>> /\ valid' = FALSE /\ disk' = disk /\ pc' = "evict"
        /\ job' = NoJob /\ want' = <<>> /\ eff' = <<>> /\ out' = <<>>
        /\ sync' = NoSync /\ save' = NoSave
    BY <1>2 DEF Start, ResetJob
  <2>2. <<>> \in Seq(Vocab) /\ <<>> \in Seq(Chars) /\ Len(<<>>) = 0
    BY EmptySeq
  <2>3. KTypeOK'
    BY <2>1, <2>2, NoCall DEF KTypeOK
  <2>4. run'.ctx \in Nat
    BY <2>1, ServerAssumption
  <2>5. LengthInv' /\ FilesAreCheckpoints'
    BY <2>1, <2>2, <2>4, NoCall DEF LengthInv, FilesAreCheckpoints, Going, Saving, Syncing
  <2> QED BY <2>3, <2>5
<1> QED
    BY <1>1, <1>2 DEF Crash, Exit

(* Every step keeps the first invariant. *)
LEMMA FilesStep == ASSUME TextsTyped, FilesInv, [Next]_vars PROVE FilesInv'
<1>1. CASE UNCHANGED vars
  <2>1. KTypeOK'
    BY <1>1 DEF FilesInv, KTypeOK, vars, session, request, decode, env
  <2> QED
    BY <1>1, <2>1 DEF FilesInv, LengthInv, FilesAreCheckpoints, Going, Saving, Syncing, LiveName,
                      vars, session, request, decode, env
<1>2. CASE LookupStep
    BY <1>2, TakeJobFiles, LookupFiles DEF LookupStep
<1>3. CASE SyncStep
    BY <1>3, PrefillFiles, ChunkFiles, SyncEndFiles DEF SyncStep
<1> QED
    BY <1>1, <1>2, <1>3, StoreFiles, DecodeFiles, ProcessFiles DEF Next

(* The only step of a lookup that changes the history to another one is a
   hit. *)
LEMMA OnlyAHitLoads ==
    ASSUME Next, DiskHit PROVE \E i \in DOMAIN disk : LoadHit(i)
<1>1. pc \in {"load", "reload"} /\ live' # <<>> /\ live' # live
    BY DEF DiskHit
<1>2. ~SyncStep /\ ~StoreStep
    BY <1>1 DEF SyncStep, Prefill, StoreCold, PrefillRest, StartDecode, StreamStartFails, SyncRefused,
       SyncAtOnce, SyncFails, SyncChunked, Chunk, ChunkFails, ChunksDone, Accepted,
       StoreStep, StoreSkipped, StoreNew, WriteFails, Rename, StoreKnown, StoreReplaces,
       Evict, EvictDone, EvictFails
<1>3. ~DecodeStep /\ ~Shutdown
    BY <1>1 DEF DecodeStep, StoreContinued, EvalFails, Stop, ToolCallEnds, StopSequence, Cut, Eval,
       CanonicalThinking, CanonicalTool, Rewritten, EndJob, Shutdown
<1>4. \A r \in Runs : ~Crash(r) /\ ~Exit(r)
    BY <1>1 DEF Crash, Exit, Start
<1>5. LookupStep
    BY <1>2, <1>3, <1>4 DEF Next
<1> QED
    BY <1>1, <1>5 DEF LookupStep, TakeJob, LoadMiss, LoadFails, session

(* Every visible file is a whole checkpoint under its own name, also after a
   crash between any two steps (kv_cache_store_live_prefix, kv_cache_open). *)
THEOREM FilesStayCheckpoints == ASSUME TextsTyped PROVE Spec => []FilesAreCheckpoints
<1>1. Init => FilesInv
    BY FilesInit
<1>2. FilesInv /\ [Next]_vars => FilesInv'
    BY FilesStep
<1>3. FilesInv => FilesAreCheckpoints
    BY DEF FilesInv
<1> QED
    BY <1>1, <1>2, <1>3, PTL DEF Spec

(* A disk hit takes the longest usable prefix of the wanted text there is
   (kv_cache_find_text_prefix): no longer one was passed over, which needs
   that no file is below the minimum a lookup asks for. *)
THEOREM TakesTheLongest == ASSUME TextsTyped PROVE Spec => HitIsLongest
<1>1. Init => FilesInv
    BY FilesInit
<1>2. FilesInv /\ [Next]_vars => FilesInv'
    BY FilesStep
<1>3. FilesInv /\ [Next]_vars
      => [DiskHit => \A i \in DOMAIN disk :
                        Usable(disk[i]) => Len(disk[i].text) <= Len(TextOf(live'))]_vars
  <2> SUFFICES ASSUME FilesInv, Next, DiskHit, NEW j \in DOMAIN disk, Usable(disk[j])
               PROVE  Len(disk[j].text) <= Len(TextOf(live'))
    OBVIOUS
  <2>1. PICK i \in DOMAIN disk : LoadHit(i)
    BY OnlyAHitLoads
  <2>2. j \in Candidates(disk, want, run)
    BY FieldTypes DEF Usable, Candidates, FilesInv, FilesAreCheckpoints
  <2>3. Len(disk[j].text) <= Len(disk[i].text)
    BY <2>1, <2>2 DEF LoadHit, TextPrefixes
  <2>4. disk[i].text = TextOf(live')
    BY <2>1 DEF LoadHit, FilesInv, FilesAreCheckpoints
  <2> QED BY <2>3, <2>4
<1> QED
    BY <1>1, <1>2, <1>3, PTL DEF Spec, HitIsLongest

-----------------------------------------------------------------------------
(* The second invariant, step by step. *)

(* It holds at the start, as an empty history spells the empty text. *)
LEMMA TurnInit == ASSUME TextsTyped, TextsSpell, Init PROVE TurnOK
BY EmptyRendersEmpty DEF Init, TurnOK, TurnInv, GeneratesFromPrompt, Generating, Prefilling,
   Going, Syncing, Saving, NoSave

(* A live hit continues the history with the rest of the request's text. *)
LEMMA TakeJobTurn ==
    ASSUME TextsTyped, TextsSpell, KTypeOK, TurnOK,
           NEW text \in Prompts, NEW tools \in BOOLEAN, TakeJob(text, tools)
    PROVE  TurnOK'
<1>1. text \in Seq(Chars)
    BY DEF TextsTyped
<1>2. TextOf(eff') = text
  <2>1. CASE eff' = Tokenize(text)
    BY <1>1, <2>1 DEF TextsSpell
  <2>2. CASE TextHit(text) /\ eff' = Continue(live, text)
    BY <1>1, <2>2, ContinueSpells DEF TextHit, KTypeOK
  <2> QED BY <2>1, <2>2 DEF TakeJob
<1>3. want' = text /\ job'.text = text /\ out' = out /\ out = <<>>
    BY DEF TakeJob, decode, TurnOK, TurnInv, Going
<1>4. \/ pc' \in {"cold", "load"}
      \/ pc' = "store" /\ save'.next = "load"
    BY SaveCall DEF TakeJob, BeginLookup, CallSave
<1> QED
    BY <1>2, <1>3, <1>4 DEF TurnOK, TurnInv, GeneratesFromPrompt, Generating, Prefilling, Going,
       Syncing, Saving

(* A disk hit continues the file's exact history with the rest of the text. *)
LEMMA LookupTurn ==
    ASSUME TextsTyped, TextsSpell, KTypeOK, FilesAreCheckpoints, TurnOK,
           LoadMiss \/ \E i \in DOMAIN disk : LoadHit(i) \/ LoadFails(i)
    PROVE  TurnOK'
<1>1. \/ pc = "load" /\ pc' = "cold"
      \/ pc' = "sync" /\ sync'.goal = eff' /\ sync'.next = "rewritten"
    BY DEF AfterLookup, LoadMiss, LoadHit, LoadFails, CallSync
<1>2. UNCHANGED <<job, want, save, out>>
    BY DEF LoadMiss, LoadHit, LoadFails, decode
<1>3. TextOf(eff') = want
  <2>1. CASE eff' = eff
    BY <2>1 DEF TurnOK, TurnInv
  <2>2. ASSUME NEW i \in DOMAIN disk, LoadHit(i) PROVE TextOf(eff') = want
    <3>1. disk[i] \in File /\ IsPrefix(disk[i].text, want) /\ disk[i].text = TextOf(disk[i].tokens)
      BY <2>2, FieldTypes, ElementOfSeq
         DEF LoadHit, TextPrefixes, Candidates, FilesAreCheckpoints, KTypeOK
    <3>2. disk[i].tokens \in Seq(Vocab)
      BY <3>1 DEF File
    <3> QED BY <2>2, <3>1, <3>2, ContinueSpells DEF LoadHit, KTypeOK
  <2> QED BY <2>1, <2>2 DEF LoadMiss, LoadFails
<1>4. pc = "load" => want = job.text /\ out = <<>>
    BY DEF TurnOK, TurnInv, Prefilling, Going
<1> QED
    BY <1>1, <1>2, <1>3, <1>4 DEF TurnOK, TurnInv, GeneratesFromPrompt, Generating, Prefilling,
       Going, Syncing, Saving

(* A cold prefill, its early checkpoint and the way to decoding keep the text. *)
LEMMA PrefillTurn ==
    ASSUME TextsTyped, TextsSpell, KTypeOK, TurnOK,
           Prefill \/ StoreCold \/ PrefillRest \/ StartDecode \/ StreamStartFails \/ SyncRefused
    PROVE  TurnOK'
<1>1. UNCHANGED <<live, valid, job, want, eff, out>>
    BY DEF Prefill, StoreCold, PrefillRest, StartDecode, StreamStartFails, SyncRefused,
           session, request, decode
<1>2. CASE Prefill \/ PrefillRest
  <2>1. /\ pc' = "sync" /\ sync'.next \in {"coldstore", "synced"}
        /\ sync'.goal = eff \/ sync'.next = "coldstore"
    BY <1>2 DEF Prefill, PrefillRest, CallSync
  <2>2. want = job.text /\ out = <<>>
    BY <1>2 DEF Prefill, PrefillRest, TurnOK, TurnInv, Prefilling, Going
  <2> QED
    BY <1>1, <2>1, <2>2 DEF TurnOK, TurnInv, GeneratesFromPrompt, Generating, Prefilling, Going,
       Syncing, Saving
<1>3. CASE StoreCold
  <2>1. pc' = "store" /\ save'.next = "full"
    BY <1>3 DEF StoreCold, CallSave
  <2>2. want = job.text /\ out = <<>>
    BY <1>3 DEF StoreCold, TurnOK, TurnInv, Prefilling, Going
  <2> QED
    BY <1>1, <2>1, <2>2 DEF TurnOK, TurnInv, GeneratesFromPrompt, Generating, Prefilling, Going,
       Syncing, Saving
<1>4. CASE StartDecode
  <2>1. pc' = "decode" \/ (pc' = "store" /\ save'.next = "decode")
    BY <1>4 DEF StartDecode, CallSave
  <2>2. valid /\ TextOf(live) = job.text /\ want = job.text /\ out = <<>>
    BY <1>4 DEF StartDecode, TurnOK, TurnInv, Prefilling, Going
  <2>3. TextOf(live) = job.text \o TextOf(out)
    BY <2>2, EmptyRendersEmpty, ConcatEmptySeq, FieldTypes
  <2> QED
    BY <1>1, <2>1, <2>2, <2>3 DEF TurnOK, TurnInv, GeneratesFromPrompt, Generating, Prefilling,
       Going, Syncing, Saving
<1>5. CASE StreamStartFails \/ SyncRefused
  <2>1. pc' = "done"
    BY <1>5 DEF StreamStartFails, SyncRefused
  <2> QED
    BY <1>1, <2>1 DEF TurnOK, TurnInv, GeneratesFromPrompt, Generating, Prefilling, Going,
       Syncing, Saving
<1> QED
    BY <1>2, <1>3, <1>4, <1>5

(* A chunk changes only the history, and its goal stays. *)
LEMMA ChunkTurn ==
    ASSUME FilesInv, TurnOK, SyncChunked \/ Chunk
    PROVE  TurnOK'
<1>1. UNCHANGED <<job, want, eff, out>> /\ \E n \in Nat : Progress(n)
  <2>1. (IF Extends THEN Len(live) ELSE 0) \in Nat
    BY FieldTypes DEF FilesInv
  <2>2. Chunk => NextBoundary(sync.at) \in Nat
    <3>1. Chunk => NextBoundary(sync.at) \in 0 .. Len(sync.goal)
      BY BoundaryWithin DEF Chunk, LengthInv, Going, FilesInv
    <3> QED BY <3>1
  <2> QED BY <2>1, <2>2 DEF SyncChunked, Chunk, request, decode
<1>2. /\ sync'.goal = sync.goal /\ sync'.next = sync.next
      /\ Going("chunk")' /\ pc' \in {"store", "chunk"}
    BY <1>1, ProgressFiles
<1>3. Syncing
    BY DEF SyncChunked, Chunk, Accepted, Syncing, Going
<1> QED
    BY <1>1, <1>2, <1>3 DEF TurnOK, TurnInv, GeneratesFromPrompt, Generating, Prefilling, Going,
       Syncing, Saving

(* A sync of the wanted tokens ends with exactly these as the history. *)
LEMMA SyncEndTurn ==
    ASSUME FilesInv, TurnOK, SyncAtOnce \/ SyncFails \/ ChunkFails \/ ChunksDone
    PROVE  TurnOK'
<1>1. /\ UNCHANGED <<job, want, eff, out, sync, save>> /\ Syncing
      /\ pc' = "done" \/ (pc' = sync.next /\ live' = sync.goal /\ valid' = TRUE)
    BY DEF SyncAtOnce, SyncFails, ChunkFails, ChunksDone, Accepted, Syncing, Going, request, decode
<1>2. pc' \in {"done", "coldstore", "synced", "rewritten"}
    BY <1>1, FieldTypes DEF FilesInv, LengthInv
<1> QED
    BY <1>1, <1>2 DEF TurnOK, TurnInv, GeneratesFromPrompt, Generating, Prefilling, Going,
       Syncing, Saving

(* Storing returns to where it was called from and changes no text. *)
LEMMA StoreTurn == ASSUME FilesInv, TurnOK, StoreStep PROVE TurnOK'
<1>1. UNCHANGED <<live, valid, job, want, eff, out, sync>>
    BY DEF StoreStep, StoreSkipped, StoreNew, WriteFails, Rename, StoreKnown, StoreReplaces,
           Evict, EvictDone, EvictFails, session, request, decode
<1>2. save'.next = save.next
  <2>1. CASE save' = [save EXCEPT !.fresh = TRUE]
    BY <2>1 DEF FilesInv, KTypeOK, Saves
  <2> QED BY <2>1
       DEF StoreStep, StoreSkipped, StoreNew, WriteFails, Rename, StoreKnown, StoreReplaces,
           Evict, EvictDone, EvictFails
<1>3. Saving /\ pc' \in {save.next, "write", "evict"}
    BY DEF StoreStep, StoreSkipped, StoreNew, WriteFails, Rename, StoreKnown, StoreReplaces,
           Evict, EvictDone, EvictFails, Saving
<1>4. save.next \in {"idle", "load", "full", "decode", "chunk", "sample", "exit"}
    BY FieldTypes DEF FilesInv
<1>5. \A p : p \notin {"write", "evict"} => (Going(p)' => Going(p))
    BY <1>2, <1>3, <1>4 DEF Going, Saving
<1>6. (Syncing' => Syncing) /\ (Generating' => Generating) /\ pc' \notin {"synced", "rewritten", "sync"}
    BY <1>2, <1>3, <1>4, <1>5 DEF Syncing, Generating, Saving
<1>7. Prefilling' => Prefilling
    BY <1>1, <1>5, <1>6 DEF Prefilling
<1>8. TurnInv'
    BY <1>1, <1>5, <1>6, <1>7 DEF TurnOK, TurnInv
<1>9. GeneratesFromPrompt'
    BY <1>1, <1>6 DEF TurnOK, GeneratesFromPrompt
<1> QED
    BY <1>8, <1>9 DEF TurnOK

(* A sampled token is appended to the history and to the output alike. *)
LEMMA DecodeTurn ==
    ASSUME TextsTyped, TextsSpell, KTypeOK, TurnOK, DecodeStep
    PROVE  TurnOK'
<1>1. CASE StoreContinued
  <2>1. UNCHANGED <<live, valid, job, want, eff, out>> /\ pc = "decode"
    BY <1>1 DEF StoreContinued, session, request, decode
  <2>2. pc' = "sample" \/ (pc' = "store" /\ save'.next = "sample")
    BY <1>1 DEF StoreContinued, CallSave
  <2> QED
    BY <2>1, <2>2 DEF TurnOK, TurnInv, GeneratesFromPrompt, Generating, Prefilling, Going,
       Syncing, Saving
<1>2. ASSUME NEW t \in Sampled, Eval(t) PROVE TurnOK'
  <2>1. /\ UNCHANGED <<valid, job, want, eff>> /\ pc = "sample" /\ pc' = "decode"
        /\ live' = Append(live, t) /\ out' = Append(out, t)
    BY <1>2 DEF Eval, request
  <2>2. t \in Vocab /\ live \in Seq(Vocab) /\ out \in Seq(Vocab) /\ <<t>> \in Seq(Vocab)
    BY ServerAssumption DEF KTypeOK
  <2>3. TextOf(live) = job.text \o TextOf(out) /\ valid /\ want = job.text
    BY <2>1 DEF TurnOK, TurnInv, GeneratesFromPrompt, Generating
  <2>4. TextOf(live') = TextOf(live) \o TextOf(<<t>>) /\ TextOf(out') = TextOf(out) \o TextOf(<<t>>)
    <3>1. live' = live \o <<t>> /\ out' = out \o <<t>>
      BY <2>1, <2>2, AppendIsConcat
    <3> QED BY <2>2, <3>1 DEF TextsSpell
  <2>5. TextOf(live') = job.text \o TextOf(out')
    <3>1. TextOf(out) \in Seq(Chars) /\ TextOf(<<t>>) \in Seq(Chars) /\ job.text \in Seq(Chars)
      BY <2>2, FieldTypes DEF TextsTyped
    <3>2. (job.text \o TextOf(out)) \o TextOf(<<t>>) = job.text \o (TextOf(out) \o TextOf(<<t>>))
      <4>1. \A a, b, c \in Seq(Chars) : (a \o b) \o c = a \o (b \o c)
        BY ConcatAssociative
      <4> QED BY <3>1, <4>1
    <3>3. TextOf(live') = (job.text \o TextOf(out)) \o TextOf(<<t>>)
      BY <2>3, <2>4
    <3>4. job.text \o TextOf(out') = job.text \o (TextOf(out) \o TextOf(<<t>>))
      BY <2>4
    <3> QED BY <3>2, <3>3, <3>4
  <2> QED
    BY <2>1, <2>3, <2>5 DEF TurnOK, TurnInv, GeneratesFromPrompt, Generating, Prefilling, Going,
       Syncing, Saving
<1>3. CASE EvalFails \/ Stop \/ ToolCallEnds \/ StopSequence \/ Cut \/ Rewritten
  <2>1. UNCHANGED <<job, want, eff, out, sync, save>> /\ pc' \in {"done", "think", "tool"}
    BY <1>3 DEF EvalFails, Stop, ToolCallEnds, StopSequence, Cut, Rewritten, request, decode
  <2> QED
    BY <2>1 DEF TurnOK, TurnInv, GeneratesFromPrompt, Generating, Prefilling, Going, Syncing, Saving
<1>4. CASE CanonicalThinking \/ \E reply \in Rerendered(Replied) : CanonicalTool(reply)
  <2>1. TextOf(eff') = want'
    <3>1. CASE UNCHANGED <<want, eff>>
      BY <3>1 DEF TurnOK, TurnInv
    <3>2. ASSUME NEW text \in Seq(Chars), want' = text, eff' = Tokenize(text)
          PROVE  TextOf(eff') = want'
      BY <3>2 DEF TextsSpell
    <3> QED BY <1>4, <3>1, <3>2, CanonicalSetsUp
  <2>2. \/ pc' \in {"done", "reload"}
        \/ pc' = "sync" /\ sync'.goal = eff' /\ sync'.next = "rewritten"
    BY <1>4, CanonicalSetsUp
  <2> QED
    BY <2>1, <2>2 DEF TurnOK, TurnInv, GeneratesFromPrompt, Generating, Prefilling, Going,
       Syncing, Saving
<1>5. CASE EndJob
  <2>1. pc' = "idle" /\ want' = <<>> /\ eff' = <<>> /\ out' = <<>>
    BY <1>5 DEF EndJob, ResetJob
  <2> QED
    BY <2>1, EmptyRendersEmpty DEF TurnOK, TurnInv, GeneratesFromPrompt, Generating, Prefilling,
       Going, Syncing, Saving
<1> QED
    BY <1>1, <1>2, <1>3, <1>4, <1>5 DEF DecodeStep

(* A process that died or ended has no turn. *)
LEMMA ProcessTurn ==
    ASSUME TextsTyped, TextsSpell, TurnOK, Shutdown \/ \E r \in Runs : Crash(r) \/ Exit(r)
    PROVE  TurnOK'
<1>1. CASE Shutdown
  <2>1. /\ UNCHANGED <<job, want, eff, out>> /\ out = <<>>
        /\ pc' = "store" /\ save'.next = "exit"
    BY <1>1 DEF Shutdown, CallSave, request, decode, TurnOK, TurnInv, Going
  <2> QED
    BY <2>1 DEF TurnOK, TurnInv, GeneratesFromPrompt, Generating, Prefilling, Going, Syncing, Saving
<1>2. ASSUME NEW r \in Runs, Start(r) PROVE TurnOK'
  <2>1. pc' = "evict" /\ want' = <<>> /\ eff' = <<>> /\ out' = <<>> /\ save'.next = "idle"
    BY <1>2, NoCall DEF Start, ResetJob
  <2> QED
    BY <2>1, EmptyRendersEmpty DEF TurnOK, TurnInv, GeneratesFromPrompt, Generating, Prefilling,
       Going, Syncing, Saving
<1> QED
    BY <1>1, <1>2 DEF Crash, Exit

(* Every step keeps the second invariant. *)
LEMMA TurnStep ==
    ASSUME TextsTyped, TextsSpell, FilesInv, TurnOK, [Next]_vars
    PROVE  TurnOK'
<1> USE DEF FilesInv
<1>1. CASE UNCHANGED vars
    BY <1>1 DEF TurnOK, TurnInv, GeneratesFromPrompt, Generating, Prefilling, Going, Syncing,
       Saving, vars, session, request, decode, env
<1>2. CASE LookupStep
    BY <1>2, TakeJobTurn, LookupTurn DEF LookupStep
<1>3. CASE SyncStep
    BY <1>3, PrefillTurn, ChunkTurn, SyncEndTurn DEF SyncStep
<1> QED
    BY <1>1, <1>2, <1>3, StoreTurn, DecodeTurn, ProcessTurn DEF Next

(* Generation continues exactly the text the client sent, and a finished turn
   is rewritten to exactly the text the next request will render, whatever
   was found live or on disk and however the prefill was cut (generate_job). *)
THEOREM ContinuesThePrompt == ASSUME TextsTyped, TextsSpell PROVE Spec => []GeneratesFromPrompt
<1>1. Init => IInv
    BY FilesInit, TurnInit DEF IInv
<1>2. IInv /\ [Next]_vars => IInv'
    BY FilesStep, TurnStep DEF IInv
<1>3. IInv => GeneratesFromPrompt
    BY DEF IInv, TurnOK
<1> QED
    BY <1>1, <1>2, <1>3, PTL DEF Spec
=============================================================================
