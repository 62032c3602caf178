-------------------------- MODULE HostPartsProofs --------------------------
(***************************************************************************)
(* Two sessions of the hosts, each for any values of the constants.        *)
(*                                                                         *)
(* A FlashMoE session, for any prompts, budgets, traces, routers and       *)
(* manifests: the rows of the KV cache follow the transcript, the weights  *)
(* in memory are those of the slots, and the slots are those of an LRU     *)
(* cache that serves the requests of the trace.                            *)
(*                                                                         *)
(* The interactive chat, for any messages, pieces, contexts and failures:  *)
(* the session has evaluated the beginning of a transcript of whole turns, *)
(* and a reply is printed as if it had come in one piece.                  *)
(***************************************************************************)
EXTENDS StreamedSession, ChatRepl, NatProofs, FiniteSetTheorems, SequenceTheorems

(* Smallest and largest of two. *)
LEMMA MinMaxTwo ==
    ASSUME NEW x \in Int, NEW y \in Int
    PROVE  /\ Min({x, y}) = IF x <= y THEN x ELSE y
           /\ Max({x, y}) = IF x >= y THEN x ELSE y
<1>1. \E m \in {x, y} : \A z \in {x, y} : m <= z
    OBVIOUS
<1>2. Min({x, y}) \in {x, y} /\ \A z \in {x, y} : Min({x, y}) <= z
    BY <1>1, Zenon DEF Min
<1>3. \E m \in {x, y} : \A z \in {x, y} : m >= z
    OBVIOUS
<1>4. Max({x, y}) \in {x, y} /\ \A z \in {x, y} : Max({x, y}) >= z
    BY <1>3, Zenon DEF Max
<1> QED
    BY <1>2, <1>4

-----------------------------------------------------------------------------
(* The rows.  A step that samples follows another step, and the last token of
   the transcript is the one the next such step evaluates; a session that has
   been prefilled has one unless the budget has no room for any.            *)
RowType == [how : {"prefill", "sampled"}, context : Seq(Int)]

RowsTypeOK ==
    /\ kv \in Seq(Int) /\ tokenIds \in Seq(Nat) /\ todo \in Seq(Nat)
    /\ position \in Nat /\ last \in Nat
    /\ produced \in Seq(RowType)

LastInv ==
    /\ Len(produced) = Len(kv)
    /\ \A i \in DOMAIN produced : produced[i].how = "sampled" => i > 1
    /\ tokenIds # <<>> => last = tokenIds[Len(tokenIds)]
    /\ ~open => doing \in {"idle", "ended"}
    /\ doing = "prefill" => todo # <<>> \/ tokenIds # <<>> \/ KvFull
    /\ doing = "decode" \/ (doing = "idle" /\ open) => tokenIds # <<>> \/ KvFull

RowsInv == RowsTypeOK /\ LastInv /\ RowsFollowTranscript

(* The rows a context reaches back to. *)
LEMMA Window ==
    ASSUME NEW rows \in Seq(Int), NEW i \in 1..Len(rows), NEW a, a = Max({1, i + 1 - AttnWindow})
    PROVE  /\ a \in 1..i
           /\ SubSeq(rows, a, i) \in Seq(Int) /\ Len(SubSeq(rows, a, i)) = i - a + 1
           /\ \A j \in 1..(i - a + 1) : SubSeq(rows, a, i)[j] = rows[a + j - 1]
<1>1. i \in Nat /\ i >= 1 /\ i + 1 - AttnWindow \in Int /\ i + 1 - AttnWindow <= i /\ Len(rows) \in Nat
    BY SessionAssumption, LenProperties
<1>2. a \in 1..i
  <2>1. 1 \in Int /\ i + 1 - AttnWindow \in Int
    BY <1>1
  <2>2. a = IF 1 >= i + 1 - AttnWindow THEN 1 ELSE i + 1 - AttnWindow
    BY <2>1, MinMaxTwo
  <2> QED BY <1>1, <2>2
<1>3. \A j \in a..i : rows[j] \in Int
  <2>1. \A j \in a..i : j \in 1..Len(rows)
    BY <1>1, <1>2
  <2> QED BY <2>1, ElementOfSeq
<1>4. a \in Int /\ i \in Int /\ a <= i
    BY <1>1, <1>2
<1>5. /\ SubSeq(rows, a, i) \in Seq(Int)
      /\ Len(SubSeq(rows, a, i)) = IF a <= i THEN i - a + 1 ELSE 0
      /\ \A j \in 1..(i - a + 1) : SubSeq(rows, a, i)[j] = rows[a + j - 1]
  <2>1. SUFFICES ASSUME NEW m \in Int, NEW n \in Int, \A j \in m..n : rows[j] \in Int
        PROVE  /\ SubSeq(rows, m, n) \in Seq(Int)
               /\ Len(SubSeq(rows, m, n)) = IF m <= n THEN n - m + 1 ELSE 0
               /\ \A j \in 1..(n - m + 1) : SubSeq(rows, m, n)[j] = rows[m + j - 1]
    BY <1>3, <1>4, Zenon
  <2>2. /\ SubSeq(rows, m, n) \in Seq(Int)
        /\ Len(SubSeq(rows, m, n)) = IF m <= n THEN n - m + 1 ELSE 0
    BY <2>1, SubSeqProperties
  <2>3. \A j \in 1..(n - m + 1) : SubSeq(rows, m, n)[j] = rows[m + j - 1]
    BY <2>1, SubSeqProperties
  <2> QED BY <2>2, <2>3
<1> QED
    BY <1>2, <1>4, <1>5

LEMMA ContextIs ==
    ASSUME NEW rows \in Seq(Int), NEW row \in 0..(Len(rows) - 1)
    PROVE  /\ Context(rows, row) \in Seq(Int)
           /\ Context(rows, row) = Reverse(SubSeq(rows, Max({1, (row + 1) + 1 - AttnWindow}), row + 1))
<1> DEFINE i == row + 1
           a == Max({1, i + 1 - AttnWindow})
           sub == SubSeq(rows, a, i)
           n == Min({row + 1, AttnWindow})
<1>1. i \in 1..Len(rows) /\ i \in Nat /\ AttnWindow \in Nat \ {0} /\ Len(rows) \in Nat /\ row \in Nat
    BY SessionAssumption, LenProperties
<1>2. /\ a \in 1..i /\ sub \in Seq(Int) /\ Len(sub) = i - a + 1
      /\ \A j \in 1..(i - a + 1) : sub[j] = rows[a + j - 1]
    BY <1>1, Window
<1>3. a = IF 1 >= i + 1 - AttnWindow THEN 1 ELSE i + 1 - AttnWindow
  <2>1. i + 1 - AttnWindow \in Int /\ 1 \in Int
    BY <1>1
  <2> QED BY <2>1, MinMaxTwo
<1>4. n = IF row + 1 <= AttnWindow THEN row + 1 ELSE AttnWindow
  <2>1. row + 1 \in Int /\ AttnWindow \in Int
    BY <1>1
  <2> QED BY <2>1, MinMaxTwo
<1>5. Context(rows, row) = [back \in 1..n |-> rows[row + 2 - back]]
    BY DEF Context
<1>6. Reverse(sub) = [j \in 1..Len(sub) |-> sub[(Len(sub) - j) + 1]]
    BY DEF Reverse
<1> HIDE DEF a, sub, n, i
<1>7. i = row + 1
    BY DEF i
<1>8. n = i - a + 1 /\ n \in Nat
    BY <1>1, <1>2, <1>3, <1>4, <1>7
<1>9. ASSUME NEW back \in 1..n
      PROVE  /\ rows[row + 2 - back] = sub[(Len(sub) - back) + 1]
             /\ rows[row + 2 - back] \in Int
  <2>1. (Len(sub) - back) + 1 \in 1..(i - a + 1) /\ a + ((Len(sub) - back) + 1) - 1 = row + 2 - back
    BY <1>1, <1>2, <1>7, <1>8
  <2>2. row + 2 - back \in 1..Len(rows)
    BY <1>1, <1>2, <1>7, <1>8
  <2> QED BY <1>2, <2>1, <2>2, ElementOfSeq
<1>10. Context(rows, row) = Reverse(sub)
    BY <1>2, <1>5, <1>6, <1>8, <1>9
<1>11. [back \in 1..n |-> rows[row + 2 - back]] \in [1..n -> Int]
    BY <1>9
<1>12. Context(rows, row) \in Seq(Int)
  <2>1. Seq(Int) = UNION {[1..m -> Int] : m \in Nat}
    BY SeqDef, Zenon
  <2> QED BY <1>5, <1>8, <1>11, <2>1, Zenon
<1> QED
    BY <1>10, <1>12 DEF a, sub, i

(* More rows leave a context as it is. *)
Extends(more, rows) ==
    Len(more) >= Len(rows) /\ \A j \in 1..Len(rows) : more[j] = rows[j]

LEMMA ContextStays ==
    ASSUME NEW rows \in Seq(Int), NEW more \in Seq(Int), NEW i \in 1..Len(rows), Extends(more, rows)
    PROVE  SubSeq(more, Max({1, i + 1 - AttnWindow}), i) = SubSeq(rows, Max({1, i + 1 - AttnWindow}), i)
<1>0. more \in Seq(Int)
    OBVIOUS
<1>1. PICK a : a = Max({1, i + 1 - AttnWindow})
    OBVIOUS
<1>2. Len(rows) \in Nat /\ Len(more) \in Nat /\ i \in 1..Len(more)
    BY LenProperties DEF Extends
<1>3. /\ a \in 1..i /\ SubSeq(rows, a, i) \in Seq(Int) /\ Len(SubSeq(rows, a, i)) = i - a + 1
      /\ \A j \in 1..(i - a + 1) : SubSeq(rows, a, i)[j] = rows[a + j - 1]
    BY <1>1, Window
<1>4. /\ SubSeq(more, a, i) \in Seq(Int) /\ Len(SubSeq(more, a, i)) = i - a + 1
      /\ \A j \in 1..(i - a + 1) : SubSeq(more, a, i)[j] = more[a + j - 1]
  <2>1. i \in 1..Len(more)
    BY <1>2
  <2> QED BY <1>0, <1>1, <2>1, Window
<1>5. \A j \in 1..(i - a + 1) : a + j - 1 \in 1..Len(rows)
    BY <1>2, <1>3
<1>6. SubSeq(more, a, i) = SubSeq(rows, a, i)
    BY <1>3, <1>4, <1>5, SeqEqual DEF Extends
<1> QED
    BY <1>1, <1>6

(* Evaluating a token adds its row, the row's origin and the next token. *)
LEMMA RowAdded ==
    ASSUME RowsInv, ~KvFull, NEW token \in Nat, NEW new \in Nat, NEW how \in {"prefill", "sampled"},
           Evaluate(token), produced' = Append(produced, Step(how)),
           tokenIds' = Append(tokenIds, new), position' = position + 1,
           how = "prefill" => token = new,
           how = "sampled" => tokenIds # <<>> /\ token = tokenIds[Len(tokenIds)]
    PROVE  /\ kv' \in Seq(Int) /\ tokenIds' \in Seq(Nat) /\ position' \in Nat
           /\ produced' \in Seq(RowType) /\ Len(produced') = Len(kv')
           /\ \A i \in DOMAIN produced' : produced'[i].how = "sampled" => i > 1
           /\ tokenIds' # <<>> /\ tokenIds'[Len(tokenIds')] = new
           /\ RowsFollowTranscript'
<1>1. PICK n : n = Len(kv)
    OBVIOUS
<1>2. /\ kv \in Seq(Int) /\ tokenIds \in Seq(Nat) /\ produced \in Seq(RowType) /\ position \in Nat
      /\ n \in Nat /\ Len(tokenIds) = n /\ position = n /\ Len(produced) = n
    BY <1>1, LenProperties DEF RowsInv, RowsTypeOK, LastInv, RowsFollowTranscript
<1>3. n < KvTokens /\ KvTokens \in Nat
    BY <1>1, <1>2, SessionAssumption DEF KvFull
<1>4. /\ DOMAIN kv = 1..n /\ DOMAIN tokenIds = 1..n /\ DOMAIN produced = 1..n
    BY <1>1, <1>2, LenProperties
<1>5. kv' = [i \in 1..(n + 1) |-> IF i = n + 1 THEN token ELSE IF i <= n THEN kv[i] ELSE Unwritten]
    BY <1>1, <1>2 DEF Evaluate
<1>6. kv' \in [1..(n + 1) -> Int]
  <2>1. \A i \in 1..n : kv[i] \in Int
    BY <1>1, <1>2, ElementOfSeq
  <2>2. token \in Int /\ Unwritten \in Int
    BY DEF Unwritten
  <2> QED BY <1>2, <1>5, <2>1, <2>2
<1>7. /\ kv' \in Seq(Int) /\ Len(kv') = n + 1 /\ kv'[n + 1] = token
      /\ \A i \in 1..n : kv'[i] = kv[i]
  <2>1. n + 1 \in Nat
    BY <1>2
  <2>2. kv' \in Seq(Int) /\ DOMAIN kv' = 1..(n + 1)
    <3>1. Seq(Int) = UNION {[1..m -> Int] : m \in Nat}
      BY SeqDef, Zenon
    <3> QED BY <1>6, <2>1, <3>1, Zenon
  <2>3. Len(kv') = n + 1
    BY <2>1, <2>2, LenProperties
  <2>4. kv'[n + 1] = token /\ \A i \in 1..n : kv'[i] = kv[i]
    BY <1>2, <1>5
  <2> QED BY <2>2, <2>3, <2>4
<1>8. /\ tokenIds' \in Seq(Nat) /\ Len(tokenIds') = n + 1 /\ tokenIds'[n + 1] = new
      /\ \A i \in 1..n : tokenIds'[i] = tokenIds[i]
    BY <1>2, AppendProperties
<1>9. PICK row : row = Step(how)
    OBVIOUS
<1>10. /\ row.how = how /\ row.context = Context(kv', position) /\ row = [how |-> how, context |-> row.context]
    BY <1>9 DEF Step
<1>11. /\ Context(kv', position) \in Seq(Int)
       /\ Context(kv', position) = Reverse(SubSeq(kv', Max({1, (n + 1) + 1 - AttnWindow}), n + 1))
  <2>1. position \in 0..(Len(kv') - 1)
    BY <1>2, <1>7
  <2>2. /\ Context(kv', position) \in Seq(Int)
        /\ Context(kv', position)
               = Reverse(SubSeq(kv', Max({1, (position + 1) + 1 - AttnWindow}), position + 1))
    BY <1>7, <2>1, ContextIs
  <2> QED BY <1>2, <2>2
<1>12. row \in RowType
    BY <1>10, <1>11 DEF RowType
<1>13. /\ produced' \in Seq(RowType) /\ Len(produced') = n + 1 /\ produced'[n + 1] = row
       /\ \A i \in 1..n : produced'[i] = produced[i]
    BY <1>2, <1>9, <1>12, AppendProperties
<1>14. DOMAIN kv' = 1..(n + 1) /\ DOMAIN produced' = 1..(n + 1)
    BY <1>7, <1>13, LenProperties
<1>15. how = "sampled" => n >= 1 /\ token = tokenIds[n]
    BY <1>2, EmptySeq
<1>16. \A i \in 1..(n + 1) : produced'[i].how = "sampled" => i > 1
  <2> TAKE i \in 1..(n + 1)
  <2>1. CASE i = n + 1
    BY <1>2, <1>10, <1>13, <1>15, <2>1
  <2>2. CASE i \in 1..n
    BY <1>4, <1>13, <2>2 DEF RowsInv, LastInv
  <2> QED BY <1>2, <2>1, <2>2
<1>17. ASSUME NEW i \in 1..(n + 1)
       PROVE  /\ kv'[i] = IF produced'[i].how = "prefill" THEN tokenIds'[i] ELSE tokenIds'[i - 1]
              /\ produced'[i].context = Reverse(SubSeq(kv', Max({1, i + 1 - AttnWindow}), i))
  <2>1. CASE i = n + 1
    <3>1. produced'[i].context = Reverse(SubSeq(kv', Max({1, i + 1 - AttnWindow}), i))
      BY <1>10, <1>11, <1>13, <2>1
    <3>2. CASE how = "prefill"
      BY <1>7, <1>8, <1>10, <1>13, <2>1, <3>1, <3>2
    <3>3. CASE how = "sampled"
      <4>1. i - 1 = n /\ n \in 1..n
        BY <1>2, <1>15, <2>1, <3>3
      <4> QED BY <1>7, <1>8, <1>10, <1>13, <1>15, <2>1, <3>1, <3>3, <4>1
    <3> QED BY <3>2, <3>3
  <2>2. CASE i \in 1..n
    <3>1. /\ kv[i] = IF produced[i].how = "prefill" THEN tokenIds[i] ELSE tokenIds[i - 1]
          /\ produced[i].context = Reverse(SubSeq(kv, Max({1, i + 1 - AttnWindow}), i))
      BY <1>4, <2>2 DEF RowsInv, RowsFollowTranscript
    <3>2. SubSeq(kv', Max({1, i + 1 - AttnWindow}), i) = SubSeq(kv, Max({1, i + 1 - AttnWindow}), i)
      <4>1. i \in 1..Len(kv) /\ Extends(kv', kv)
        <5>1. Len(kv') = n + 1 /\ n + 1 >= n /\ Len(kv) = n
          BY <1>1, <1>2, <1>7
        <5>2. \A j \in 1..Len(kv) : kv'[j] = kv[j]
          BY <1>7, <5>1
        <5>3. Len(kv') >= Len(kv)
          BY <5>1
        <5> QED BY <2>2, <5>1, <5>2, <5>3 DEF Extends
      <4>2. kv \in Seq(Int) /\ kv' \in Seq(Int)
        BY <1>2, <1>7
      <4>3. SUFFICES ASSUME NEW rows \in Seq(Int), NEW more \in Seq(Int), i \in 1..Len(rows), Extends(more, rows)
            PROVE  SubSeq(more, Max({1, i + 1 - AttnWindow}), i) = SubSeq(rows, Max({1, i + 1 - AttnWindow}), i)
        BY <4>1, <4>2, Zenon
      <4> QED BY <4>3, ContextStays
    <3>3. produced[i].how # "prefill" => i - 1 \in 1..n
      <4>1. produced[i] \in RowType
        BY <1>2, <2>2, ElementOfSeq
      <4>2. produced[i].how # "prefill" => i > 1
        BY <1>4, <2>2, <4>1 DEF RowsInv, LastInv, RowType
      <4> QED BY <1>2, <2>2, <4>2
    <3>4. kv'[i] = kv[i] /\ produced'[i] = produced[i] /\ tokenIds'[i] = tokenIds[i]
      BY <1>7, <1>8, <1>13, <2>2
    <3>5. produced[i].how # "prefill" => tokenIds'[i - 1] = tokenIds[i - 1]
      BY <1>8, <3>3
    <3> QED BY <3>1, <3>2, <3>4, <3>5
  <2>3. i = n + 1 \/ i \in 1..n
    BY <1>2
  <2> QED BY <2>1, <2>2, <2>3, Zenon
<1>18. Len(kv') = Len(tokenIds') /\ Len(kv') = position' /\ Len(kv') <= KvTokens
    BY <1>2, <1>3, <1>7, <1>8
<1>19. RowsFollowTranscript'
    BY <1>14, <1>17, <1>18 DEF RowsFollowTranscript
<1>20. position' \in Nat /\ tokenIds' # <<>>
    BY <1>2, <1>8, EmptySeq
<1> QED
    BY <1>7, <1>8, <1>13, <1>14, <1>16, <1>19, <1>20

LEMMA RowsInit == FInit => RowsInv
<1> SUFFICES ASSUME FInit PROVE RowsInv
    OBVIOUS
<1>1. /\ kv = <<>> /\ tokenIds = <<>> /\ todo = <<>> /\ produced = <<>> /\ position = 0 /\ last = 0
      /\ doing = "idle" /\ open = FALSE
    BY DEF FInit
<1>2. /\ kv \in Seq(Int) /\ tokenIds \in Seq(Nat) /\ todo \in Seq(Nat) /\ produced \in Seq(RowType)
      /\ Len(kv) = 0 /\ Len(tokenIds) = 0 /\ Len(produced) = 0 /\ DOMAIN kv = {} /\ DOMAIN produced = {}
  <2>1. DOMAIN <<>> = {}
    OBVIOUS
  <2>2. \A T : <<>> \in Seq(T)
    BY EmptySeq
  <2>3. Len(<<>>) = 0
    BY EmptySeq
  <2> QED BY <1>1, <2>1, <2>2, <2>3, Zenon
<1>3. RowsTypeOK
    BY <1>1, <1>2 DEF RowsTypeOK
<1>4. LastInv
    BY <1>1, <1>2 DEF LastInv
<1>5. RowsFollowTranscript
    BY <1>1, <1>2, SessionAssumption DEF RowsFollowTranscript
<1> QED
    BY <1>3, <1>4, <1>5 DEF RowsInv

(* What no row, token or position is changed by leaves the rows as they are. *)
LEMMA RowsStand ==
    ASSUME RowsInv, UNCHANGED <<kv, position, last, tokenIds, produced>>, todo' \in Seq(Nat)
    PROVE  /\ RowsTypeOK' /\ RowsFollowTranscript'
           /\ Len(produced') = Len(kv')
           /\ \A i \in DOMAIN produced' : produced'[i].how = "sampled" => i > 1
           /\ tokenIds' # <<>> => last' = tokenIds'[Len(tokenIds')]
           /\ KvFull' <=> KvFull
    BY DEF RowsInv, RowsTypeOK, LastInv, RowsFollowTranscript, KvFull

LEMMA RowsCreate == RowsInv /\ CreateSession => RowsInv'
<1> SUFFICES ASSUME RowsInv, CreateSession PROVE RowsInv'
    OBVIOUS
<1>1. /\ todo' \in Prompts /\ UNCHANGED <<kv, position, last, tokenIds, produced>>
      /\ open' = TRUE /\ doing' = "prefill"
    BY DEF CreateSession, Unchanged
<1>2. todo' \in Seq(Nat) /\ todo' # <<>>
    BY <1>1, SessionAssumption
<1>3. LastInv'
    BY <1>1, <1>2, RowsStand DEF LastInv
<1> QED
    BY <1>1, <1>2, <1>3, RowsStand DEF RowsInv

LEMMA RowsContinue == RowsInv /\ ContinueSession => RowsInv'
<1> SUFFICES ASSUME RowsInv, ContinueSession PROVE RowsInv'
    OBVIOUS
<1>1. /\ todo' \in Prompts \cup {<<>>} /\ UNCHANGED <<kv, position, last, tokenIds, produced, open>>
      /\ doing = "idle" /\ open /\ doing' = "prefill"
    BY DEF ContinueSession, Unchanged
<1>2. todo' \in Seq(Nat)
    BY <1>1, SessionAssumption, EmptySeq
<1>3. tokenIds # <<>> \/ KvFull
    BY <1>1 DEF RowsInv, LastInv
<1>4. LastInv'
    BY <1>1, <1>2, <1>3, RowsStand DEF LastInv
<1> QED
    BY <1>1, <1>2, <1>4, RowsStand DEF RowsInv

LEMMA RowsPrefill == RowsInv /\ PrefillToken => RowsInv'
<1> SUFFICES ASSUME RowsInv, PrefillToken PROVE RowsInv'
    OBVIOUS
<1>1. PICK token : token = Head(todo)
    OBVIOUS
<1>2. /\ doing = "prefill" /\ todo # <<>> /\ ~KvFull /\ Evaluate(token)
      /\ last' = token /\ tokenIds' = Append(tokenIds, token)
      /\ produced' = Append(produced, Step("prefill")) /\ position' = position + 1
      /\ todo' = Tail(todo) /\ doing' = doing /\ open' = open
    BY <1>1 DEF PrefillToken
<1>3. token \in Nat /\ todo' \in Seq(Nat)
    BY <1>1, <1>2, HeadTailProperties DEF RowsInv, RowsTypeOK
<1>4. /\ kv' \in Seq(Int) /\ tokenIds' \in Seq(Nat) /\ position' \in Nat
      /\ produced' \in Seq(RowType) /\ Len(produced') = Len(kv')
      /\ \A i \in DOMAIN produced' : produced'[i].how = "sampled" => i > 1
      /\ tokenIds' # <<>> /\ tokenIds'[Len(tokenIds')] = token
      /\ RowsFollowTranscript'
  <2>1. "prefill" \in {"prefill", "sampled"} /\ "prefill" # "sampled"
    OBVIOUS
  <2> QED BY <1>2, <1>3, <2>1, RowAdded
<1>5. RowsTypeOK'
    BY <1>2, <1>3, <1>4 DEF RowsTypeOK
<1>6. ~open => doing \in {"idle", "ended"}
    BY DEF RowsInv, LastInv
<1>7. LastInv'
    BY <1>2, <1>4, <1>6 DEF LastInv
<1> QED
    BY <1>4, <1>5, <1>7 DEF RowsInv

LEMMA RowsDecode == RowsInv /\ DecodeToken => RowsInv'
<1> SUFFICES ASSUME RowsInv, DecodeToken PROVE RowsInv'
    OBVIOUS
<1>1. PICK new \in Tokens : last' = new /\ tokenIds' = Append(tokenIds, new)
    BY DEF DecodeToken
<1>2. PICK token : token = last
    OBVIOUS
<1>3. /\ doing = "decode" /\ ~KvFull /\ Evaluate(token)
      /\ produced' = Append(produced, Step("sampled")) /\ position' = position + 1
      /\ todo' = todo /\ doing' = doing /\ open' = open
    BY <1>2 DEF DecodeToken
<1>4. token \in Nat /\ new \in Nat /\ todo' \in Seq(Nat)
    BY <1>2, <1>3, SessionAssumption DEF RowsInv, RowsTypeOK
<1>5. tokenIds # <<>> /\ token = tokenIds[Len(tokenIds)]
    BY <1>2, <1>3 DEF RowsInv, LastInv
<1>6. /\ kv' \in Seq(Int) /\ tokenIds' \in Seq(Nat) /\ position' \in Nat
      /\ produced' \in Seq(RowType) /\ Len(produced') = Len(kv')
      /\ \A i \in DOMAIN produced' : produced'[i].how = "sampled" => i > 1
      /\ tokenIds' # <<>> /\ tokenIds'[Len(tokenIds')] = new
      /\ RowsFollowTranscript'
  <2>1. "sampled" \in {"prefill", "sampled"} /\ "prefill" # "sampled"
    OBVIOUS
  <2> QED BY <1>1, <1>3, <1>4, <1>5, <2>1, RowAdded
<1>7. RowsTypeOK'
    BY <1>1, <1>4, <1>6 DEF RowsTypeOK
<1>8. ~open => doing \in {"idle", "ended"}
    BY DEF RowsInv, LastInv
<1>9. LastInv'
    BY <1>1, <1>3, <1>6, <1>8 DEF LastInv
<1> QED
    BY <1>6, <1>7, <1>9 DEF RowsInv

LEMMA RowsPrefillEnds == RowsInv /\ PrefillEnds => RowsInv'
<1> SUFFICES ASSUME RowsInv, PrefillEnds PROVE RowsInv'
    OBVIOUS
<1>1. /\ doing = "prefill" /\ (todo = <<>> \/ KvFull) /\ todo' = <<>>
      /\ doing' \in {"decode", "idle"} /\ open' = open
      /\ UNCHANGED <<kv, position, last, tokenIds, produced>>
    BY DEF PrefillEnds, Unchanged
<1>2. todo' \in Seq(Nat)
    BY <1>1, EmptySeq
<1>3. tokenIds # <<>> \/ KvFull
    BY <1>1 DEF RowsInv, LastInv
<1>4. open = TRUE \/ ~open
    OBVIOUS
<1>5. ~open => doing' \in {"idle", "ended"}
    BY <1>1 DEF RowsInv, LastInv
<1>6. LastInv'
    BY <1>1, <1>2, <1>3, <1>5, RowsStand DEF LastInv
<1> QED
    BY <1>1, <1>2, <1>6, RowsStand DEF RowsInv

LEMMA RowsGenerateEnds == RowsInv /\ GenerateEnds => RowsInv'
<1> SUFFICES ASSUME RowsInv, GenerateEnds PROVE RowsInv'
    OBVIOUS
<1>1. /\ doing = "decode" /\ doing' = "idle" /\ open' = open /\ todo' = todo
      /\ UNCHANGED <<kv, position, last, tokenIds, produced>>
    BY DEF GenerateEnds, Unchanged
<1>2. todo' \in Seq(Nat)
    BY <1>1 DEF RowsInv, RowsTypeOK
<1>3. tokenIds # <<>> \/ KvFull
    BY <1>1 DEF RowsInv, LastInv
<1>4. LastInv'
    BY <1>1, <1>2, <1>3, RowsStand DEF LastInv
<1> QED
    BY <1>1, <1>2, <1>4, RowsStand DEF RowsInv

LEMMA RowsThrow == RowsInv /\ EngineThrows => RowsInv'
<1> SUFFICES ASSUME RowsInv, EngineThrows PROVE RowsInv'
    OBVIOUS
<1>1. /\ doing' = "ended" /\ todo' = todo /\ UNCHANGED <<kv, position, last, tokenIds, produced>>
    BY DEF EngineThrows
<1>2. todo' \in Seq(Nat)
    BY <1>1 DEF RowsInv, RowsTypeOK
<1>3. LastInv'
    BY <1>1, <1>2, RowsStand DEF LastInv
<1> QED
    BY <1>1, <1>2, <1>3, RowsStand DEF RowsInv

LEMMA RowsStutter == RowsInv /\ UNCHANGED fvars => RowsInv'
<1> SUFFICES ASSUME RowsInv, UNCHANGED fvars PROVE RowsInv'
    OBVIOUS
<1>1. /\ doing' = doing /\ open' = open /\ todo' = todo
      /\ UNCHANGED <<kv, position, last, tokenIds, produced>>
    BY DEF fvars
<1>2. todo' \in Seq(Nat)
    BY <1>1 DEF RowsInv, RowsTypeOK
<1>3. LastInv'
    BY <1>1, <1>2, RowsStand DEF RowsInv, LastInv
<1> QED
    BY <1>1, <1>2, <1>3, RowsStand DEF RowsInv

(* For any prompts and KV budget, every row holds the token its step
   evaluated, computed from the last AttnWindow rows up to its own, and the
   two counts of rows agree within the budget (run_attention, generate).    *)
THEOREM RowsFollow == FSpec => []RowsFollowTranscript
<1>1. RowsInv /\ [FNext]_fvars => RowsInv'
    BY RowsCreate, RowsContinue, RowsPrefill, RowsDecode, RowsPrefillEnds, RowsGenerateEnds,
       RowsThrow, RowsStutter DEF FNext
<1>2. RowsInv => RowsFollowTranscript
    BY DEF RowsInv
<1> QED
    BY RowsInit, <1>1, <1>2, PTL DEF FSpec

-----------------------------------------------------------------------------
(* Slots and the bytes they hold. *)
Slot == [id : DOMAIN ExpertBytes, bytes : Nat, touch : Nat]

SumsUp(f, slots) ==
    f[0] = 0 /\ \A i \in 1..Len(slots) : f[i] = f[i - 1] + slots[i].bytes

LEMMA SlotBytes ==
    ASSUME NEW slots \in Seq(Slot), NEW i \in 1..Len(slots)
    PROVE  slots[i] \in Slot /\ slots[i].bytes \in Nat /\ slots[i].id \in DOMAIN ExpertBytes
<1>1. slots[i] \in Slot
    BY ElementOfSeq
<1> QED
    BY <1>1 DEF Slot

(* TotalBytes is the last of the partial sums. *)
LEMMA BytesSum ==
    ASSUME NEW slots \in Seq(Slot)
    PROVE  \E f \in [0..Len(slots) -> Nat] : SumsUp(f, slots) /\ TotalBytes(slots) = f[Len(slots)]
<1> DEFINE n == Len(slots)
           F == [x \in (1..n) \X Nat |-> x[2] + slots[x[1]].bytes]
           sum[i \in 0..Len(slots)] == IF i = 0 THEN 0 ELSE sum[i - 1] + slots[i].bytes
<1>1. n \in Nat
    BY LenProperties
<1>2. F \in [(1..n) \X Nat -> Nat]
    BY SlotBytes
<1>3. \A i \in 1..n, x \in Nat : F[<<i, x>>] = x + slots[i].bytes
    OBVIOUS
<1> HIDE DEF F
<1>4. PICK f \in [0..n -> Nat] : Iterates(f, n, 0, F)
  <2>1. 0 \in Nat
    OBVIOUS
  <2> QED BY <1>1, <1>2, <2>1, Iterate
<1>5. ASSUME NEW i \in 1..n PROVE f[i] = f[i - 1] + slots[i].bytes
  <2>1. i - 1 \in 0..n
    BY <1>1
  <2>2. f[i - 1] \in Nat
    BY <1>4, <2>1
  <2> QED BY <1>3, <1>4, <2>2 DEF Iterates
<1>6. f[0] = 0
    BY <1>4 DEF Iterates
<1>7. f = [i \in 0..Len(slots) |-> IF i = 0 THEN 0 ELSE f[i - 1] + slots[i].bytes]
  <2>1. \A i \in 0..n : f[i] = IF i = 0 THEN 0 ELSE f[i - 1] + slots[i].bytes
    BY <1>1, <1>5, <1>6
  <2> QED BY <1>4, <2>1
<1>8. sum = [i \in 0..Len(slots) |-> IF i = 0 THEN 0 ELSE sum[i - 1] + slots[i].bytes]
  <2>1. \E g : g = [i \in 0..Len(slots) |-> IF i = 0 THEN 0 ELSE g[i - 1] + slots[i].bytes]
    BY <1>7
  <2> QED BY <2>1
<1>9. TotalBytes(slots) = sum[Len(slots)]
    BY DEF TotalBytes
<1> HIDE DEF sum
<1>10. \A i \in 0..n : sum[i] = f[i]
  <2> DEFINE T == {i \in 0..n : sum[i] = f[i]}
  <2>1. 0 \in T
    BY <1>1, <1>6, <1>8
  <2>2. ASSUME NEW i \in 0..n - 1, i \in T PROVE i + 1 \in T
    <3>1. i + 1 \in 1..n /\ (i + 1) - 1 = i /\ i + 1 # 0 /\ i + 1 \in 0..n
      BY <1>1
    <3>2. sum[i + 1] = sum[i] + slots[i + 1].bytes
      BY <1>8, <3>1
    <3>3. f[i + 1] = f[i] + slots[i + 1].bytes
      BY <1>5, <3>1
    <3> QED BY <2>2, <3>1, <3>2, <3>3
  <2> HIDE DEF T
  <2>3. \A i \in 0..n : i \in T
    BY <1>1, <2>1, <2>2, InductUpTo, Zenon
  <2> QED BY <2>3 DEF T
<1> QED
  <2>1. n \in 0..n
    BY <1>1
  <2>2. TotalBytes(slots) = f[n]
    BY <1>9, <1>10, <2>1
  <2> QED BY <1>4, <1>5, <1>6, <2>2 DEF SumsUp

(* The first k slots of s and of t are of the same sizes. *)
SameSizes(s, t, k) ==
    k <= Len(s) /\ k <= Len(t) /\ \A i \in 1..k : s[i].bytes = t[i].bytes

(* So are their partial sums. *)
LEMMA SumsAgree ==
    ASSUME NEW s \in Seq(Slot), NEW t \in Seq(Slot), NEW k \in Nat, SameSizes(s, t, k),
           NEW f, NEW g, SumsUp(f, s), SumsUp(g, t)
    PROVE  f[k] = g[k]
<1> DEFINE T == {i \in 0..k : f[i] = g[i]}
<1>1. 0 \in T
    BY DEF SumsUp
<1>2. ASSUME NEW i \in 0..k - 1, i \in T PROVE i + 1 \in T
  <2>1. i + 1 \in 1..k /\ i + 1 \in 1..Len(s) /\ i + 1 \in 1..Len(t) /\ (i + 1) - 1 = i /\ i + 1 \in 0..k
    BY LenProperties DEF SameSizes
  <2>2. f[i + 1] = f[i] + s[i + 1].bytes /\ g[i + 1] = g[i] + t[i + 1].bytes
    BY <2>1 DEF SumsUp
  <2> QED BY <1>2, <2>1, <2>2 DEF SameSizes
<1> HIDE DEF T
<1>3. \A i \in 0..k : i \in T
    BY <1>1, <1>2, InductUpTo, Zenon
<1> QED
    BY <1>3 DEF T

LEMMA BytesEmpty == <<>> \in Seq(Slot) /\ TotalBytes(<<>>) = 0
<1>1. <<>> \in Seq(Slot) /\ Len(<<>>) = 0
    BY EmptySeq
<1>2. PICK f \in [0..Len(<<>>) -> Nat] : SumsUp(f, <<>>) /\ TotalBytes(<<>>) = f[Len(<<>>)]
    BY <1>1, BytesSum
<1> QED
    BY <1>1, <1>2 DEF SumsUp

LEMMA BytesSame ==
    ASSUME NEW s \in Seq(Slot), NEW t \in Seq(Slot), Len(s) = Len(t),
           \A i \in 1..Len(s) : s[i].bytes = t[i].bytes
    PROVE  TotalBytes(s) = TotalBytes(t)
<1>1. PICK f \in [0..Len(s) -> Nat] : SumsUp(f, s) /\ TotalBytes(s) = f[Len(s)]
    BY BytesSum
<1>2. PICK g \in [0..Len(t) -> Nat] : SumsUp(g, t) /\ TotalBytes(t) = g[Len(t)]
    BY BytesSum
<1>3. PICK k : k = Len(s)
    OBVIOUS
<1>4. k \in Nat /\ SameSizes(s, t, k)
    BY <1>3, LenProperties DEF SameSizes
<1>5. f[k] = g[k]
    BY <1>1, <1>2, <1>4, SumsAgree
<1> QED
    BY <1>1, <1>2, <1>3, <1>5

LEMMA BytesAppend ==
    ASSUME NEW s \in Seq(Slot), NEW x \in Slot
    PROVE  TotalBytes(Append(s, x)) = TotalBytes(s) + x.bytes /\ TotalBytes(s) \in Nat
<1>1. PICK t : t = Append(s, x)
    OBVIOUS
<1>2. PICK k : k = Len(s)
    OBVIOUS
<1>3. /\ t \in Seq(Slot) /\ Len(t) = k + 1 /\ t[k + 1] = x /\ \A i \in 1..k : t[i] = s[i]
      /\ k \in Nat
    BY <1>1, <1>2, AppendProperties, LenProperties
<1>4. PICK f \in [0..Len(s) -> Nat] : SumsUp(f, s) /\ TotalBytes(s) = f[Len(s)]
    BY BytesSum
<1>5. PICK g \in [0..Len(t) -> Nat] : SumsUp(g, t) /\ TotalBytes(t) = g[Len(t)]
    BY <1>3, BytesSum
<1>6. SameSizes(s, t, k)
    BY <1>2, <1>3 DEF SameSizes
<1>7. f[k] = g[k]
    BY <1>3, <1>4, <1>5, <1>6, SumsAgree
<1>8. g[k + 1] = g[k] + x.bytes
  <2>1. k + 1 \in 1..Len(t) /\ (k + 1) - 1 = k
    BY <1>3
  <2>2. g[k + 1] = g[(k + 1) - 1] + t[k + 1].bytes
    BY <1>5, <2>1 DEF SumsUp
  <2> QED BY <1>3, <2>1, <2>2
<1>9. f[k] \in Nat
    BY <1>2, <1>3, <1>4
<1> QED
    BY <1>1, <1>2, <1>3, <1>4, <1>5, <1>7, <1>8, <1>9

(* RemoveAt takes one element out and moves those after it up. *)
LEMMA RemoveAtIs ==
    ASSUME NEW s \in Seq(Slot), NEW k \in 1..Len(s)
    PROVE  /\ RemoveAt(s, k) \in Seq(Slot) /\ Len(RemoveAt(s, k)) = Len(s) - 1
           /\ \A i \in 1..(Len(s) - 1) : RemoveAt(s, k)[i] = s[IF i < k THEN i ELSE i + 1]
<1>1. PICK n : n = Len(s)
    OBVIOUS
<1>2. n \in Nat /\ k \in 1..n
    BY <1>1, LenProperties
<1>3. \A i \in 1..n : s[i] \in Slot
    BY <1>1, ElementOfSeq
<1>4. PICK a : a = SubSeq(s, 1, k - 1)
    OBVIOUS
<1>5. PICK b : b = SubSeq(s, k + 1, n)
    OBVIOUS
<1>6. a \in Seq(Slot) /\ Len(a) = k - 1 /\ \A i \in 1..(k - 1) : a[i] = s[i]
  <2>1. 1 \in Int /\ k - 1 \in Int /\ \A i \in 1..(k - 1) : s[i] \in Slot
    BY <1>2, <1>3
  <2>2. /\ a \in Seq(Slot) /\ Len(a) = IF 1 <= k - 1 THEN (k - 1) - 1 + 1 ELSE 0
        /\ \A i \in 1..((k - 1) - 1 + 1) : a[i] = s[1 + i - 1]
    BY <1>4, <2>1, SubSeqProperties
  <2>3. (k - 1) - 1 + 1 = k - 1 /\ (~(1 <= k - 1) => k - 1 = 0) /\ \A i \in 1..(k - 1) : 1 + i - 1 = i
    BY <1>2
  <2> QED BY <2>2, <2>3
<1>7. b \in Seq(Slot) /\ Len(b) = n - k /\ \A i \in 1..(n - k) : b[i] = s[k + i]
  <2>1. k + 1 \in Int /\ n \in Int /\ \A i \in k + 1..n : s[i] \in Slot
    BY <1>2, <1>3
  <2>2. /\ b \in Seq(Slot) /\ Len(b) = IF k + 1 <= n THEN n - (k + 1) + 1 ELSE 0
        /\ \A i \in 1..(n - (k + 1) + 1) : b[i] = s[(k + 1) + i - 1]
    BY <1>5, <2>1, SubSeqProperties
  <2>3. n - (k + 1) + 1 = n - k /\ (~(k + 1 <= n) => n - k = 0) /\ \A i \in 1..(n - k) : (k + 1) + i - 1 = k + i
    BY <1>2
  <2> QED BY <2>2, <2>3
<1>8. RemoveAt(s, k) = a \o b
    BY <1>1, <1>4, <1>5 DEF RemoveAt
<1>9. /\ a \o b \in Seq(Slot) /\ Len(a \o b) = (k - 1) + (n - k)
      /\ \A i \in 1..((k - 1) + (n - k)) : (a \o b)[i] = IF i <= k - 1 THEN a[i] ELSE b[i - (k - 1)]
  <2>1. /\ a \o b \in Seq(Slot) /\ Len(a \o b) = Len(a) + Len(b)
        /\ \A i \in 1..(Len(a) + Len(b)) : (a \o b)[i] = IF i <= Len(a) THEN a[i] ELSE b[i - Len(a)]
    BY <1>6, <1>7, ConcatProperties
  <2> QED BY <1>6, <1>7, <2>1
<1>10. (k - 1) + (n - k) = n - 1
    BY <1>2
<1>11. ASSUME NEW i \in 1..(n - 1) PROVE (a \o b)[i] = s[IF i < k THEN i ELSE i + 1]
  <2>1. (a \o b)[i] = IF i <= k - 1 THEN a[i] ELSE b[i - (k - 1)]
    BY <1>9, <1>10
  <2>2. CASE i < k
    <3>1. i <= k - 1 /\ i \in 1..(k - 1)
      BY <1>2, <2>2
    <3> QED BY <1>6, <2>1, <2>2, <3>1
  <2>3. CASE ~(i < k)
    <3>1. ~(i <= k - 1) /\ i - (k - 1) \in 1..(n - k) /\ k + (i - (k - 1)) = i + 1
      BY <1>2, <2>3
    <3> QED BY <1>7, <2>1, <2>3, <3>1
  <2> QED BY <2>2, <2>3
<1> QED
    BY <1>1, <1>8, <1>9, <1>10, <1>11

LEMMA BytesRemove ==
    ASSUME NEW s \in Seq(Slot), NEW k \in 1..Len(s)
    PROVE  TotalBytes(RemoveAt(s, k)) = TotalBytes(s) - s[k].bytes
<1>1. PICK t : t = RemoveAt(s, k)
    OBVIOUS
<1>2. PICK n : n = Len(s)
    OBVIOUS
<1>3. n \in Nat /\ k \in 1..n /\ n - 1 \in Nat
    BY <1>2, LenProperties
<1>4. /\ t \in Seq(Slot) /\ Len(t) = n - 1 /\ \A i \in 1..(n - 1) : t[i] = s[IF i < k THEN i ELSE i + 1]
    BY <1>1, <1>2, RemoveAtIs
<1>5. PICK f \in [0..n -> Nat] : SumsUp(f, s) /\ TotalBytes(s) = f[n]
    BY <1>2, BytesSum
<1>6. PICK g \in [0..(n - 1) -> Nat] : SumsUp(g, t) /\ TotalBytes(t) = g[n - 1]
    BY <1>4, BytesSum
<1>7. PICK size : size = s[k].bytes
    OBVIOUS
<1>8. size \in Nat
    BY <1>7, SlotBytes
<1> DEFINE T == {i \in 0..(n - 1) : g[i] = IF i < k THEN f[i] ELSE f[i + 1] - size}
<1>9. 0 \in T
  <2>1. 0 < k /\ 0 \in 0..(n - 1)
    BY <1>3
  <2>2. f[0] = 0 /\ g[0] = 0
    BY <1>5, <1>6 DEF SumsUp
  <2> QED BY <2>1, <2>2
<1>10. ASSUME NEW i \in 0..(n - 1) - 1, i \in T PROVE i + 1 \in T
  <2>1. /\ i + 1 \in 1..(n - 1) /\ i + 1 \in 0..(n - 1) /\ i + 1 \in 1..n /\ i + 2 \in 1..n
        /\ (i + 1) - 1 = i /\ (i + 2) - 1 = i + 1 /\ (i + 1) + 1 = i + 2
        /\ i \in 0..n /\ i + 1 \in 0..n /\ i + 2 \in 0..n /\ i \in 0..(n - 1)
    BY <1>3
  <2>2. g[i + 1] = g[i] + t[i + 1].bytes
    BY <1>4, <1>6, <2>1 DEF SumsUp
  <2>3. f[i + 1] = f[i] + s[i + 1].bytes /\ f[i + 2] = f[i + 1] + s[i + 2].bytes
    BY <1>2, <1>5, <2>1 DEF SumsUp
  <2>4. t[i + 1] = s[IF i + 1 < k THEN i + 1 ELSE i + 2]
    BY <1>4, <2>1
  <2>5. f[i] \in Nat /\ f[i + 1] \in Nat /\ f[i + 2] \in Nat /\ g[i] \in Nat
    BY <1>5, <1>6, <2>1
  <2>6. s[i + 1].bytes \in Nat /\ s[i + 2].bytes \in Nat
    BY <1>2, <2>1, SlotBytes
  <2>7. g[i] = IF i < k THEN f[i] ELSE f[i + 1] - size
    BY <1>10
  <2>8. CASE i + 1 < k
    <3>1. i < k
      BY <1>3, <2>8
    <3>2. g[i + 1] = f[i + 1]
      BY <2>2, <2>3, <2>4, <2>7, <2>8, <3>1
    <3> QED BY <2>1, <2>8, <3>2
  <2>9. CASE i + 1 = k
    <3>1. i < k /\ ~(i + 1 < k)
      BY <1>3, <2>9
    <3>2. s[i + 1].bytes = size
      BY <1>7, <2>9
    <3>3. g[i + 1] = f[i] + s[i + 2].bytes
      BY <2>2, <2>4, <2>7, <3>1
    <3>4. g[i + 1] = f[i + 2] - size
      <4>1. PICK a, b : a = f[i] /\ b = s[i + 2].bytes
        OBVIOUS
      <4>2. a \in Nat /\ b \in Nat /\ f[i + 2] = (a + size) + b
        BY <2>3, <2>5, <2>6, <3>2, <4>1
      <4>3. (a + size) + b - size = a + b
        BY <1>8, <4>2
      <4>4. g[i + 1] = a + b
        BY <3>3, <4>1
      <4> QED BY <1>8, <4>2, <4>3, <4>4
    <3> QED BY <2>1, <3>1, <3>4
  <2>10. CASE i + 1 > k
    <3>1. ~(i < k) /\ ~(i + 1 < k)
      BY <1>3, <2>10
    <3>2. g[i + 1] = (f[i + 1] - size) + s[i + 2].bytes
      BY <2>2, <2>4, <2>7, <3>1
    <3>3. g[i + 1] = f[i + 2] - size
      BY <1>8, <2>3, <2>5, <2>6, <3>2
    <3> QED BY <2>1, <3>1, <3>3
  <2> QED BY <1>3, <2>8, <2>9, <2>10
<1> HIDE DEF T
<1>11. \A i \in 0..(n - 1) : i \in T
    BY <1>3, <1>9, <1>10, InductUpTo, Zenon
<1>12. g[n - 1] = IF n - 1 < k THEN f[n - 1] ELSE f[n] - size
  <2>1. n - 1 \in 0..(n - 1) /\ (n - 1) + 1 = n
    BY <1>3
  <2> QED BY <1>11, <2>1 DEF T
<1>13. n - 1 < k => f[n - 1] = f[n] - size
  <2>1. SUFFICES ASSUME n - 1 < k PROVE f[n - 1] = f[n] - size
    OBVIOUS
  <2>2. n = k /\ n \in 1..n /\ n - 1 \in 0..n /\ n \in 0..n
    BY <1>3, <2>1
  <2>3. f[n] = f[n - 1] + s[n].bytes
    BY <1>2, <1>5, <2>2 DEF SumsUp
  <2>4. f[n - 1] \in Nat /\ f[n] \in Nat
    BY <1>5, <2>2
  <2> QED BY <1>7, <1>8, <2>2, <2>3, <2>4
<1>14. g[n - 1] = f[n] - size
    BY <1>12, <1>13
<1> QED
    BY <1>1, <1>5, <1>6, <1>7, <1>14

-----------------------------------------------------------------------------
(* The cache: the bytes used are those of its slots, and every promotion has
   left a slot or has been followed by an eviction.                         *)
CacheType == [slots : Seq(Slot), clock : Nat, used : Nat, hits : Nat, promotions : Nat, evictions : Nat]

Caches == {c \in CacheType : /\ c.used = TotalBytes(c.slots)
                             /\ c.promotions = c.evictions + Len(c.slots)}

Fits(c) == c.used <= Capacity \/ Len(c.slots) = 1

LEMMA CacheFields ==
    ASSUME NEW c \in Caches
    PROVE  /\ c.slots \in Seq(Slot) /\ c.clock \in Nat /\ c.used \in Nat /\ c.hits \in Nat
           /\ c.promotions \in Nat /\ c.evictions \in Nat
           /\ c.used = TotalBytes(c.slots) /\ c.promotions = c.evictions + Len(c.slots)
           /\ DOMAIN c.slots = 1..Len(c.slots) /\ Len(c.slots) \in Nat
<1>1. c.slots \in Seq(Slot)
    BY DEF Caches, CacheType
<1> QED
    BY <1>1, LenProperties DEF Caches, CacheType

LEMMA OldestIs ==
    ASSUME NEW c \in Caches, c.slots # <<>>
    PROVE  /\ Oldest(c) \in 1..Len(c.slots)
           /\ \A j \in 1..Len(c.slots) : c.slots[Oldest(c)].touch <= c.slots[j].touch
<1> DEFINE n == Len(c.slots)
           touches == {c.slots[i].touch : i \in 1..n}
<1>1. c.slots \in Seq(Slot) /\ n \in Nat /\ n # 0 /\ DOMAIN c.slots = 1..n
    BY CacheFields, EmptySeq
<1>2. \A i \in 1..n : c.slots[i].touch \in Nat
  <2>1. \A i \in 1..n : c.slots[i] \in Slot
    BY <1>1, ElementOfSeq
  <2> QED BY <2>1 DEF Slot
<1>3. touches \subseteq Nat /\ touches # {}
  <2>1. 1 \in 1..n
    BY <1>1
  <2> QED BY <1>2, <2>1
<1>4. PICK m \in touches : \A x \in touches : m <= x
    BY <1>3, LeastNat, Zenon
<1>5. PICK i \in 1..n : c.slots[i].touch = m
    BY <1>4
<1>6. \A j \in 1..n : c.slots[i].touch <= c.slots[j].touch
    BY <1>4, <1>5
<1> HIDE DEF n, touches
<1>7. \E k \in DOMAIN c.slots : \A j \in DOMAIN c.slots : c.slots[k].touch <= c.slots[j].touch
    BY <1>1, <1>6
<1>8. /\ Oldest(c) \in DOMAIN c.slots
      /\ \A j \in DOMAIN c.slots : c.slots[Oldest(c)].touch <= c.slots[j].touch
    BY <1>7, Zenon DEF Oldest
<1> QED
    BY <1>1, <1>8 DEF n

LEMMA Dropped ==
    ASSUME NEW c \in Caches, c.slots # <<>>
    PROVE  /\ DropOldest(c) \in Caches
           /\ Len(DropOldest(c).slots) = Len(c.slots) - 1
           /\ Slots(DropOldest(c)) \subseteq Slots(c)
<1>1. PICK k : k = Oldest(c)
    OBVIOUS
<1>2. PICK rest : rest = RemoveAt(c.slots, k)
    OBVIOUS
<1>3. PICK n : n = Len(c.slots)
    OBVIOUS
<1>4. /\ c.slots \in Seq(Slot) /\ c.clock \in Nat /\ c.used \in Nat /\ c.hits \in Nat
      /\ c.promotions \in Nat /\ c.evictions \in Nat
      /\ c.used = TotalBytes(c.slots) /\ c.promotions = c.evictions + n
      /\ DOMAIN c.slots = 1..n /\ n \in Nat /\ k \in 1..n
    BY <1>1, <1>3, CacheFields, OldestIs
<1>5. /\ rest \in Seq(Slot) /\ Len(rest) = n - 1 /\ DOMAIN rest = 1..(n - 1)
      /\ \A i \in 1..(n - 1) : rest[i] = c.slots[IF i < k THEN i ELSE i + 1]
  <2>1. /\ rest \in Seq(Slot) /\ Len(rest) = n - 1
        /\ \A i \in 1..(n - 1) : rest[i] = c.slots[IF i < k THEN i ELSE i + 1]
    BY <1>2, <1>3, <1>4, RemoveAtIs
  <2>2. DOMAIN rest = 1..Len(rest)
    BY <2>1, LenProperties
  <2> QED BY <2>1, <2>2
<1>6. TotalBytes(rest) = c.used - c.slots[k].bytes /\ TotalBytes(rest) \in Nat
  <2>1. TotalBytes(rest) = c.used - c.slots[k].bytes
    BY <1>2, <1>3, <1>4, BytesRemove
  <2>2. PICK f \in [0..Len(rest) -> Nat] : TotalBytes(rest) = f[Len(rest)]
    BY <1>5, BytesSum
  <2>3. Len(rest) \in 0..Len(rest)
    BY <1>5, LenProperties
  <2> QED BY <2>1, <2>2, <2>3
<1>7. DropOldest(c) = [c EXCEPT !.slots = rest, !.used = c.used - c.slots[k].bytes, !.evictions = c.evictions + 1]
    BY <1>1, <1>2 DEF DropOldest
<1>8. PICK d : d = DropOldest(c)
    OBVIOUS
<1>9. c \in CacheType
    BY DEF Caches
<1>10. /\ d.slots = rest /\ d.used = TotalBytes(rest) /\ d.evictions = c.evictions + 1
       /\ d.promotions = c.promotions
    BY <1>6, <1>7, <1>8, <1>9 DEF CacheType
<1>11. d \in CacheType
  <2>1. PICK e : e = c.evictions + 1
    OBVIOUS
  <2>2. d = [c EXCEPT !.slots = rest, !.used = TotalBytes(rest), !.evictions = e]
    BY <1>6, <1>7, <1>8, <2>1
  <2>3. e \in Nat
    BY <1>4, <2>1
  <2> QED BY <1>5, <1>6, <1>9, <2>2, <2>3 DEF CacheType
<1>12. d.promotions = d.evictions + Len(d.slots)
  <2>1. PICK p, e : p = c.promotions /\ e = c.evictions
    OBVIOUS
  <2>2. p \in Nat /\ e \in Nat /\ p = e + n /\ n \in Nat
    BY <1>4, <2>1
  <2>3. p = (e + 1) + (n - 1)
    BY <2>2
  <2>4. Len(d.slots) = n - 1 /\ d.promotions = p /\ d.evictions = e + 1
    BY <1>5, <1>10, <2>1
  <2> QED BY <2>3, <2>4
<1>13. Slots(d) \subseteq Slots(c)
  <2>1. ASSUME NEW i \in 1..(n - 1)
        PROVE  rest[i].id \in Slots(c)
    <3>1. PICK j : j = IF i < k THEN i ELSE i + 1
      OBVIOUS
    <3>2. j \in 1..n /\ rest[i] = c.slots[j]
      BY <1>4, <1>5, <3>1
    <3> QED BY <1>4, <3>2 DEF Slots
  <2> QED BY <1>5, <1>10, <2>1 DEF Slots
<1> QED
    BY <1>3, <1>5, <1>8, <1>10, <1>11, <1>12, <1>13 DEF Caches

(* f holds c and what dropping the oldest slot over and over leaves of it. *)
Drops(f, c) ==
    /\ f[0] = c /\ \A k \in 1..Len(c.slots) : f[k] = DropOldest(f[k - 1])
    /\ \A k \in 0..Len(c.slots) : /\ f[k] \in Caches /\ Slots(f[k]) \subseteq Slots(c)
                                 /\ Len(f[k].slots) = Len(c.slots) - k

(* Room is made at the first of them the expert fits into, or the last. *)
LEMMA RoomSteps ==
    ASSUME NEW c \in Caches, NEW bytes \in Nat
    PROVE  \E f : /\ Drops(f, c)
                  /\ MakeRoom(c, bytes) = f[Min({k \in 0..Len(c.slots) : f[k].used + bytes <= Capacity}
                                                    \cup {Len(c.slots)})]
<1> DEFINE n == Len(c.slots)
           S == {d \in Caches : Slots(d) \subseteq Slots(c)}
           Left(k) == {d \in S : Len(d.slots) = n - k}
           F == [x \in (1..n) \X S |-> IF x[2].slots = <<>> THEN x[2] ELSE DropOldest(x[2])]
           after[k \in 0..Len(c.slots)] == IF k = 0 THEN c ELSE DropOldest(after[k - 1])
           enough == {k \in DOMAIN after : after[k].used + bytes <= Capacity}
<1>1. n \in Nat /\ c \in S
    BY CacheFields
<1>2. \A d \in S : d.slots # <<>> => DropOldest(d) \in S /\ Len(DropOldest(d).slots) = Len(d.slots) - 1
    BY Dropped
<1>3. F \in [(1..n) \X S -> S]
    BY <1>2
<1>4. \A k \in 1..n, d \in S : d.slots # <<>> => F[<<k, d>>] = DropOldest(d)
    OBVIOUS
<1> HIDE DEF F
<1>5. PICK f \in [0..n -> S] : Iterates(f, n, c, F)
    BY <1>1, <1>3, Iterate
<1>6. \A d \in S : d.slots = <<>> <=> Len(d.slots) = 0
    BY CacheFields, EmptySeq
<1>7. \A k \in 0..n : f[k] \in Left(k)
  <2> DEFINE T == {k \in 0..n : f[k] \in Left(k)}
  <2>1. 0 \in T
    BY <1>1, <1>5 DEF Iterates
  <2>2. ASSUME NEW k \in 0..n - 1, k \in T PROVE k + 1 \in T
    <3>1. k + 1 \in 1..n /\ (k + 1) - 1 = k /\ k + 1 \in 0..n /\ n - k # 0 /\ (n - k) - 1 = n - (k + 1)
      BY <1>1
    <3>2. f[k] \in S /\ Len(f[k].slots) = n - k
      BY <2>2
    <3>3. f[k].slots # <<>>
      BY <1>6, <3>1, <3>2
    <3>4. f[k + 1] = F[<<k + 1, f[k]>>]
      BY <1>5, <3>1 DEF Iterates
    <3>5. f[k + 1] = DropOldest(f[k])
      BY <1>4, <3>1, <3>2, <3>3, <3>4
    <3>6. f[k + 1] \in S /\ Len(f[k + 1].slots) = n - (k + 1)
      BY <1>2, <3>1, <3>2, <3>3, <3>5
    <3> QED BY <3>1, <3>6
  <2> HIDE DEF T
  <2>3. \A k \in 0..n : k \in T
    BY <1>1, <2>1, <2>2, InductUpTo, Zenon
  <2> QED BY <2>3 DEF T
<1>8. ASSUME NEW k \in 1..n PROVE f[k] = DropOldest(f[k - 1])
  <2>1. k - 1 \in 0..n /\ n - (k - 1) # 0
    BY <1>1
  <2>2. f[k - 1] \in S /\ Len(f[k - 1].slots) = n - (k - 1)
    BY <1>7, <2>1
  <2>3. f[k - 1].slots # <<>>
    BY <1>6, <2>1, <2>2
  <2>4. f[k] = F[<<k, f[k - 1]>>]
    BY <1>5 DEF Iterates
  <2> QED BY <1>4, <2>2, <2>3, <2>4
<1>9. f = [k \in 0..Len(c.slots) |-> IF k = 0 THEN c ELSE DropOldest(f[k - 1])]
  <2>1. f[0] = c
    BY <1>5 DEF Iterates
  <2>2. \A k \in 0..n : f[k] = IF k = 0 THEN c ELSE DropOldest(f[k - 1])
    BY <1>1, <1>8, <2>1
  <2> QED BY <1>5, <2>2
<1>10. after = [k \in 0..Len(c.slots) |-> IF k = 0 THEN c ELSE DropOldest(after[k - 1])]
  <2>1. \E g : g = [k \in 0..Len(c.slots) |-> IF k = 0 THEN c ELSE DropOldest(g[k - 1])]
    BY <1>9
  <2> QED BY <2>1
<1>11. MakeRoom(c, bytes) = after[Min(enough \cup {Len(c.slots)})]
    BY DEF MakeRoom
<1> HIDE DEF after
<1>12. \A k \in 0..n : after[k] = f[k]
  <2> DEFINE T == {k \in 0..n : after[k] = f[k]}
  <2>1. 0 \in T
    BY <1>1, <1>9, <1>10
  <2>2. ASSUME NEW k \in 0..n - 1, k \in T PROVE k + 1 \in T
    <3>1. k + 1 \in 1..n /\ (k + 1) - 1 = k /\ k + 1 # 0 /\ k + 1 \in 0..n
      BY <1>1
    <3>2. after[k + 1] = DropOldest(after[k])
      BY <1>10, <3>1
    <3> QED BY <1>8, <2>2, <3>1, <3>2
  <2> HIDE DEF T
  <2>3. \A k \in 0..n : k \in T
    BY <1>1, <2>1, <2>2, InductUpTo, Zenon
  <2> QED BY <2>3 DEF T
<1>13. DOMAIN after = 0..n
    BY <1>10
<1>14. enough = {k \in 0..n : f[k].used + bytes <= Capacity}
    BY <1>12, <1>13
<1>15. Min(enough \cup {n}) \in 0..n
  <2>1. enough \cup {n} \subseteq 0..n /\ enough \cup {n} # {} /\ 0..n \subseteq Nat
    BY <1>1, <1>13
  <2>2. \E m \in enough \cup {n} : \A k \in enough \cup {n} : m <= k
    BY <2>1, LeastNat, Zenon
  <2>3. Min(enough \cup {n}) \in enough \cup {n}
    BY <2>2, Zenon DEF Min
  <2> QED BY <2>1, <2>3
<1>16. MakeRoom(c, bytes) = f[Min(enough \cup {n})]
    BY <1>11, <1>12, <1>15
<1>17. Drops(f, c)
    BY <1>5, <1>7, <1>8 DEF Drops, Iterates
<1> HIDE DEF enough
<1> QED
    BY <1>14, <1>16, <1>17

(* After dropping as many slots as needed the expert fits or is alone. *)
LEMMA RoomMade ==
    ASSUME NEW c \in Caches, NEW bytes \in Nat
    PROVE  /\ MakeRoom(c, bytes) \in Caches
           /\ Slots(MakeRoom(c, bytes)) \subseteq Slots(c)
           /\ MakeRoom(c, bytes).used + bytes <= Capacity \/ MakeRoom(c, bytes).slots = <<>>
<1>1. PICK n : n = Len(c.slots)
    OBVIOUS
<1>2. PICK f : /\ Drops(f, c)
               /\ MakeRoom(c, bytes) = f[Min({k \in 0..Len(c.slots) : f[k].used + bytes <= Capacity}
                                                 \cup {Len(c.slots)})]
    BY RoomSteps
<1> DEFINE stops == {k \in 0..n : f[k].used + bytes <= Capacity} \cup {n}
<1>3. n \in Nat
    BY <1>1, CacheFields
<1>4. Min(stops) \in stops
  <2>1. stops \subseteq Nat /\ stops # {}
    BY <1>3
  <2>2. \E m \in stops : \A k \in stops : m <= k
    BY <2>1, LeastNat, Zenon
  <2> QED BY <2>2, Zenon DEF Min
<1>5. PICK least \in stops : MakeRoom(c, bytes) = f[least]
    BY <1>1, <1>2, <1>4
<1>6. least \in 0..n /\ (f[least].used + bytes <= Capacity \/ least = n)
    BY <1>3
<1>7. f[least] \in Caches /\ Slots(f[least]) \subseteq Slots(c) /\ Len(f[least].slots) = n - least
    BY <1>1, <1>2, <1>6 DEF Drops
<1>8. least = n => f[least].slots = <<>>
  <2>1. n - n = 0
    BY <1>3
  <2> QED BY <1>7, <2>1, CacheFields, EmptySeq
<1> QED
    BY <1>5, <1>6, <1>7, <1>8

(* A resident expert is refreshed in its slot. *)
LEMMA Refreshed ==
    ASSUME NEW c \in Caches, Fits(c), NEW id \in Slots(c)
    PROVE  /\ TouchOrPromote(c, id) \in Caches /\ Fits(TouchOrPromote(c, id))
           /\ Slots(TouchOrPromote(c, id)) = Slots(c)
<1>1. PICK k : k = SlotOf(c, id)
    OBVIOUS
<1>2. PICK n : n = Len(c.slots)
    OBVIOUS
<1>3. PICK now : now = c.clock + 1
    OBVIOUS
<1>4. /\ c.slots \in Seq(Slot) /\ c.clock \in Nat /\ c.used \in Nat /\ c.hits \in Nat
      /\ c.promotions \in Nat /\ c.evictions \in Nat
      /\ c.used = TotalBytes(c.slots) /\ c.promotions = c.evictions + n
      /\ DOMAIN c.slots = 1..n /\ n \in Nat /\ now \in Nat
    BY <1>2, <1>3, CacheFields
<1>5. k \in 1..n /\ c.slots[k].id = id
  <2>1. \E i \in DOMAIN c.slots : c.slots[i].id = id
    BY DEF Slots
  <2>2. SlotOf(c, id) \in DOMAIN c.slots /\ c.slots[SlotOf(c, id)].id = id
    BY <2>1, Zenon DEF SlotOf
  <2> QED BY <1>1, <1>4, <2>2
<1>6. PICK slots : slots = [c.slots EXCEPT ![k] = [c.slots[k] EXCEPT !.touch = now]]
    OBVIOUS
<1>7. PICK hits : hits = c.hits + 1
    OBVIOUS
<1>8. TouchOrPromote(c, id) = [c EXCEPT !.clock = now, !.slots = slots, !.hits = hits]
    BY <1>1, <1>3, <1>6, <1>7 DEF TouchOrPromote
<1>9. \A i \in 1..n : c.slots[i] \in Slot
    BY <1>2, <1>4, ElementOfSeq
<1>10. \A i \in 1..n : slots[i] \in Slot /\ slots[i].id = c.slots[i].id /\ slots[i].bytes = c.slots[i].bytes
  <2> TAKE i \in 1..n
  <2>1. CASE i = k
    <3>1. slots[k] = [c.slots[k] EXCEPT !.touch = now] /\ c.slots[k] \in Slot
      BY <1>4, <1>5, <1>6, <1>9
    <3> QED BY <1>4, <2>1, <3>1 DEF Slot
  <2>2. CASE i # k
    <3>1. slots[i] = c.slots[i]
      BY <1>4, <1>6, <2>2
    <3> QED BY <1>9, <3>1
  <2> QED BY <2>1, <2>2
<1>11. slots \in Seq(Slot) /\ Len(slots) = n /\ DOMAIN slots = 1..n
  <2>1. DOMAIN slots = 1..n
    BY <1>4, <1>6
  <2>2. slots = [i \in 1..n |-> slots[i]]
    BY <1>4, <1>6
  <2>3. slots \in [1..n -> Slot]
    BY <1>10, <2>2
  <2>4. Seq(Slot) = UNION {[1..m -> Slot] : m \in Nat}
    BY SeqDef, Zenon
  <2>5. slots \in Seq(Slot)
    BY <1>4, <2>3, <2>4, Zenon
  <2> QED BY <1>4, <2>1, <2>5, LenProperties
<1>12. TotalBytes(slots) = c.used
    BY <1>2, <1>4, <1>10, <1>11, BytesSame
<1>13. PICK d : d = TouchOrPromote(c, id)
    OBVIOUS
<1>14. c \in CacheType
    BY DEF Caches
<1>15. /\ d.slots = slots /\ d.used = c.used /\ d.promotions = c.promotions /\ d.evictions = c.evictions
    BY <1>8, <1>13, <1>14 DEF CacheType
<1>16. d \in CacheType
  <2>1. hits \in Nat
    BY <1>4, <1>7
  <2> QED BY <1>4, <1>8, <1>11, <1>13, <1>14, <2>1 DEF CacheType
<1>17. d \in Caches
  <2>1. d.used = TotalBytes(d.slots)
    BY <1>12, <1>15
  <2>2. d.promotions = d.evictions + Len(d.slots)
    BY <1>4, <1>11, <1>15
  <2> QED BY <1>16, <2>1, <2>2 DEF Caches
<1>18. Fits(d)
    BY <1>2, <1>11, <1>15 DEF Fits
<1>19. Slots(d) = Slots(c)
  <2>1. Slots(d) = {slots[i].id : i \in 1..n}
    BY <1>11, <1>15 DEF Slots
  <2>2. Slots(c) = {c.slots[i].id : i \in 1..n}
    BY <1>4 DEF Slots
  <2>3. \A i \in 1..n : slots[i].id = c.slots[i].id
    BY <1>10
  <2> QED BY <2>1, <2>2, <2>3
<1> QED
    BY <1>13, <1>17, <1>18, <1>19

(* Another one gets a slot of its own at the end, once there is room. *)
LEMMA Placed ==
    ASSUME NEW c \in Caches, NEW id \in DOMAIN ExpertBytes, id \notin Slots(c)
    PROVE  /\ TouchOrPromote(c, id) \in Caches /\ Fits(TouchOrPromote(c, id))
           /\ Slots(TouchOrPromote(c, id)) \subseteq Slots(c) \cup {id}
           /\ id \in Slots(TouchOrPromote(c, id))
<1>1. PICK size : size = ExpertBytes[id]
    OBVIOUS
<1>2. size \in Nat /\ Capacity \in Nat
    BY <1>1, SessionAssumption
<1>3. PICK r : r = MakeRoom(c, size)
    OBVIOUS
<1>4. r \in Caches /\ Slots(r) \subseteq Slots(c) /\ (r.used + size <= Capacity \/ r.slots = <<>>)
    BY <1>2, <1>3, RoomMade
<1>5. PICK n : n = Len(r.slots)
    OBVIOUS
<1>6. PICK now : now = c.clock + 1
    OBVIOUS
<1>7. /\ r.slots \in Seq(Slot) /\ r.used \in Nat /\ r.hits \in Nat
      /\ r.promotions \in Nat /\ r.evictions \in Nat
      /\ r.used = TotalBytes(r.slots) /\ r.promotions = r.evictions + n
      /\ DOMAIN r.slots = 1..n /\ n \in Nat
    BY <1>4, <1>5, CacheFields
<1>8. now \in Nat
    BY <1>6, CacheFields
<1>9. PICK slot : slot = [id |-> id, bytes |-> size, touch |-> now]
    OBVIOUS
<1>10. slot \in Slot /\ slot.bytes = size /\ slot.id = id
    BY <1>2, <1>8, <1>9 DEF Slot
<1>11. PICK slots : slots = Append(r.slots, slot)
    OBVIOUS
<1>12. /\ slots \in Seq(Slot) /\ Len(slots) = n + 1 /\ slots[n + 1] = slot
       /\ \A i \in 1..n : slots[i] = r.slots[i]
    BY <1>5, <1>7, <1>10, <1>11, AppendProperties
<1>13. DOMAIN slots = 1..(n + 1)
    BY <1>12, LenProperties
<1>14. TotalBytes(slots) = r.used + size
    BY <1>7, <1>10, <1>11, BytesAppend
<1>15. PICK used : used = r.used + size
    OBVIOUS
<1>16. PICK promotions : promotions = r.promotions + 1
    OBVIOUS
<1>17. used \in Nat /\ promotions \in Nat /\ promotions = r.evictions + (n + 1)
    BY <1>2, <1>7, <1>15, <1>16
<1>18. TouchOrPromote(c, id) = [r EXCEPT !.clock = now, !.slots = slots, !.used = used, !.promotions = promotions]
  <2>1. slots = Append(r.slots, [id |-> id, bytes |-> ExpertBytes[id], touch |-> now])
    BY <1>1, <1>9, <1>11
  <2>2. used = r.used + ExpertBytes[id] /\ promotions = r.promotions + 1 /\ r = MakeRoom(c, ExpertBytes[id])
    BY <1>1, <1>3, <1>15, <1>16
  <2> QED BY <1>6, <2>1, <2>2 DEF TouchOrPromote
<1>19. PICK d : d = TouchOrPromote(c, id)
    OBVIOUS
<1>20. r \in CacheType
    BY <1>4 DEF Caches
<1>21. /\ d.slots = slots /\ d.used = used /\ d.promotions = promotions /\ d.evictions = r.evictions
    BY <1>18, <1>19, <1>20 DEF CacheType
<1>22. d \in CacheType
    BY <1>8, <1>12, <1>17, <1>18, <1>19, <1>20 DEF CacheType
<1>23. d \in Caches
  <2>1. d.used = TotalBytes(d.slots)
    BY <1>14, <1>15, <1>21
  <2>2. d.promotions = d.evictions + Len(d.slots)
    BY <1>12, <1>17, <1>21
  <2> QED BY <1>22, <2>1, <2>2 DEF Caches
<1>24. Fits(d)
  <2>1. CASE r.used + size <= Capacity
    BY <1>15, <1>21, <2>1 DEF Fits
  <2>2. CASE r.slots = <<>>
    <3>1. n = 0
      BY <1>5, <2>2, EmptySeq
    <3> QED BY <1>12, <1>21, <3>1 DEF Fits
  <2> QED BY <1>4, <2>1, <2>2
<1>25. Slots(d) = Slots(r) \cup {id}
  <2>1. ASSUME NEW i \in 1..(n + 1) PROVE slots[i].id \in Slots(r) \cup {id}
    <3>1. i \in 1..n \/ i = n + 1
      BY <1>7
    <3> QED BY <1>7, <1>10, <1>12, <3>1 DEF Slots
  <2>2. ASSUME NEW i \in 1..n PROVE r.slots[i].id \in Slots(d)
    <3>1. i \in 1..(n + 1)
      BY <1>7
    <3>2. slots[i].id = r.slots[i].id
      BY <1>12
    <3> QED BY <1>13, <1>21, <3>1, <3>2 DEF Slots
  <2>3. id \in Slots(d)
    <3>1. n + 1 \in 1..(n + 1)
      BY <1>7
    <3> QED BY <1>10, <1>12, <1>13, <1>21, <3>1 DEF Slots
  <2>4. Slots(d) \subseteq Slots(r) \cup {id}
    BY <1>13, <1>21, <2>1 DEF Slots
  <2>5. Slots(r) \subseteq Slots(d)
    BY <1>7, <2>2 DEF Slots
  <2> QED BY <2>3, <2>4, <2>5
<1> QED
    BY <1>4, <1>19, <1>23, <1>24, <1>25

-----------------------------------------------------------------------------
(* The cache beside the weights in memory: between two uses of an expert,
   exactly the experts with a slot have weights.                            *)
Weights == {"bytes", "ready", "device"}

EngineType ==
    [cache : Caches, materialized : UNION {[D -> Weights] : D \in SUBSET DOMAIN ExpertBytes},
     device : SUBSET DOMAIN ExpertBytes, accesses : Seq(DOMAIN ExpertBytes)]

Engines == {e \in EngineType : /\ Fits(e.cache)
                               /\ DOMAIN e.materialized = Slots(e.cache)
                               /\ e.device = IF Cuda THEN Slots(e.cache) ELSE {}}

LEMMA PromotedSlots ==
    ASSUME NEW c \in Caches, Fits(c), NEW id \in DOMAIN ExpertBytes
    PROVE  /\ TouchOrPromote(c, id) \in Caches /\ Fits(TouchOrPromote(c, id))
           /\ Slots(TouchOrPromote(c, id)) \subseteq Slots(c) \cup {id}
           /\ id \in Slots(TouchOrPromote(c, id))
<1>1. CASE id \in Slots(c)
    BY <1>1, Refreshed
<1>2. CASE id \notin Slots(c)
    BY <1>2, Placed
<1> QED
    BY <1>1, <1>2

LEMMA Used ==
    ASSUME NEW e \in Engines, NEW id \in DOMAIN ExpertBytes
    PROVE  /\ UseExpert(e, id) \in Engines
           /\ UseExpert(e, id).cache = TouchOrPromote(e.cache, id)
           /\ UseExpert(e, id).accesses = Append(e.accesses, id)
<1>1. PICK p : p = TouchOrPromote(e.cache, id)
    OBVIOUS
<1>2. PICK S : S = Slots(e.cache)
    OBVIOUS
<1>3. PICK T : T = Slots(p)
    OBVIOUS
<1>4. /\ e \in EngineType /\ e.cache \in Caches /\ Fits(e.cache) /\ DOMAIN e.materialized = S
      /\ e.device = IF Cuda THEN S ELSE {}
    BY <1>2 DEF Engines, EngineType
<1>5. /\ p \in Caches /\ Fits(p) /\ T \subseteq S \cup {id} /\ id \in T
    BY <1>1, <1>2, <1>3, <1>4, PromotedSlots
<1>6. e.materialized \in [S -> Weights] /\ S \subseteq DOMAIN ExpertBytes
  <2>1. PICK D \in SUBSET DOMAIN ExpertBytes : e.materialized \in [D -> Weights]
    BY <1>4 DEF EngineType
  <2> QED BY <1>4, <2>1
<1>7. PICK loaded : loaded = IF id \in S \/ id \in DOMAIN e.materialized THEN e.materialized
                             ELSE With(e.materialized, id, "bytes")
    OBVIOUS
<1>8. loaded \in [S \cup {id} -> Weights]
  <2>1. CASE id \in S
    <3>1. S \cup {id} = S
      BY <2>1
    <3> QED BY <1>6, <1>7, <2>1, <3>1
  <2>2. CASE id \notin S
    <3>1. loaded = [y \in DOMAIN e.materialized \cup {id} |-> IF y = id THEN "bytes" ELSE e.materialized[y]]
      BY <1>4, <1>7, <2>2 DEF With
    <3>2. \A y \in S \cup {id} : (IF y = id THEN "bytes" ELSE e.materialized[y]) \in Weights
      BY <1>6 DEF Weights
    <3> QED BY <1>4, <3>1, <3>2
  <2> QED BY <2>1, <2>2
<1>9. PICK gone : gone = S \ T
    OBVIOUS
<1>10. (S \cup {id}) \ gone = T
    BY <1>5, <1>9
<1>11. PICK rest : rest = [x \in DOMAIN loaded \ gone |-> loaded[x]]
    OBVIOUS
<1>12. rest \in [T -> Weights]
    BY <1>8, <1>10, <1>11
<1>13. PICK w : w = IF Cuda THEN "device" ELSE "ready"
    OBVIOUS
<1>14. PICK weights : weights = With(rest, id, w)
    OBVIOUS
<1>15. weights \in [T -> Weights]
  <2>1. weights = [y \in DOMAIN rest \cup {id} |-> IF y = id THEN w ELSE rest[y]]
    BY <1>14 DEF With
  <2>2. DOMAIN rest \cup {id} = T
    BY <1>5, <1>12
  <2>3. \A y \in T : (IF y = id THEN w ELSE rest[y]) \in Weights
    BY <1>12, <1>13 DEF Weights
  <2> QED BY <2>1, <2>2, <2>3
<1>16. PICK buffers : buffers = IF Cuda THEN (e.device \ gone) \cup {id} ELSE e.device \ gone
    OBVIOUS
<1>17. buffers = IF Cuda THEN T ELSE {}
    BY <1>4, <1>5, <1>9, <1>16
<1>18. PICK asked : asked = Append(e.accesses, id)
    OBVIOUS
<1>19. asked \in Seq(DOMAIN ExpertBytes)
    BY <1>4, <1>18, AppendProperties DEF EngineType
<1>20. PICK d : d = UseExpert(e, id)
    OBVIOUS
<1>21. d.cache = p /\ d.materialized = weights /\ d.device = buffers /\ d.accesses = asked /\ d \in EngineType
  <2>1. PICK k : k = ReleaseEvicted([e EXCEPT !.materialized = loaded], gone)
    OBVIOUS
  <2>2. k = [e EXCEPT !.materialized = rest, !.device = e.device \ gone]
    BY <1>4, <1>11, <2>1 DEF ReleaseEvicted, EngineType
  <2>3. d = Computed([k EXCEPT !.cache = p, !.accesses = Append(@, id)], id)
    BY <1>1, <1>2, <1>3, <1>7, <1>9, <1>20, <2>1 DEF UseExpert
  <2>4. PICK m : m = [k EXCEPT !.cache = p, !.accesses = Append(@, id)]
    OBVIOUS
  <2>5. m = [cache |-> p, materialized |-> rest, device |-> e.device \ gone, accesses |-> asked]
    BY <1>4, <1>18, <2>2, <2>4 DEF EngineType
  <2>6. d = [m EXCEPT !.materialized = weights, !.device = buffers]
    <3>1. m.materialized = rest /\ m.device = e.device \ gone
      BY <2>5
    <3>2. weights = With(m.materialized, id, IF Cuda THEN "device" ELSE "ready")
      BY <1>13, <1>14, <3>1
    <3>3. buffers = IF Cuda THEN m.device \cup {id} ELSE m.device
      BY <1>16, <3>1
    <3>4. d = Computed(m, id)
      BY <2>3, <2>4
    <3> QED BY <3>2, <3>3, <3>4 DEF Computed
  <2>7. d = [cache |-> p, materialized |-> weights, device |-> buffers, accesses |-> asked]
    BY <2>5, <2>6
  <2>8. weights \in UNION {[D -> Weights] : D \in SUBSET DOMAIN ExpertBytes}
    BY <1>5, <1>6, <1>15
  <2>9. buffers \in SUBSET DOMAIN ExpertBytes
    BY <1>5, <1>6, <1>17
  <2> QED BY <1>5, <1>19, <2>7, <2>8, <2>9 DEF EngineType
<1> QED
  <2>1. DOMAIN d.materialized = Slots(d.cache)
    BY <1>3, <1>15, <1>21
  <2>2. d.device = IF Cuda THEN Slots(d.cache) ELSE {}
    BY <1>3, <1>17, <1>21
  <2> QED BY <1>1, <1>5, <1>18, <1>20, <1>21, <2>1, <2>2 DEF Engines

-----------------------------------------------------------------------------
(* The routes of a token name experts, and leave the cursor in the trace. *)
Route == Seq(DOMAIN LayerOf)
Line == [layer : Nat, experts : Route]

LEMMA InOrderIs ==
    ASSUME NEW answers \in [1..Layers -> Route]
    PROVE  \E f \in [0..Layers -> Route] :
               /\ f[0] = <<>> /\ \A l \in 1..Layers : f[l] = f[l - 1] \o answers[l]
               /\ InOrder(answers) = f[Layers]
<1> DEFINE F == [x \in (1..Layers) \X Route |-> x[2] \o answers[x[1]]]
           upTo[l \in 0..Layers] == IF l = 0 THEN <<>> ELSE upTo[l - 1] \o answers[l]
<1>1. Layers \in Nat /\ <<>> \in Route
    BY SessionAssumption, EmptySeq DEF Route
<1>2. \A l \in 1..Layers, r \in Route : r \o answers[l] \in Route
    BY ConcatProperties DEF Route
<1>3. F \in [(1..Layers) \X Route -> Route] /\ \A l \in 1..Layers, r \in Route : F[<<l, r>>] = r \o answers[l]
    BY <1>2
<1> HIDE DEF F
<1>4. PICK f \in [0..Layers -> Route] : Iterates(f, Layers, <<>>, F)
    BY <1>1, <1>3, Iterate
<1>5. ASSUME NEW l \in 1..Layers PROVE f[l] = f[l - 1] \o answers[l]
  <2>1. l - 1 \in 0..Layers
    BY <1>1
  <2> QED BY <1>3, <1>4, <2>1 DEF Iterates
<1>6. f = [l \in 0..Layers |-> IF l = 0 THEN <<>> ELSE f[l - 1] \o answers[l]]
  <2>1. f[0] = <<>>
    BY <1>4 DEF Iterates
  <2>2. \A l \in 0..Layers : f[l] = IF l = 0 THEN <<>> ELSE f[l - 1] \o answers[l]
    <3> TAKE l \in 0..Layers
    <3>1. l # 0 => l \in 1..Layers
      BY <1>1
    <3> QED BY <1>5, <2>1, <3>1, Zenon
  <2> QED BY <1>4, <2>2
<1>7. upTo = [l \in 0..Layers |-> IF l = 0 THEN <<>> ELSE upTo[l - 1] \o answers[l]]
  <2>1. \E g : g = [l \in 0..Layers |-> IF l = 0 THEN <<>> ELSE g[l - 1] \o answers[l]]
    BY <1>6
  <2> QED BY <2>1
<1>8. InOrder(answers) = upTo[Layers]
    BY DEF InOrder
<1> HIDE DEF upTo
<1>9. \A l \in 0..Layers : upTo[l] \in Route
  <2> DEFINE T == {l \in 0..Layers : upTo[l] \in Route}
  <2>1. 0 \in T
    BY <1>1, <1>7
  <2>2. ASSUME NEW l \in 0..Layers - 1, l \in T PROVE l + 1 \in T
    <3>1. l + 1 \in 1..Layers /\ l + 1 \in 0..Layers /\ l + 1 # 0 /\ (l + 1) - 1 = l
      BY <1>1
    <3>2. upTo[l + 1] = upTo[l] \o answers[l + 1]
      BY <1>7, <3>1
    <3> QED BY <1>2, <2>2, <3>1, <3>2
  <2> HIDE DEF T
  <2>3. \A l \in 0..Layers : l \in T
    BY <1>1, <2>1, <2>2, InductUpTo, Zenon
  <2> QED BY <2>3 DEF T
<1>10. upTo[0] = <<>> /\ \A l \in 1..Layers : upTo[l] = upTo[l - 1] \o answers[l]
  <2>1. 0 \in 0..Layers /\ \A l \in 1..Layers : l \in 0..Layers /\ l # 0
    BY <1>1
  <2> QED BY <1>7, <2>1
<1>11. upTo \in [0..Layers -> Route]
    BY <1>7, <1>9
<1> QED
    BY <1>8, <1>10, <1>11

LEMMA NextRouteIs ==
    ASSUME trace \in Seq(Line), trace # <<>>, NEW c \in 0..Len(trace)
    PROVE  NextRoute(c)[1] \in 0..Len(trace) /\ NextRoute(c)[2] \in Route
<1>1. PICK n : n = Len(trace)
    OBVIOUS
<1>2. n \in Nat /\ n # 0 /\ c \in 0..n
    BY <1>1, LenProperties, EmptySeq
<1>3. \A i \in 1..n : trace[i].experts \in Route
  <2>1. \A i \in 1..n : trace[i] \in Line
    BY <1>1, ElementOfSeq
  <2> QED BY <2>1 DEF Line
<1>4. <<>> \in Route
    BY EmptySeq DEF Route
<1>5. CASE c < n
  <2>1. NextRoute(c) = <<c + 1, trace[c + 1].experts>>
    BY <1>1, <1>5 DEF NextRoute
  <2>2. c + 1 \in 1..n /\ c + 1 \in 0..n
    BY <1>2, <1>5
  <2> QED BY <1>1, <1>3, <2>1, <2>2
<1>6. CASE ~(c < n) /\ rewind
  <2>1. NextRoute(c) = <<1, trace[1].experts>>
    BY <1>1, <1>6 DEF NextRoute
  <2>2. 1 \in 1..n /\ 1 \in 0..n
    BY <1>2
  <2> QED BY <1>1, <1>3, <2>1, <2>2
<1>7. CASE ~(c < n) /\ ~rewind
  <2>1. NextRoute(c) = <<c, <<>>>>
    BY <1>1, <1>7 DEF NextRoute
  <2> QED BY <1>1, <1>2, <1>4, <2>1
<1> QED
    BY <1>5, <1>6, <1>7

LEMMA CursorsAre ==
    ASSUME trace \in Seq(Line), trace # <<>>, cursor \in 0..Len(trace)
    PROVE  /\ \A l \in 0..Layers : Cursors[l] \in 0..Len(trace)
           /\ Cursors[0] = cursor /\ \A l \in 1..Layers : Cursors[l] = NextRoute(Cursors[l - 1])[1]
<1> DEFINE S == 0..Len(trace)
           F == [x \in (1..Layers) \X S |-> NextRoute(x[2])[1]]
<1>1. Layers \in Nat
    BY SessionAssumption
<1>2. \A c \in S : NextRoute(c)[1] \in S
    BY NextRouteIs
<1>3. F \in [(1..Layers) \X S -> S] /\ \A l \in 1..Layers, c \in S : F[<<l, c>>] = NextRoute(c)[1]
    BY <1>2
<1> HIDE DEF F
<1>4. PICK f \in [0..Layers -> S] : Iterates(f, Layers, cursor, F)
    BY <1>1, <1>3, Iterate
<1>5. ASSUME NEW l \in 1..Layers PROVE f[l] = NextRoute(f[l - 1])[1]
  <2>1. l - 1 \in 0..Layers
    BY <1>1
  <2> QED BY <1>3, <1>4, <2>1 DEF Iterates
<1>6. f = [l \in 0..Layers |-> IF l = 0 THEN cursor ELSE NextRoute(f[l - 1])[1]]
  <2>1. f[0] = cursor
    BY <1>4 DEF Iterates
  <2>2. \A l \in 0..Layers : f[l] = IF l = 0 THEN cursor ELSE NextRoute(f[l - 1])[1]
    BY <1>1, <1>5, <2>1
  <2> QED BY <1>4, <2>2
<1>7. Cursors = [l \in 0..Layers |-> IF l = 0 THEN cursor ELSE NextRoute(Cursors[l - 1])[1]]
  <2> DEFINE stand[l \in 0..Layers] == IF l = 0 THEN cursor ELSE NextRoute(stand[l - 1])[1]
  <2>1. \E g : g = [l \in 0..Layers |-> IF l = 0 THEN cursor ELSE NextRoute(g[l - 1])[1]]
    BY <1>6
  <2>2. stand = [l \in 0..Layers |-> IF l = 0 THEN cursor ELSE NextRoute(stand[l - 1])[1]]
    BY <2>1
  <2>3. Cursors = stand
    BY DEF Cursors
  <2> HIDE DEF stand
  <2> QED BY <2>2, <2>3
<1> DEFINE T == {l \in 0..Layers : Cursors[l] \in S}
<1>8. 0 \in T
    BY <1>1, <1>7
<1>9. ASSUME NEW l \in 0..Layers - 1, l \in T PROVE l + 1 \in T
  <2>1. l + 1 \in 0..Layers /\ l + 1 # 0 /\ (l + 1) - 1 = l
    BY <1>1
  <2>2. Cursors[l + 1] = NextRoute(Cursors[l])[1]
    BY <1>7, <2>1
  <2> QED BY <1>2, <1>9, <2>1, <2>2
<1> HIDE DEF T
<1>10. \A l \in 0..Layers : l \in T
    BY <1>1, <1>8, <1>9, InductUpTo, Zenon
<1>11. 0 \in 0..Layers /\ \A l \in 1..Layers : l \in 0..Layers /\ l # 0
    BY <1>1
<1> QED
    BY <1>7, <1>10, <1>11 DEF T

LEMMA RoutesAre ==
    ASSUME trace \in Seq(Line), cursor \in 0..Len(trace), NEW routes \in RoutesOfToken
    PROVE  routes.at \in 0..Len(trace) /\ routes.experts \in Route
<1>1. CASE trace # <<>>
  <2> DEFINE answers == [l \in 1..Layers |-> NextRoute(Cursors[l - 1])[2]]
  <2>1. \A l \in 0..Layers : Cursors[l] \in 0..Len(trace)
    BY <1>1, CursorsAre
  <2>2. answers \in [1..Layers -> Route]
    <3>1. ASSUME NEW l \in 1..Layers PROVE NextRoute(Cursors[l - 1])[2] \in Route
      <4>1. l - 1 \in 0..Layers
        BY SessionAssumption
      <4> QED BY <1>1, <2>1, <4>1, NextRouteIs
    <3> QED BY <3>1
  <2>3. routes.at = Cursors[Layers] /\ routes.experts = InOrder(answers)
    BY <1>1 DEF RoutesOfToken, TraceRoutes
  <2>4. Layers \in 0..Layers
    BY SessionAssumption
  <2> HIDE DEF answers
  <2>5. PICK f \in [0..Layers -> Route] : InOrder(answers) = f[Layers]
    BY <2>2, InOrderIs
  <2> QED BY <2>1, <2>3, <2>4, <2>5
<1>2. CASE trace = <<>>
  <2>1. PICK answers \in [1..Layers -> RouterRoutes] : routes = [at |-> cursor, experts |-> InOrder(answers)]
    BY <1>2 DEF RoutesOfToken
  <2>2. answers \in [1..Layers -> Route]
    BY RoutesAssumption DEF Route
  <2>3. Layers \in 0..Layers
    BY SessionAssumption
  <2>4. PICK f \in [0..Layers -> Route] : InOrder(answers) = f[Layers]
    BY <2>2, InOrderIs
  <2>5. routes.at = cursor /\ routes.experts = f[Layers]
    BY <2>1, <2>4
  <2> QED BY <2>3, <2>5
<1> QED
    BY <1>1, <1>2

LEMMA LoadedIs ==
    ASSUME NEW lines \in Seq(Line)
    PROVE  Loaded(lines) \in Seq(Line)
<1> DEFINE n == Len(lines)
           S == Seq(Line)
           More(k, i) == IF lines[i].experts = <<>> THEN k ELSE Append(k, lines[i])
           F == [x \in (1..n) \X S |-> More(x[2], x[1])]
           kept[i \in 0..Len(lines)] ==
               IF i = 0 THEN <<>>
               ELSE IF lines[i].experts = <<>> THEN kept[i - 1] ELSE Append(kept[i - 1], lines[i])
<1>1. n \in Nat /\ <<>> \in S
    BY LenProperties, EmptySeq
<1>2. \A i \in 1..n, k \in S : More(k, i) \in S
  <2>1. \A i \in 1..n : lines[i] \in Line
    BY ElementOfSeq
  <2> QED BY <2>1, AppendProperties
<1>3. F \in [(1..n) \X S -> S] /\ \A i \in 1..n, k \in S : F[<<i, k>>] = More(k, i)
    BY <1>2
<1> HIDE DEF F
<1>4. PICK f \in [0..n -> S] : Iterates(f, n, <<>>, F)
    BY <1>1, <1>3, Iterate
<1>5. ASSUME NEW i \in 1..n PROVE f[i] = More(f[i - 1], i)
  <2>1. i - 1 \in 0..n
    BY <1>1
  <2>2. f[i - 1] \in S
    BY <1>4, <2>1
  <2>3. f[i] = F[<<i, f[i - 1]>>]
    BY <1>4 DEF Iterates
  <2> HIDE DEF More, S
  <2> QED BY <1>3, <2>2, <2>3
<1>6. f = [i \in 0..Len(lines) |->
              IF i = 0 THEN <<>>
              ELSE IF lines[i].experts = <<>> THEN f[i - 1] ELSE Append(f[i - 1], lines[i])]
  <2>1. f[0] = <<>>
    BY <1>4 DEF Iterates
  <2>2. \A i \in 0..n : f[i] = IF i = 0 THEN <<>> ELSE More(f[i - 1], i)
    <3> TAKE i \in 0..n
    <3>1. i # 0 => i \in 1..n
      BY <1>1
    <3> HIDE DEF More
    <3> QED BY <1>5, <2>1, <3>1, Zenon
  <2> QED BY <1>4, <2>2
<1>7. kept = [i \in 0..Len(lines) |->
                 IF i = 0 THEN <<>>
                 ELSE IF lines[i].experts = <<>> THEN kept[i - 1] ELSE Append(kept[i - 1], lines[i])]
  <2>1. \E g : g = [i \in 0..Len(lines) |->
                       IF i = 0 THEN <<>>
                       ELSE IF lines[i].experts = <<>> THEN g[i - 1] ELSE Append(g[i - 1], lines[i])]
    BY <1>6
  <2> QED BY <2>1
<1>8. Loaded(lines) = kept[n]
    BY DEF Loaded
<1> HIDE DEF kept
<1>9. \A i \in 0..n : kept[i] \in S
  <2> DEFINE T == {i \in 0..n : kept[i] \in S}
  <2>1. 0 \in T
    BY <1>1, <1>7
  <2>2. ASSUME NEW i \in 0..n - 1, i \in T PROVE i + 1 \in T
    <3>1. i + 1 \in 1..n /\ i + 1 \in 0..n /\ i + 1 # 0 /\ (i + 1) - 1 = i
      BY <1>1
    <3>2. kept[i + 1] = More(kept[i], i + 1)
      BY <1>7, <3>1
    <3>3. kept[i] \in S
      BY <2>2
    <3> HIDE DEF More, S
    <3>4. kept[i + 1] \in S
      BY <1>2, <3>1, <3>2, <3>3
    <3> QED BY <3>1, <3>4
  <2> HIDE DEF T
  <2>3. \A i \in 0..n : i \in T
    BY <1>1, <2>1, <2>2, InductUpTo, Zenon
  <2> QED BY <2>3 DEF T
<1> QED
    BY <1>1, <1>8, <1>9

-----------------------------------------------------------------------------
(* The slot cache is what the accesses since the start have made of it. *)
Accessed(p, ids) ==
    /\ p[0] = NoSlots
    /\ \A k \in 1..Len(ids) : p[k] = TouchOrPromote(p[k - 1], ids[k])
Played(c, ids) == \E p : Accessed(p, ids) /\ p[Len(ids)] = c

LEMMA PlayedOn ==
    ASSUME NEW c, NEW ids \in Seq(DOMAIN ExpertBytes), Played(c, ids), NEW id \in DOMAIN ExpertBytes
    PROVE  Played(TouchOrPromote(c, id), Append(ids, id))
<1>1. PICK n, more : n = Len(ids) /\ more = Append(ids, id)
    OBVIOUS
<1>2. n \in Nat /\ Len(more) = n + 1 /\ more[n + 1] = id /\ \A k \in 1..n : more[k] = ids[k]
    BY <1>1, AppendProperties, LenProperties
<1>3. PICK p : Accessed(p, ids) /\ p[n] = c
    BY <1>1 DEF Played
<1> DEFINE q == [k \in 0..n + 1 |-> IF k = n + 1 THEN TouchOrPromote(c, id) ELSE p[k]]
<1>4. q[n + 1] = TouchOrPromote(c, id) /\ \A k \in 0..n : q[k] = p[k]
    BY <1>2
<1> HIDE DEF q
<1>5. ASSUME NEW k \in 1..n + 1 PROVE q[k] = TouchOrPromote(q[k - 1], more[k])
  <2>1. CASE k = n + 1
    <3>1. k - 1 = n /\ n \in 0..n
      BY <1>2, <2>1
    <3> QED BY <1>2, <1>3, <1>4, <2>1, <3>1
  <2>2. CASE k # n + 1
    <3>1. k \in 1..n /\ k \in 0..n /\ k - 1 \in 0..n
      BY <1>2, <2>2
    <3>2. p[k] = TouchOrPromote(p[k - 1], ids[k])
      BY <1>1, <1>3, <3>1 DEF Accessed
    <3> QED BY <1>2, <1>4, <3>1, <3>2
  <2> QED BY <2>1, <2>2
<1>6. q[0] = NoSlots
  <2>1. 0 \in 0..n
    BY <1>2
  <2> QED BY <1>3, <1>4, <2>1 DEF Accessed
<1>7. Accessed(q, more)
    BY <1>2, <1>5, <1>6 DEF Accessed
<1> QED
    BY <1>1, <1>2, <1>4, <1>7 DEF Played

(* The experts of a route the manifest has. *)
Keeps(f, ids) ==
    /\ f[0] = <<>>
    /\ \A k \in 1..Len(ids) :
           f[k] = IF ids[k] \in DOMAIN ExpertBytes THEN Append(f[k - 1], ids[k]) ELSE f[k - 1]

LEMMA KnownIs ==
    ASSUME NEW ids \in Route
    PROVE  \E f \in [0..Len(ids) -> Seq(DOMAIN ExpertBytes)] : Keeps(f, ids) /\ Known(ids) = f[Len(ids)]
<1> DEFINE n == Len(ids)
           S == Seq(DOMAIN ExpertBytes)
           More(k, i) == IF ids[i] \in DOMAIN ExpertBytes THEN Append(k, ids[i]) ELSE k
           F == [x \in (1..n) \X S |-> More(x[2], x[1])]
           kept[k \in 0..Len(ids)] ==
               IF k = 0 THEN <<>>
               ELSE IF ids[k] \in DOMAIN ExpertBytes THEN Append(kept[k - 1], ids[k]) ELSE kept[k - 1]
<1>1. n \in Nat /\ <<>> \in S
    BY LenProperties, EmptySeq DEF Route
<1>2. \A i \in 1..n, k \in S : More(k, i) \in S
    BY AppendProperties
<1>3. F \in [(1..n) \X S -> S] /\ \A i \in 1..n, k \in S : F[<<i, k>>] = More(k, i)
    BY <1>2
<1> HIDE DEF F
<1>4. PICK f \in [0..n -> S] : Iterates(f, n, <<>>, F)
    BY <1>1, <1>3, Iterate
<1>5. ASSUME NEW i \in 1..n PROVE f[i] = More(f[i - 1], i)
  <2>1. i - 1 \in 0..n
    BY <1>1
  <2>2. f[i - 1] \in S
    BY <1>4, <2>1
  <2>3. f[i] = F[<<i, f[i - 1]>>]
    BY <1>4 DEF Iterates
  <2> HIDE DEF More, S
  <2> QED BY <1>3, <2>2, <2>3
<1>6. f = [k \in 0..Len(ids) |->
              IF k = 0 THEN <<>>
              ELSE IF ids[k] \in DOMAIN ExpertBytes THEN Append(f[k - 1], ids[k]) ELSE f[k - 1]]
  <2>1. f[0] = <<>>
    BY <1>4 DEF Iterates
  <2>2. \A k \in 0..n : f[k] = IF k = 0 THEN <<>> ELSE More(f[k - 1], k)
    <3> TAKE k \in 0..n
    <3>1. k # 0 => k \in 1..n
      BY <1>1
    <3> HIDE DEF More
    <3> QED BY <1>5, <2>1, <3>1, Zenon
  <2> QED BY <1>4, <2>2
<1>7. kept = [k \in 0..Len(ids) |->
                 IF k = 0 THEN <<>>
                 ELSE IF ids[k] \in DOMAIN ExpertBytes THEN Append(kept[k - 1], ids[k]) ELSE kept[k - 1]]
  <2>1. \E g : g = [k \in 0..Len(ids) |->
                       IF k = 0 THEN <<>>
                       ELSE IF ids[k] \in DOMAIN ExpertBytes THEN Append(g[k - 1], ids[k]) ELSE g[k - 1]]
    BY <1>6
  <2> QED BY <2>1
<1>8. Known(ids) = kept[n]
    BY DEF Known
<1> HIDE DEF kept
<1>9. \A k \in 0..n : kept[k] = IF k = 0 THEN <<>> ELSE More(kept[k - 1], k)
    BY <1>7
<1>10. \A k \in 0..n : kept[k] \in S
  <2> DEFINE T == {k \in 0..n : kept[k] \in S}
  <2>1. 0 \in T
    BY <1>1, <1>7
  <2>2. ASSUME NEW k \in 0..n - 1, k \in T PROVE k + 1 \in T
    <3>1. k + 1 \in 1..n /\ k + 1 \in 0..n /\ k + 1 # 0 /\ (k + 1) - 1 = k
      BY <1>1
    <3>2. kept[k] \in S
      BY <2>2
    <3> HIDE DEF More, S
    <3>3. kept[k + 1] = More(kept[k], k + 1)
      BY <1>9, <3>1
    <3>4. kept[k + 1] \in S
      BY <1>2, <3>1, <3>2, <3>3
    <3> QED BY <3>1, <3>4
  <2> HIDE DEF T
  <2>3. \A k \in 0..n : k \in T
    BY <1>1, <2>1, <2>2, InductUpTo, Zenon
  <2> QED BY <2>3 DEF T
<1>11. Keeps(kept, ids)
  <2>1. 0 \in 0..n /\ \A k \in 1..n : k \in 0..n /\ k # 0
    BY <1>1
  <2> QED BY <1>9, <2>1 DEF Keeps
<1>12. kept \in [0..n -> S]
    BY <1>7, <1>10
<1> QED
    BY <1>8, <1>11, <1>12

(* The experts of all layers, one after the other. *)
Engine == [cache |-> cache, materialized |-> materialized, device |-> device, accesses |-> accesses]

LEMMA Executed ==
    ASSUME Engine \in Engines, NEW routes, routes.experts \in Route, ExecuteLayers(routes)
    PROVE  /\ Engine' \in Engines /\ cursor' = routes.at
           /\ accesses' = accesses \o Known(routes.experts)
           /\ Played(cache, accesses) => Played(cache', accesses')
<1> DEFINE ids == routes.experts
           n == Len(ids)
           Next(e, k) == IF ids[k] \in DOMAIN ExpertBytes THEN UseExpert(e, ids[k]) ELSE e
           F == [x \in (1..n) \X Engines |-> Next(x[2], x[1])]
           done[k \in 0..Len(ids)] ==
               IF k = 0
               THEN [cache |-> cache, materialized |-> materialized, device |-> device, accesses |-> accesses]
               ELSE IF ids[k] \in DOMAIN ExpertBytes THEN UseExpert(done[k - 1], ids[k]) ELSE done[k - 1]
<1>1. n \in Nat
    BY LenProperties DEF Route
<1>2. \A k \in 1..n, e \in Engines : Next(e, k) \in Engines
    BY Used
<1>3. F \in [(1..n) \X Engines -> Engines] /\ \A k \in 1..n, e \in Engines : F[<<k, e>>] = Next(e, k)
    BY <1>2
<1> HIDE DEF F
<1>4. PICK f \in [0..n -> Engines] : Iterates(f, n, Engine, F)
    BY <1>1, <1>3, Iterate
<1>5. ASSUME NEW k \in 1..n PROVE f[k] = Next(f[k - 1], k)
  <2>1. k - 1 \in 0..n
    BY <1>1
  <2>2. f[k - 1] \in Engines
    BY <1>4, <2>1
  <2>3. f[k] = F[<<k, f[k - 1]>>]
    BY <1>4 DEF Iterates
  <2> HIDE DEF Next
  <2> QED BY <1>3, <2>2, <2>3
<1>6. f = [k \in 0..Len(ids) |->
              IF k = 0
              THEN [cache |-> cache, materialized |-> materialized, device |-> device, accesses |-> accesses]
              ELSE IF ids[k] \in DOMAIN ExpertBytes THEN UseExpert(f[k - 1], ids[k]) ELSE f[k - 1]]
  <2>1. f[0] = Engine
    BY <1>4 DEF Iterates
  <2>2. \A k \in 0..n : f[k] = IF k = 0 THEN Engine ELSE Next(f[k - 1], k)
    <3> TAKE k \in 0..n
    <3>1. k # 0 => k \in 1..n
      BY <1>1
    <3> HIDE DEF Next
    <3> QED BY <1>5, <2>1, <3>1, Zenon
  <2> QED BY <1>4, <2>2 DEF Engine
<1>7. done = [k \in 0..Len(ids) |->
                 IF k = 0
                 THEN [cache |-> cache, materialized |-> materialized, device |-> device, accesses |-> accesses]
                 ELSE IF ids[k] \in DOMAIN ExpertBytes THEN UseExpert(done[k - 1], ids[k]) ELSE done[k - 1]]
  <2>1. \E g : g = [k \in 0..Len(ids) |->
                       IF k = 0
                       THEN [cache |-> cache, materialized |-> materialized, device |-> device, accesses |-> accesses]
                       ELSE IF ids[k] \in DOMAIN ExpertBytes THEN UseExpert(g[k - 1], ids[k]) ELSE g[k - 1]]
    BY <1>6
  <2> QED BY <2>1
<1>8. /\ cursor' = routes.at /\ cache' = done[n].cache /\ materialized' = done[n].materialized
      /\ device' = done[n].device /\ accesses' = done[n].accesses
    BY DEF ExecuteLayers
<1> HIDE DEF done
<1>9. PICK kept \in [0..n -> Seq(DOMAIN ExpertBytes)] : Keeps(kept, ids) /\ Known(ids) = kept[n]
  <2>1. ids \in Route
    OBVIOUS
  <2> QED BY <2>1, KnownIs
<1> DEFINE Steady(e, k) == /\ e \in Engines /\ e.accesses = accesses \o kept[k]
                           /\ Played(cache, accesses) => Played(e.cache, e.accesses)
<1>10. accesses \in Seq(DOMAIN ExpertBytes)
    BY DEF Engine, Engines, EngineType
<1>11. Steady(Engine, 0)
  <2>1. kept[0] = <<>>
    BY <1>9 DEF Keeps
  <2>2. accesses \o kept[0] = accesses
    BY <1>10, <2>1, ConcatEmptySeq
  <2>3. Engine.accesses = accesses /\ Engine.cache = cache
    BY DEF Engine
  <2> QED BY <2>2, <2>3
<1>12. ASSUME NEW k \in 1..n, NEW e, Steady(e, k - 1) PROVE Steady(Next(e, k), k)
  <2>1. k - 1 \in 0..n
    BY <1>1
  <2>2. kept[k] = IF ids[k] \in DOMAIN ExpertBytes THEN Append(kept[k - 1], ids[k]) ELSE kept[k - 1]
    BY <1>9 DEF Keeps
  <2>3. CASE ids[k] \in DOMAIN ExpertBytes
    <3>1. PICK id \in DOMAIN ExpertBytes : id = ids[k]
      BY <2>3
    <3>2. PICK d : d = UseExpert(e, id)
      OBVIOUS
    <3>3. Next(e, k) = d
      BY <2>3, <3>1, <3>2
    <3>4. e \in Engines /\ e.accesses \in Seq(DOMAIN ExpertBytes)
      BY <1>12 DEF Engines, EngineType
    <3>5. d \in Engines /\ d.cache = TouchOrPromote(e.cache, id) /\ d.accesses = Append(e.accesses, id)
      BY <3>2, <3>4, Used
    <3>6. Append(e.accesses, id) = accesses \o Append(kept[k - 1], id)
      <4>1. PICK x : x = kept[k - 1]
        OBVIOUS
      <4>2. x \in Seq(DOMAIN ExpertBytes) /\ <<id>> \in Seq(DOMAIN ExpertBytes)
        BY <1>9, <2>1, <4>1
      <4>3. Append(e.accesses, id) = (accesses \o x) \o <<id>> /\ Append(x, id) = x \o <<id>>
        BY <1>12, <3>4, <4>1, <4>2, AppendIsConcat
      <4>4. (accesses \o x) \o <<id>> = accesses \o (x \o <<id>>)
        BY <1>10, <4>2, ConcatAssociative
      <4> QED BY <4>1, <4>3, <4>4
    <3>7. Played(cache, accesses) => Played(d.cache, d.accesses)
      BY <1>12, <3>4, <3>5, PlayedOn
    <3>8. kept[k] = Append(kept[k - 1], id)
      BY <2>2, <3>1
    <3>9. Steady(d, k)
      BY <3>5, <3>6, <3>7, <3>8
    <3> HIDE DEF Steady, Next
    <3> QED BY <3>3, <3>9
  <2>4. CASE ids[k] \notin DOMAIN ExpertBytes
    <3>1. Next(e, k) = e /\ kept[k] = kept[k - 1]
      BY <2>2, <2>4
    <3> HIDE DEF Next
    <3> QED BY <1>12, <3>1
  <2> HIDE DEF Steady, Next
  <2> QED BY <2>3, <2>4
<1>13. \A k \in 0..n : Steady(done[k], k)
  <2> DEFINE T == {k \in 0..n : Steady(done[k], k)}
  <2>1. done[0] = Engine
    BY <1>1, <1>7 DEF Engine
  <2>2. \A k \in 1..n : done[k] = Next(done[k - 1], k)
    <3> TAKE k \in 1..n
    <3>1. k \in 0..n /\ k # 0
      BY <1>1
    <3> QED BY <1>7, <3>1
  <2> HIDE DEF Steady, Next
  <2>3. 0 \in T
    BY <1>1, <1>11, <2>1
  <2>4. ASSUME NEW k \in 0..n - 1, k \in T PROVE k + 1 \in T
    <3>1. k + 1 \in 1..n /\ k + 1 \in 0..n /\ (k + 1) - 1 = k
      BY <1>1
    <3>2. Steady(done[k], (k + 1) - 1)
      BY <2>4, <3>1
    <3>3. Steady(Next(done[k], k + 1), k + 1)
      BY <1>12, <3>1, <3>2
    <3>4. done[k + 1] = Next(done[k], k + 1)
      BY <2>2, <3>1
    <3> QED BY <3>1, <3>3, <3>4
  <2> HIDE DEF T
  <2>5. \A k \in 0..n : k \in T
    BY <1>1, <2>3, <2>4, InductUpTo, Zenon
  <2> QED BY <2>5 DEF T
<1>14. /\ done[n] \in Engines /\ done[n] \in EngineType /\ done[n].accesses = accesses \o kept[n]
       /\ Played(cache, accesses) => Played(done[n].cache, done[n].accesses)
  <2>1. Steady(done[n], n)
    BY <1>1, <1>13
  <2> QED BY <2>1 DEF Engines
<1>15. Engine' = done[n]
  <2>1. Engine' = [cache |-> done[n].cache, materialized |-> done[n].materialized,
                   device |-> done[n].device, accesses |-> done[n].accesses]
    BY <1>8 DEF Engine
  <2> QED BY <1>14, <2>1 DEF EngineType
<1> QED
    BY <1>8, <1>9, <1>14, <1>15

-----------------------------------------------------------------------------
(* The invariant: the trace and its cursor are those of a file that was read,
   and the cache and the weights are a steady engine's.                      *)
WeightsInv ==
    /\ trace \in Seq(Line) /\ cursor \in 0..Len(trace)
    /\ Engine \in Engines

LEMMA NoSlotsIs == NoSlots \in Caches /\ Fits(NoSlots) /\ Slots(NoSlots) = {} /\ NoSlots.slots = <<>>
<1>1. /\ NoSlots.slots = <<>> /\ NoSlots.used = 0 /\ NoSlots.promotions = 0 /\ NoSlots.evictions = 0
    BY DEF NoSlots
<1>2. NoSlots \in CacheType
    BY BytesEmpty DEF CacheType, NoSlots
<1>3. NoSlots \in Caches
  <2>1. NoSlots.used = TotalBytes(NoSlots.slots)
    BY <1>1, BytesEmpty
  <2>2. Len(NoSlots.slots) = 0
    BY <1>1, EmptySeq
  <2>3. NoSlots.promotions = NoSlots.evictions + Len(NoSlots.slots)
    BY <1>1, <2>2
  <2> QED BY <1>2, <2>1, <2>3 DEF Caches
<1>4. Fits(NoSlots)
    BY <1>1, SessionAssumption DEF Fits
<1>5. Slots(NoSlots) = {}
  <2>1. DOMAIN <<>> = {}
    OBVIOUS
  <2> QED BY <1>1, <2>1 DEF Slots
<1> QED
    BY <1>1, <1>3, <1>4, <1>5

LEMMA WeightsInit == FInit => WeightsInv
<1> SUFFICES ASSUME FInit PROVE WeightsInv
    OBVIOUS
<1>1. PICK lines \in Traces : trace = Loaded(lines)
    BY DEF FInit
<1>2. trace \in Seq(Line)
    BY <1>1, RoutesAssumption, LoadedIs DEF Line, Route
<1>3. cursor = 0 /\ cache = NoSlots /\ materialized = <<>> /\ device = {} /\ accesses = <<>>
    BY DEF FInit
<1>4. cursor \in 0..Len(trace)
  <2>1. Len(trace) \in Nat
    BY <1>2, LenProperties
  <2> QED BY <1>3, <2>1
<1>5. cache \in Caches /\ Fits(cache) /\ Slots(cache) = {}
    BY <1>3, NoSlotsIs
<1>10. DOMAIN materialized = {} /\ materialized \in UNION {[D -> Weights] : D \in SUBSET DOMAIN ExpertBytes}
  <2>1. materialized \in [{} -> Weights] /\ DOMAIN materialized = {}
    BY <1>3
  <2> QED BY <2>1
<1>11. accesses \in Seq(DOMAIN ExpertBytes)
    BY <1>3, EmptySeq
<1>12. Engine \in EngineType
    BY <1>3, <1>5, <1>10, <1>11 DEF Engine, EngineType
<1>13. Engine.cache = cache /\ Engine.materialized = materialized /\ Engine.device = device
    BY DEF Engine
<1>14. Engine \in Engines
    BY <1>3, <1>5, <1>10, <1>12, <1>13 DEF Engines
<1> QED
    BY <1>2, <1>4, <1>14 DEF WeightsInv

(* A token computes the experts of its routes. *)
LEMMA WeightsToken ==
    ASSUME WeightsInv, NEW routes \in RoutesOfToken, ExecuteLayers(routes), trace' = trace
    PROVE  WeightsInv'
<1>1. routes.at \in 0..Len(trace) /\ routes.experts \in Route
    BY RoutesAre DEF WeightsInv
<1>2. Engine' \in Engines /\ cursor' = routes.at
    BY <1>1, Executed DEF WeightsInv
<1> QED
    BY <1>1, <1>2 DEF WeightsInv

LEMMA WeightsStand ==
    ASSUME WeightsInv, UNCHANGED <<trace, cursor, cache, materialized, device, accesses>>
    PROVE  WeightsInv'
    BY DEF WeightsInv, Engine

LEMMA WeightsStep == WeightsInv /\ [FNext]_fvars => WeightsInv'
<1> SUFFICES ASSUME WeightsInv, [FNext]_fvars PROVE WeightsInv'
    OBVIOUS
<1>1. CASE CreateSession
    BY <1>1, WeightsStand DEF CreateSession, Unchanged
<1>2. CASE ContinueSession
    BY <1>2, WeightsStand DEF ContinueSession, Unchanged
<1>3. CASE PrefillToken
    BY <1>3, WeightsToken DEF PrefillToken
<1>4. CASE PrefillEnds
    BY <1>4, WeightsStand DEF PrefillEnds, Unchanged
<1>5. CASE DecodeToken
    BY <1>5, WeightsToken DEF DecodeToken
<1>6. CASE GenerateEnds
    BY <1>6, WeightsStand DEF GenerateEnds, Unchanged
<1>7. CASE EngineThrows
    BY <1>7, WeightsStand DEF EngineThrows
<1>8. CASE UNCHANGED fvars
    BY <1>8, WeightsStand DEF fvars
<1> QED
    BY <1>1, <1>2, <1>3, <1>4, <1>5, <1>6, <1>7, <1>8 DEF FNext

(* For any manifest, budget, trace and router: between tokens exactly the
   experts with a slot have weights, on the device too when there is one; the
   bytes used are those of the slots and fit the budget unless one expert
   alone is larger; and promotions less evictions are the slots
   (touch_or_promote, release_evicted_materialized).                         *)
THEOREM WeightsAreOfSlots == FSpec => []WeightsOfSlots
<1>1. WeightsInv => WeightsOfSlots
  <2> SUFFICES ASSUME WeightsInv PROVE WeightsOfSlots
    OBVIOUS
  <2>1. Engine.cache = cache /\ Engine.materialized = materialized /\ Engine.device = device
    BY DEF Engine
  <2>2. /\ cache \in Caches /\ Fits(cache) /\ DOMAIN materialized = Slots(cache)
        /\ device = IF Cuda THEN Slots(cache) ELSE {}
    BY <2>1 DEF WeightsInv, Engines, EngineType
  <2>3. cache.used = TotalBytes(cache.slots)
    BY <2>2, CacheFields
  <2>4. cache.promotions - cache.evictions = Len(cache.slots)
    <3>1. PICK p, e, n : p = cache.promotions /\ e = cache.evictions /\ n = Len(cache.slots)
      OBVIOUS
    <3>2. p \in Nat /\ e \in Nat /\ n \in Nat /\ p = e + n
      BY <2>2, <3>1, CacheFields
    <3>3. p - e = n
      BY <3>2
    <3> QED BY <3>1, <3>3
  <2> QED BY <2>2, <2>3, <2>4 DEF WeightsOfSlots, Fits
<1> QED
    BY WeightsInit, WeightsStep, <1>1, PTL DEF FSpec

-----------------------------------------------------------------------------
(* The slot cache beside the LRU cache of the simulator. *)

(* The order the hash table iterates in visits every expert of the manifest. *)
LEMMA OrderIs ==
    /\ DOMAIN AnyOrder \subseteq Nat
    /\ \A id \in DOMAIN ExpertBytes : \E i \in DOMAIN AnyOrder : AnyOrder[i] = id
<1> DEFINE S == DOMAIN ExpertBytes
           n == Cardinality(S)
<1>1. IsFiniteSet(S)
    BY SessionAssumption
<1> HIDE DEF S
<1>2. n \in Nat /\ ExistsBijection(1..n, S)
    BY <1>1, FS_CardinalityType
<1>3. \E f \in [1..n -> S] : IsInjective(f)
    BY <1>2 DEF ExistsBijection, Bijection, Injection
<1>4. AnyOrder = CHOOSE f \in [1..n -> S] : IsInjective(f)
    BY DEF AnyOrder, SetToSeq, S
<1>5. AnyOrder \in [1..n -> S] /\ IsInjective(AnyOrder)
    BY <1>3, <1>4, Zenon
<1>6. AnyOrder \in Injection(1..n, S)
    BY <1>5 DEF Injection
<1>7. IsFiniteSet(1..n) /\ Cardinality(1..n) = n
  <2>1. 1 \in Int /\ n \in Int
    BY <1>2
  <2>2. IsFiniteSet(1..n) /\ Cardinality(1..n) = IF 1 > n THEN 0 ELSE n - 1 + 1
    BY <2>1, FS_Interval
  <2>3. (IF 1 > n THEN 0 ELSE n - 1 + 1) = n
    BY <1>2
  <2> QED BY <2>2, <2>3
<1>8. AnyOrder \in Surjection(1..n, S)
    BY <1>1, <1>6, <1>7, FS_Injection
<1> QED
    BY <1>2, <1>5, <1>8 DEF Surjection, S

(* The slots are of distinct experts, touched at distinct times up to now. *)
Spread(c) ==
    /\ \A i, j \in 1..Len(c.slots) :
           c.slots[i].id = c.slots[j].id \/ c.slots[i].touch = c.slots[j].touch => i = j
    /\ \A i \in 1..Len(c.slots) : c.slots[i].touch \in 1..c.clock

Shape(m) ==
    m = [entries |-> m.entries, used |-> m.used, layers |-> m.layers, most |-> m.most,
         hits |-> m.hits, misses |-> m.misses, evicted |-> m.evicted]
Entry(e) ==
    e = [bytes |-> e.bytes, layer |-> e.layer, touch |-> e.touch, count |-> e.count, epoch |-> e.epoch]

(* m is what an LRU cache of the simulator holds where the slot cache is c:
   the simulator counts its steps from 0, the clock its accesses from 1.     *)
Twin(c, m) ==
    /\ c \in Caches /\ Spread(c) /\ c.clock = c.hits + c.promotions
    /\ Shape(m) /\ Resident(m) = Slots(c) /\ m.used = c.used /\ m.hits = c.hits
    /\ \A i \in 1..Len(c.slots) :
           /\ Entry(m.entries[c.slots[i].id])
           /\ m.entries[c.slots[i].id].bytes = c.slots[i].bytes
           /\ m.entries[c.slots[i].id].touch = c.slots[i].touch - 1

(* What a slot is. *)
LEMMA SlotFields ==
    ASSUME NEW c \in Caches, NEW i \in 1..Len(c.slots)
    PROVE  /\ c.slots[i].id \in DOMAIN ExpertBytes /\ c.slots[i].bytes \in Nat /\ c.slots[i].touch \in Nat
           /\ c.slots[i].id \in Slots(c)
<1>1. c.slots[i] \in Slot
    BY CacheFields, ElementOfSeq
<1>2. i \in DOMAIN c.slots
    BY CacheFields
<1> QED
    BY <1>1, <1>2 DEF Slot, Slots

LEMMA OldestLeast ==
    ASSUME NEW c \in Caches, c.slots # <<>>, Spread(c)
    PROVE  /\ Oldest(c) \in 1..Len(c.slots)
           /\ \A j \in 1..Len(c.slots) :
                  /\ c.slots[Oldest(c)].touch <= c.slots[j].touch
                  /\ c.slots[j].touch <= c.slots[Oldest(c)].touch => j = Oldest(c)
<1> DEFINE n == Len(c.slots)
<1>9. PICK o : o = Oldest(c)
    OBVIOUS
<1>10. o \in 1..n /\ \A j \in 1..n : c.slots[o].touch <= c.slots[j].touch
    BY <1>9, OldestIs
<1>11. \A j \in 1..n : c.slots[j].touch <= c.slots[o].touch => j = o
  <2> SUFFICES ASSUME NEW j \in 1..n, c.slots[j].touch <= c.slots[o].touch PROVE j = o
    OBVIOUS
  <2>1. c.slots[j].touch \in Nat /\ c.slots[o].touch \in Nat
    BY <1>10, SlotFields
  <2>2. c.slots[o].touch <= c.slots[j].touch
    BY <1>10
  <2>3. c.slots[j].touch = c.slots[o].touch
    BY <2>1, <2>2
  <2> QED BY <1>10, <2>3 DEF Spread
<1> QED
    BY <1>9, <1>10, <1>11

(* The expert the LRU policy evicts is the one of the oldest slot: every other
   slot was touched later, and its score is the lower one.                   *)
LEMMA VictimIs ==
    ASSUME NEW c, NEW m, Twin(c, m), c.slots # <<>>, NEW future
    PROVE  Victim(m, AnyOrder, "lru", c.clock, future) = c.slots[Oldest(c)].id
<1> DEFINE n == Len(c.slots)
           score(id) == Score(m, id, "lru", c.clock, future)
           worst == {id \in Resident(m) : \A o \in Resident(m) : score(id) >= score(o)}
<1>1. PICK o : o = Oldest(c)
    OBVIOUS
<1>2. PICK clock : clock = c.clock
    OBVIOUS
<1>3. /\ c \in Caches /\ Spread(c) /\ o \in 1..n /\ clock \in Nat
      /\ \A j \in 1..n : /\ c.slots[o].touch <= c.slots[j].touch
                         /\ c.slots[j].touch <= c.slots[o].touch => j = o
    BY <1>1, <1>2, OldestLeast, CacheFields DEF Twin
<1>4. Resident(m) = {c.slots[i].id : i \in 1..n}
    BY <1>3, CacheFields DEF Twin, Slots
<1>5. ASSUME NEW i \in 1..n
      PROVE  score(c.slots[i].id) = clock - (c.slots[i].touch - 1) /\ c.slots[i].touch \in 1..clock
  <2>1. PICK t : t = c.slots[i].touch
    OBVIOUS
  <2>2. t \in 1..clock
    BY <1>2, <1>3, <2>1 DEF Spread
  <2>3. m.entries[c.slots[i].id].touch = t - 1
    BY <2>1 DEF Twin
  <2>4. score(c.slots[i].id) = IF clock >= t - 1 THEN clock - (t - 1) ELSE 0
    BY <1>2, <2>3, Zenon DEF Score, Age
  <2>5. clock >= t - 1
    BY <1>3, <2>2
  <2> QED BY <2>1, <2>2, <2>4, <2>5
<1>6. worst = {c.slots[o].id}
  <2> HIDE DEF score
  <2>1. ASSUME NEW i \in 1..n PROVE score(c.slots[o].id) >= score(c.slots[i].id)
    <3>1. PICK s, t : s = c.slots[o].touch /\ t = c.slots[i].touch
      OBVIOUS
    <3>2. s \in 1..clock /\ t \in 1..clock /\ s <= t
      BY <1>3, <1>5, <3>1
    <3>3. clock - (s - 1) >= clock - (t - 1)
      BY <1>3, <3>2
    <3> QED BY <1>3, <1>5, <3>1, <3>3
  <2>2. ASSUME NEW i \in 1..n, score(c.slots[i].id) >= score(c.slots[o].id) PROVE i = o
    <3>1. PICK s, t : s = c.slots[o].touch /\ t = c.slots[i].touch
      OBVIOUS
    <3>2. s \in 1..clock /\ t \in 1..clock /\ clock - (t - 1) >= clock - (s - 1)
      BY <1>3, <1>5, <2>2, <3>1
    <3>3. t <= s
      BY <1>3, <3>2
    <3> QED BY <1>3, <3>1, <3>3
  <2> QED BY <1>3, <1>4, <2>1, <2>2
<1>7. PICK v : v = c.slots[o].id
    OBVIOUS
<1>8. v \in DOMAIN ExpertBytes
    BY <1>3, <1>7, SlotFields
<1> DEFINE spots == {i \in DOMAIN AnyOrder : AnyOrder[i] \in worst}
<1>9. Victim(m, AnyOrder, "lru", c.clock, future) = AnyOrder[Min(spots)]
    BY DEF Victim
<1>10. spots = {i \in DOMAIN AnyOrder : AnyOrder[i] = v}
    BY <1>6, <1>7
<1> HIDE DEF spots
<1>11. spots \subseteq Nat /\ spots # {}
    BY <1>8, <1>10, OrderIs
<1>12. \E i \in spots : \A j \in spots : i <= j
    BY <1>11, LeastNat, Zenon
<1>13. Min(spots) \in spots
    BY <1>12, Zenon DEF Min
<1> QED
    BY <1>1, <1>7, <1>9, <1>10, <1>13

LEMMA DroppedFields ==
    ASSUME NEW c \in Caches
    PROVE  /\ DropOldest(c).slots = RemoveAt(c.slots, Oldest(c))
           /\ DropOldest(c).used = c.used - c.slots[Oldest(c)].bytes
           /\ DropOldest(c).clock = c.clock /\ DropOldest(c).hits = c.hits
           /\ DropOldest(c).promotions = c.promotions
<1>1. c \in CacheType
    BY DEF Caches
<1>2. PICK rest, used, gone : /\ rest = RemoveAt(c.slots, Oldest(c))
                              /\ used = c.used - c.slots[Oldest(c)].bytes /\ gone = c.evictions + 1
    OBVIOUS
<1>3. DropOldest(c) = [c EXCEPT !.slots = rest, !.used = used, !.evictions = gone]
    BY <1>2 DEF DropOldest
<1> QED
    BY <1>1, <1>2, <1>3 DEF CacheType

LEMMA EvictedFields ==
    ASSUME NEW m, Shape(m), NEW id
    PROVE  /\ Shape(Evict(m, id))
           /\ Evict(m, id).entries = [o \in Resident(m) \ {id} |-> m.entries[o]]
           /\ Evict(m, id).used = m.used - m.entries[id].bytes /\ Evict(m, id).hits = m.hits
<1>1. PICK entries : entries = [o \in Resident(m) \ {id} |-> m.entries[o]]
    OBVIOUS
<1>2. PICK used : used = m.used - m.entries[id].bytes
    OBVIOUS
<1>3. PICK layers : layers = [m.layers EXCEPT ![m.entries[id].layer] = IF @ > 0 THEN @ - 1 ELSE @]
    OBVIOUS
<1>4. PICK evicted : evicted = Append(m.evicted, id)
    OBVIOUS
<1>5. Evict(m, id) = [m EXCEPT !.entries = entries, !.used = used, !.layers = layers, !.evicted = evicted]
    BY <1>1, <1>2, <1>3, <1>4, Zenon DEF Evict
<1>6. Evict(m, id) = [entries |-> entries, used |-> used, layers |-> layers, most |-> m.most,
                      hits |-> m.hits, misses |-> m.misses, evicted |-> evicted]
    BY <1>5 DEF Shape
<1> QED
    BY <1>1, <1>2, <1>6 DEF Shape

(* Dropping the oldest slot and evicting the victim leave twins. *)
LEMMA DropTwin ==
    ASSUME NEW c, NEW m, Twin(c, m), c.slots # <<>>, NEW future
    PROVE  Twin(DropOldest(c), Evict(m, Victim(m, AnyOrder, "lru", c.clock, future)))
<1>1. PICK o : o = Oldest(c)
    OBVIOUS
<1>2. PICK n : n = Len(c.slots)
    OBVIOUS
<1>3. PICK v : v = c.slots[o].id
    OBVIOUS
<1>4. PICK d : d = DropOldest(c)
    OBVIOUS
<1>5. PICK e : e = Evict(m, v)
    OBVIOUS
<1>6. PICK s : s = c.slots
    OBVIOUS
<1>7. /\ c \in Caches /\ Spread(c) /\ c.clock = c.hits + c.promotions /\ Shape(m)
      /\ Resident(m) = Slots(c) /\ m.used = c.used /\ m.hits = c.hits
    BY DEF Twin
<1>8. o \in 1..n /\ n \in Nat /\ s \in Seq(Slot) /\ s[o].id = v
    BY <1>1, <1>2, <1>3, <1>6, <1>7, OldestIs, CacheFields
<1>9. /\ d \in Caches /\ Len(d.slots) = n - 1 /\ d.slots = RemoveAt(s, o) /\ d.used = c.used - s[o].bytes
      /\ d.clock = c.clock /\ d.hits = c.hits /\ d.promotions = c.promotions
    BY <1>1, <1>2, <1>4, <1>6, <1>7, Dropped, DroppedFields
<1>10. /\ Shape(e) /\ e.entries = [x \in Resident(m) \ {v} |-> m.entries[x]]
       /\ e.used = m.used - m.entries[v].bytes /\ e.hits = m.hits
    BY <1>5, <1>7, EvictedFields
<1>11. \A i \in 1..(n - 1) : d.slots[i] = s[IF i < o THEN i ELSE i + 1]
    BY <1>2, <1>6, <1>8, <1>9, RemoveAtIs
<1>12. \A i, j \in 1..n : s[i].id = s[j].id \/ s[i].touch = s[j].touch => i = j
    BY <1>2, <1>6, <1>7 DEF Spread
<1>13. \A i \in 1..n : /\ s[i].touch \in 1..c.clock /\ Entry(m.entries[s[i].id])
                       /\ m.entries[s[i].id].bytes = s[i].bytes
                       /\ m.entries[s[i].id].touch = s[i].touch - 1
    BY <1>2, <1>6, <1>7 DEF Spread, Twin
<1>14. ASSUME NEW i \in 1..(n - 1)
       PROVE  \E k \in 1..n : d.slots[i] = s[k] /\ k # o /\ k = (IF i < o THEN i ELSE i + 1)
  <2>1. PICK k : k = IF i < o THEN i ELSE i + 1
    OBVIOUS
  <2>2. k \in 1..n /\ k # o
    BY <1>8, <2>1
  <2> QED BY <1>11, <2>1, <2>2
<1>15. Spread(d)
  <2>1. ASSUME NEW i \in 1..(n - 1), NEW j \in 1..(n - 1),
               d.slots[i].id = d.slots[j].id \/ d.slots[i].touch = d.slots[j].touch
        PROVE  i = j
    <3>1. PICK k \in 1..n : d.slots[i] = s[k] /\ k = (IF i < o THEN i ELSE i + 1)
      BY <1>14
    <3>2. PICK l \in 1..n : d.slots[j] = s[l] /\ l = (IF j < o THEN j ELSE j + 1)
      BY <1>14
    <3>3. k = l
      BY <1>12, <2>1, <3>1, <3>2
    <3> QED BY <1>8, <3>1, <3>2, <3>3
  <2>2. \A i \in 1..(n - 1) : d.slots[i].touch \in 1..d.clock
    BY <1>9, <1>13, <1>14
  <2> QED BY <1>9, <2>1, <2>2 DEF Spread
<1>16. DOMAIN d.slots = 1..(n - 1) /\ DOMAIN s = 1..n
    BY <1>2, <1>6, <1>7, <1>9, CacheFields
<1>17. Slots(d) = Slots(c) \ {v}
  <2>1. \A i \in 1..(n - 1) : d.slots[i].id \in Slots(c) \ {v}
    <3> TAKE i \in 1..(n - 1)
    <3>1. PICK k \in 1..n : d.slots[i] = s[k] /\ k # o
      BY <1>14
    <3>2. s[k].id # v
      BY <1>8, <1>12, <3>1
    <3> QED BY <1>6, <1>16, <3>1, <3>2 DEF Slots
  <2>2. \A k \in 1..n : s[k].id # v => s[k].id \in Slots(d)
    <3> SUFFICES ASSUME NEW k \in 1..n, s[k].id # v PROVE s[k].id \in Slots(d)
      OBVIOUS
    <3>1. k # o
      BY <1>8
    <3>2. PICK i : i = IF k < o THEN k ELSE k - 1
      OBVIOUS
    <3>3. i \in 1..(n - 1) /\ k = (IF i < o THEN i ELSE i + 1)
      BY <1>8, <3>1, <3>2
    <3>4. d.slots[i] = s[k]
      BY <1>11, <3>3
    <3> QED BY <1>16, <3>3, <3>4 DEF Slots
  <2> QED BY <1>6, <1>16, <2>1, <2>2 DEF Slots
<1>18. Resident(e) = Slots(d)
    BY <1>7, <1>10, <1>17 DEF Resident
<1>19. e.used = d.used
    BY <1>7, <1>8, <1>9, <1>10, <1>13
<1>20. ASSUME NEW i \in 1..(n - 1)
       PROVE  /\ Entry(e.entries[d.slots[i].id])
              /\ e.entries[d.slots[i].id].bytes = d.slots[i].bytes
              /\ e.entries[d.slots[i].id].touch = d.slots[i].touch - 1
  <2>1. PICK k \in 1..n : d.slots[i] = s[k] /\ k # o
    BY <1>14
  <2>2. d.slots[i].id \in Slots(d)
    BY <1>16 DEF Slots
  <2>3. d.slots[i].id \in Resident(m) \ {v}
    BY <1>7, <1>17, <2>2
  <2>4. e.entries[d.slots[i].id] = m.entries[d.slots[i].id]
    BY <1>10, <2>3
  <2> QED BY <1>13, <2>1, <2>4
<1>21. Twin(d, e)
    BY <1>7, <1>9, <1>10, <1>15, <1>18, <1>19, <1>20 DEF Twin
<1>22. Victim(m, AnyOrder, "lru", c.clock, future) = v
    BY <1>1, <1>3, VictimIs
<1> QED
    BY <1>4, <1>5, <1>21, <1>22

(* As many experts are resident as there are slots. *)
LEMMA ResidentCount ==
    ASSUME NEW c, NEW m, Twin(c, m)
    PROVE  Cardinality(Resident(m)) = Len(c.slots)
<1>1. PICK n : n = Len(c.slots)
    OBVIOUS
<1>2. c \in Caches /\ Spread(c) /\ Resident(m) = Slots(c)
    BY DEF Twin
<1>3. n \in Nat /\ DOMAIN c.slots = 1..n
    BY <1>1, <1>2, CacheFields
<1> DEFINE f == [i \in 1..n |-> c.slots[i].id]
<1>4. f \in [1..n -> Slots(c)] /\ \A id \in Slots(c) : \E i \in 1..n : f[i] = id
    BY <1>3 DEF Slots
<1>5. \A i, j \in 1..n : f[i] = f[j] => i = j
    BY <1>1, <1>2 DEF Spread
<1> HIDE DEF f
<1>6. f \in Bijection(1..n, Slots(c))
    BY <1>4, <1>5 DEF Bijection, Injection, Surjection, IsInjective
<1>7. ExistsBijection(1..n, Slots(c))
    BY <1>6 DEF ExistsBijection
<1>8. IsFiniteSet(1..n) /\ Cardinality(1..n) = n
  <2>1. 1 \in Int /\ n \in Int
    BY <1>3
  <2>2. IsFiniteSet(1..n) /\ Cardinality(1..n) = IF 1 > n THEN 0 ELSE n - 1 + 1
    BY <2>1, FS_Interval
  <2>3. (IF 1 > n THEN 0 ELSE n - 1 + 1) = n
    BY <1>3
  <2> QED BY <2>2, <2>3
<1>9. Cardinality(Slots(c)) = n
    BY <1>7, <1>8, FS_Bijection
<1> QED
    BY <1>1, <1>2, <1>9

(* Evicting over and over is defined, whatever the cache. *)
Evicts(g, m, r, future) ==
    g = [k \in 0..Cardinality(Resident(m)) |->
            IF k = 0 THEN m
            ELSE LET prev == g[k - 1]
                 IN  Evict(prev, Victim(prev, AnyOrder, "lru", r.step, future))]

LEMMA EvictsIs ==
    ASSUME NEW m, NEW r, NEW future, Cardinality(Resident(m)) \in Nat
    PROVE  \E g : /\ Evicts(g, m, r, future)
                  /\ EnsureSpace(m, AnyOrder, "lru", Capacity, r, future)
                         = g[Min({k \in DOMAIN g : g[k].used + r.bytes <= Capacity})]
<1> DEFINE n == Cardinality(Resident(m))
           Less(prev) == Evict(prev, Victim(prev, AnyOrder, "lru", r.step, future))
           after[k \in 0..Cardinality(Resident(m))] ==
               IF k = 0 THEN m
               ELSE LET prev == after[k - 1]
                    IN  Evict(prev, Victim(prev, AnyOrder, "lru", r.step, future))
           UpTo(N) == \E g : g = [k \in 0..N |-> IF k = 0 THEN m ELSE Less(g[k - 1])]
           T == {N \in 0..n : UpTo(N)}
<1>1. 0 \in T
  <2>1. [k \in 0..0 |-> m] = [k \in 0..0 |-> IF k = 0 THEN m ELSE Less([i \in 0..0 |-> m][k - 1])]
    <3> HIDE DEF Less
    <3> QED OBVIOUS
  <2>2. UpTo(0)
    BY <2>1
  <2> QED BY <2>2
<1>2. ASSUME NEW N \in 0..n - 1, N \in T PROVE N + 1 \in T
  <2>1. PICK g : g = [k \in 0..N |-> IF k = 0 THEN m ELSE Less(g[k - 1])]
    BY <1>2
  <2> DEFINE h == [k \in 0..N + 1 |-> IF k = N + 1 THEN Less(g[N]) ELSE g[k]]
  <2> HIDE DEF Less
  <2>2. ASSUME NEW k \in 0..N + 1 PROVE h[k] = IF k = 0 THEN m ELSE Less(h[k - 1])
    <3>1. CASE k = N + 1
      <4>1. k # 0 /\ k - 1 = N /\ N \in 0..N + 1 /\ N # N + 1
        BY <3>1
      <4>2. h[N] = g[N]
        BY <4>1
      <4> QED BY <3>1, <4>1, <4>2
    <3>2. CASE k # N + 1 /\ k # 0
      <4>1. k \in 0..N /\ k - 1 \in 0..N + 1 /\ k - 1 # N + 1
        BY <3>2
      <4>2. h[k] = g[k] /\ h[k - 1] = g[k - 1]
        BY <3>2, <4>1
      <4>3. g[k] = Less(g[k - 1])
        BY <2>1, <3>2, <4>1
      <4> QED BY <3>2, <4>2, <4>3
    <3>3. CASE k = 0
      <4>1. 0 # N + 1 /\ 0 \in 0..N
        BY <1>2
      <4> QED BY <2>1, <3>3, <4>1
    <3> QED BY <3>1, <3>2, <3>3
  <2>3. h = [k \in 0..N + 1 |-> h[k]]
    OBVIOUS
  <2> HIDE DEF h
  <2>4. h = [k \in 0..N + 1 |-> IF k = 0 THEN m ELSE Less(h[k - 1])]
    BY <2>2, <2>3
  <2>5. UpTo(N + 1)
    BY <2>4
  <2>6. N + 1 \in 0..n
    BY <1>2
  <2> QED BY <2>5, <2>6
<1>3. n \in T
  <2> HIDE DEF T
  <2>1. \A N \in 0..n : N \in T
    BY <1>1, <1>2, InductUpTo, Zenon
  <2>2. n \in 0..n
    OBVIOUS
  <2> QED BY <2>1, <2>2
<1>4. \E g : g = [k \in 0..n |-> IF k = 0 THEN m ELSE Less(g[k - 1])]
    BY <1>3
<1>5. after = [k \in 0..Cardinality(Resident(m)) |->
                  IF k = 0 THEN m
                  ELSE LET prev == after[k - 1]
                       IN  Evict(prev, Victim(prev, AnyOrder, "lru", r.step, future))]
    BY <1>4
<1>6. EnsureSpace(m, AnyOrder, "lru", Capacity, r, future)
          = after[Min({k \in DOMAIN after : after[k].used + r.bytes <= Capacity})]
    BY DEF EnsureSpace
<1> HIDE DEF after
<1>7. Evicts(after, m, r, future)
    BY <1>5 DEF Evicts
<1> QED
    BY <1>6, <1>7

(* Both make room at the same step. *)
LEMMA RoomTwin ==
    ASSUME NEW c, NEW m, Twin(c, m), NEW bytes \in Nat, bytes <= Capacity,
           NEW r, r.bytes = bytes, r.step = c.clock, NEW future
    PROVE  /\ Twin(MakeRoom(c, bytes), EnsureSpace(m, AnyOrder, "lru", Capacity, r, future))
           /\ MakeRoom(c, bytes).clock = c.clock
           /\ Slots(MakeRoom(c, bytes)) \subseteq Slots(c)
<1>1. PICK n : n = Len(c.slots)
    OBVIOUS
<1>2. c \in Caches /\ n \in Nat
    BY <1>1, CacheFields DEF Twin
<1>3. Cardinality(Resident(m)) = n
    BY <1>1, ResidentCount
<1>4. PICK f : /\ Drops(f, c)
               /\ MakeRoom(c, bytes) = f[Min({k \in 0..Len(c.slots) : f[k].used + bytes <= Capacity}
                                                 \cup {Len(c.slots)})]
    BY <1>2, RoomSteps
<1>5. PICK g : /\ Evicts(g, m, r, future)
               /\ EnsureSpace(m, AnyOrder, "lru", Capacity, r, future)
                      = g[Min({k \in DOMAIN g : g[k].used + r.bytes <= Capacity})]
    BY <1>2, <1>3, EvictsIs
<1>6. /\ f[0] = c /\ \A k \in 1..n : f[k] = DropOldest(f[k - 1])
      /\ \A k \in 0..n : f[k] \in Caches /\ Slots(f[k]) \subseteq Slots(c) /\ Len(f[k].slots) = n - k
    BY <1>1, <1>4 DEF Drops
<1>7. /\ DOMAIN g = 0..n /\ g[0] = m
      /\ \A k \in 1..n : g[k] = Evict(g[k - 1], Victim(g[k - 1], AnyOrder, "lru", c.clock, future))
  <2>1. g = [k \in 0..n |->
                IF k = 0 THEN m
                ELSE Evict(g[k - 1], Victim(g[k - 1], AnyOrder, "lru", c.clock, future))]
    BY <1>3, <1>5 DEF Evicts
  <2>2. DOMAIN g = 0..n
    BY <2>1
  <2>3. 0 \in 0..n /\ \A k \in 1..n : k \in 0..n /\ k # 0
    BY <1>2
  <2> QED BY <2>1, <2>2, <2>3
<1>8. \A k \in 0..n : Twin(f[k], g[k]) /\ f[k].clock = c.clock
  <2> DEFINE T == {k \in 0..n : Twin(f[k], g[k]) /\ f[k].clock = c.clock}
  <2>1. 0 \in T
    BY <1>2, <1>6, <1>7
  <2>2. ASSUME NEW k \in 0..n - 1, k \in T PROVE k + 1 \in T
    <3>1. k + 1 \in 1..n /\ k + 1 \in 0..n /\ (k + 1) - 1 = k /\ k \in 0..n /\ n - k # 0
      BY <1>2
    <3>2. Twin(f[k], g[k]) /\ f[k].clock = c.clock
      BY <2>2
    <3>3. f[k] \in Caches /\ f[k].slots # <<>>
      BY <1>6, <3>1, EmptySeq
    <3>4. f[k + 1] = DropOldest(f[k])
      BY <1>6, <3>1
    <3>5. g[k + 1] = Evict(g[k], Victim(g[k], AnyOrder, "lru", f[k].clock, future))
      BY <1>7, <3>1, <3>2
    <3>6. Twin(f[k + 1], g[k + 1])
      BY <3>2, <3>3, <3>4, <3>5, DropTwin
    <3>7. f[k + 1].clock = c.clock
      BY <3>2, <3>3, <3>4, DroppedFields
    <3> QED BY <3>1, <3>6, <3>7
  <2> HIDE DEF T
  <2>3. \A k \in 0..n : k \in T
    BY <1>2, <2>1, <2>2, InductUpTo, Zenon
  <2> QED BY <2>3 DEF T
<1> DEFINE drops == {k \in 0..n : f[k].used + bytes <= Capacity}
           evictions == {k \in DOMAIN g : g[k].used + r.bytes <= Capacity}
<1>9. n \in drops
  <2>1. n \in 0..n /\ n - n = 0
    BY <1>2
  <2>2. f[n] \in Caches /\ Len(f[n].slots) = 0
    BY <1>6, <2>1
  <2>3. f[n].slots = <<>>
    BY <2>2, CacheFields, EmptySeq
  <2>4. f[n].used = 0
    BY <2>2, <2>3, CacheFields, BytesEmpty
  <2> QED BY <2>1, <2>4
<1>10. drops = evictions
  <2>1. \A k \in 0..n : f[k].used = g[k].used
    BY <1>8 DEF Twin
  <2> QED BY <1>7, <2>1
<1>11. drops \subseteq 0..n /\ drops \subseteq Nat
    BY <1>2
<1>12. MakeRoom(c, bytes) = f[Min(drops \cup {n})]
    BY <1>1, <1>4
<1>13. EnsureSpace(m, AnyOrder, "lru", Capacity, r, future) = g[Min(evictions)]
    BY <1>5
<1> HIDE DEF drops, evictions
<1>14. drops \cup {n} = drops
    BY <1>9
<1>15. \E k \in drops : \A j \in drops : k <= j
    BY <1>9, <1>11, LeastNat, Zenon
<1>16. Min(drops) \in drops
    BY <1>15, Zenon DEF Min
<1> QED
    BY <1>6, <1>8, <1>10, <1>11, <1>12, <1>13, <1>14, <1>16

-----------------------------------------------------------------------------
(* An access in the slot cache and the same request in the simulator. *)
Requested(r, c, id) == r.id = id /\ r.bytes = ExpertBytes[id] /\ r.step = c.clock

LEMMA InsertedFields ==
    ASSUME NEW m, Shape(m), NEW r
    PROVE  /\ Shape(Insert(m, r))
           /\ Resident(Insert(m, r)) = Resident(m) \cup {r.id}
           /\ \A x \in Resident(m) \ {r.id} : Insert(m, r).entries[x] = m.entries[x]
           /\ Entry(Insert(m, r).entries[r.id])
           /\ Insert(m, r).entries[r.id].bytes = r.bytes /\ Insert(m, r).entries[r.id].touch = r.step
           /\ Insert(m, r).used = m.used + r.bytes /\ Insert(m, r).hits = m.hits
<1>1. PICK layers : layers = With(m.layers, r.layer, CountOf(m, r.layer) + 1)
    OBVIOUS
<1>2. PICK entry : entry = [bytes |-> r.bytes, layer |-> r.layer, touch |-> r.step,
                            count |-> 1, epoch |-> layers[r.layer]]
    OBVIOUS
<1>3. PICK entries : entries = With(m.entries, r.id, entry)
    OBVIOUS
<1>4. PICK used : used = m.used + r.bytes
    OBVIOUS
<1>5. Insert(m, r) = [m EXCEPT !.entries = entries, !.layers = layers, !.used = used]
    BY <1>1, <1>2, <1>3, <1>4, Zenon DEF Insert
<1>6. Insert(m, r) = [entries |-> entries, used |-> used, layers |-> layers, most |-> m.most,
                      hits |-> m.hits, misses |-> m.misses, evicted |-> m.evicted]
    BY <1>5 DEF Shape
<1>7. entries = [x \in DOMAIN m.entries \cup {r.id} |-> IF x = r.id THEN entry ELSE m.entries[x]]
    BY <1>3 DEF With
<1>8. Entry(entry)
    BY <1>2 DEF Entry
<1> QED
    BY <1>2, <1>4, <1>6, <1>7, <1>8 DEF Shape, Resident

LEMMA HitFields ==
    ASSUME NEW m, Shape(m), NEW r, r.id \in Resident(m), Entry(m.entries[r.id])
    PROVE  /\ Shape(Hit(m, r)) /\ Resident(Hit(m, r)) = Resident(m)
           /\ \A x \in Resident(m) \ {r.id} : Hit(m, r).entries[x] = m.entries[x]
           /\ Entry(Hit(m, r).entries[r.id])
           /\ Hit(m, r).entries[r.id].bytes = m.entries[r.id].bytes
           /\ Hit(m, r).entries[r.id].touch = r.step
           /\ Hit(m, r).used = m.used /\ Hit(m, r).hits = m.hits + 1
<1>1. PICK count : count = m.entries[r.id].count + 1
    OBVIOUS
<1>2. PICK most, hits : most = Max({m.most, count}) /\ hits = m.hits + 1
    OBVIOUS
<1>3. PICK entry : entry = [m.entries[r.id] EXCEPT !.touch = r.step, !.count = count]
    OBVIOUS
<1>4. PICK entries : entries = [m.entries EXCEPT ![r.id] = entry]
    OBVIOUS
<1>5. Hit(m, r) = [m EXCEPT !.entries = entries, !.most = most, !.hits = hits]
    BY <1>1, <1>2, <1>3, <1>4 DEF Hit
<1>6. entry = [bytes |-> m.entries[r.id].bytes, layer |-> m.entries[r.id].layer, touch |-> r.step,
               count |-> count, epoch |-> m.entries[r.id].epoch]
    BY <1>3 DEF Entry
<1>7. Hit(m, r) = [entries |-> entries, used |-> m.used, layers |-> m.layers, most |-> most,
                   hits |-> hits, misses |-> m.misses, evicted |-> m.evicted]
    BY <1>5 DEF Shape
<1>8. /\ DOMAIN entries = DOMAIN m.entries
      /\ \A x \in DOMAIN m.entries : entries[x] = IF x = r.id THEN entry ELSE m.entries[x]
    BY <1>4 DEF Resident
<1>9. Entry(entry)
    BY <1>6 DEF Entry
<1> QED
    BY <1>2, <1>6, <1>7, <1>8, <1>9 DEF Shape, Resident

(* A hit leaves twins: the slot and the entry are those touched last. *)
LEMMA HitTwin ==
    ASSUME NEW c, NEW m, Twin(c, m), Fits(c), NEW id \in Slots(c), NEW r, Requested(r, c, id)
    PROVE  Twin(TouchOrPromote(c, id), Hit(m, r)) /\ TouchOrPromote(c, id).clock = c.clock + 1
<1>1. PICK d : d = TouchOrPromote(c, id)
    OBVIOUS
<1>2. PICK e : e = Hit(m, r)
    OBVIOUS
<1>3. PICK k : k = SlotOf(c, id)
    OBVIOUS
<1>4. PICK n : n = Len(c.slots)
    OBVIOUS
<1>5. PICK s : s = c.slots
    OBVIOUS
<1>6. PICK now : now = c.clock + 1
    OBVIOUS
<1>7. /\ c \in Caches /\ Spread(c) /\ c.clock = c.hits + c.promotions /\ Shape(m)
      /\ Resident(m) = Slots(c) /\ m.used = c.used /\ m.hits = c.hits
    BY DEF Twin
<1>8. /\ n \in Nat /\ DOMAIN s = 1..n /\ c.clock \in Nat /\ c.hits \in Nat /\ c.promotions \in Nat
      /\ s \in Seq(Slot) /\ now \in Nat
    BY <1>4, <1>5, <1>6, <1>7, CacheFields
<1>9. k \in 1..n /\ s[k].id = id
  <2>1. \E i \in DOMAIN c.slots : c.slots[i].id = id
    BY DEF Slots
  <2>2. SlotOf(c, id) \in DOMAIN c.slots /\ c.slots[SlotOf(c, id)].id = id
    BY <2>1, Zenon DEF SlotOf
  <2> QED BY <1>3, <1>5, <1>8, <2>2
<1>10. PICK slots : slots = [s EXCEPT ![k] = [s[k] EXCEPT !.touch = now]]
    OBVIOUS
<1>11. PICK hits : hits = c.hits + 1
    OBVIOUS
<1>12. d = [c EXCEPT !.clock = now, !.slots = slots, !.hits = hits]
    BY <1>1, <1>3, <1>5, <1>6, <1>10, <1>11 DEF TouchOrPromote
<1>13. /\ d.clock = now /\ d.slots = slots /\ d.hits = hits /\ d.used = c.used /\ d.promotions = c.promotions
  <2>1. c \in CacheType
    BY <1>7 DEF Caches
  <2> QED BY <1>12, <2>1 DEF CacheType
<1>14. /\ DOMAIN slots = 1..n
       /\ \A i \in 1..n : /\ slots[i].id = s[i].id /\ slots[i].bytes = s[i].bytes
                          /\ slots[i].touch = IF i = k THEN now ELSE s[i].touch
  <2>1. \A i \in 1..n : s[i] \in Slot
    BY <1>4, <1>5, <1>8, ElementOfSeq
  <2>2. \A i \in 1..n : slots[i] = IF i = k THEN [s[k] EXCEPT !.touch = now] ELSE s[i]
    BY <1>8, <1>9, <1>10
  <2> QED BY <1>8, <1>10, <2>1, <2>2 DEF Slot
<1>15. d \in Caches /\ Slots(d) = Slots(c)
    BY <1>1, <1>7, Refreshed
<1>16. Len(d.slots) = n
    BY <1>8, <1>13, <1>14, <1>15, CacheFields
<1>17. \A i, j \in 1..n : s[i].id = s[j].id \/ s[i].touch = s[j].touch => i = j
    BY <1>4, <1>5, <1>7 DEF Spread
<1>18. \A i \in 1..n : /\ s[i].touch \in 1..c.clock /\ Entry(m.entries[s[i].id])
                       /\ m.entries[s[i].id].bytes = s[i].bytes
                       /\ m.entries[s[i].id].touch = s[i].touch - 1
    BY <1>4, <1>5, <1>7 DEF Spread, Twin
<1>19. Spread(d)
  <2>1. \A i \in 1..n : slots[i].touch \in 1..now /\ (i # k => slots[i].touch # now)
    <3> TAKE i \in 1..n
    <3>1. PICK t : t = s[i].touch
      OBVIOUS
    <3>2. t \in 1..c.clock
      BY <1>18, <3>1
    <3>3. t \in 1..now /\ t # now /\ now \in 1..now
      BY <1>6, <1>8, <3>2
    <3> QED BY <1>14, <3>1, <3>3
  <2>2. ASSUME NEW i \in 1..n, NEW j \in 1..n, slots[i].id = slots[j].id \/ slots[i].touch = slots[j].touch
        PROVE  i = j
    <3>1. CASE slots[i].id = slots[j].id
      BY <1>14, <1>17, <3>1
    <3>2. CASE slots[i].touch = slots[j].touch /\ i # k /\ j # k
      BY <1>14, <1>17, <3>2
    <3>3. CASE slots[i].touch = slots[j].touch /\ (i = k \/ j = k)
      BY <1>14, <2>1, <3>3
    <3> QED BY <2>2, <3>1, <3>2, <3>3
  <2> QED BY <1>13, <1>16, <2>1, <2>2 DEF Spread
<1>20. r.id = id /\ r.step = c.clock
    BY DEF Requested
<1>21. Entry(m.entries[id])
    BY <1>9, <1>18
<1>22. /\ Shape(e) /\ Resident(e) = Resident(m)
       /\ \A x \in Resident(m) \ {id} : e.entries[x] = m.entries[x]
       /\ Entry(e.entries[id]) /\ e.entries[id].bytes = m.entries[id].bytes
       /\ e.entries[id].touch = c.clock /\ e.used = m.used /\ e.hits = m.hits + 1
    BY <1>2, <1>7, <1>20, <1>21, HitFields
<1>23. ASSUME NEW i \in 1..n
       PROVE  /\ Entry(e.entries[slots[i].id])
              /\ e.entries[slots[i].id].bytes = slots[i].bytes
              /\ e.entries[slots[i].id].touch = slots[i].touch - 1
  <2>1. CASE i = k
    <3>1. now - 1 = c.clock
      BY <1>6, <1>8
    <3>2. slots[i].id = id /\ slots[i].bytes = s[k].bytes /\ slots[i].touch = now
      BY <1>9, <1>14, <2>1
    <3>3. m.entries[id].bytes = s[k].bytes
      BY <1>9, <1>18
    <3> QED BY <1>22, <3>1, <3>2, <3>3
  <2>2. CASE i # k
    <3>1. s[i].id # id
      BY <1>9, <1>17, <2>2
    <3>2. s[i].id \in Resident(m)
      BY <1>4, <1>5, <1>7, SlotFields
    <3>3. e.entries[s[i].id] = m.entries[s[i].id]
      BY <1>22, <3>1, <3>2
    <3> QED BY <1>14, <1>18, <2>2, <3>3
  <2> QED BY <2>1, <2>2
<1>24. now = hits + c.promotions
    BY <1>6, <1>7, <1>8, <1>11
<1>25. Twin(d, e)
    BY <1>7, <1>11, <1>13, <1>15, <1>16, <1>19, <1>22, <1>23, <1>24 DEF Twin
<1> QED
    BY <1>1, <1>2, <1>6, <1>13, <1>25

(* So does a promotion: the new slot and the new entry are the youngest. *)
LEMMA PromoteTwin ==
    ASSUME NEW c, NEW m, Twin(c, m), NEW id \in DOMAIN ExpertBytes, id \notin Slots(c),
           ExpertBytes[id] <= Capacity, NEW r, Requested(r, c, id), NEW future
    PROVE  /\ Twin(TouchOrPromote(c, id), Insert(EnsureSpace(m, AnyOrder, "lru", Capacity, r, future), r))
           /\ TouchOrPromote(c, id).clock = c.clock + 1
<1>1. PICK size : size = ExpertBytes[id]
    OBVIOUS
<1>2. PICK d : d = TouchOrPromote(c, id)
    OBVIOUS
<1>3. PICK b : b = MakeRoom(c, size)
    OBVIOUS
<1>4. PICK z : z = EnsureSpace(m, AnyOrder, "lru", Capacity, r, future)
    OBVIOUS
<1>5. PICK e : e = Insert(z, r)
    OBVIOUS
<1>6. PICK now : now = c.clock + 1
    OBVIOUS
<1>7. PICK n : n = Len(b.slots)
    OBVIOUS
<1>8. PICK s : s = b.slots
    OBVIOUS
<1>9. /\ size \in Nat /\ size <= Capacity /\ c \in Caches /\ c.clock \in Nat
      /\ r.id = id /\ r.bytes = size /\ r.step = c.clock
    BY <1>1, SessionAssumption, CacheFields DEF Requested, Twin
<1>10. Twin(b, z) /\ b.clock = c.clock /\ Slots(b) \subseteq Slots(c)
    BY <1>3, <1>4, <1>9, RoomTwin
<1>11. /\ b \in Caches /\ Spread(b) /\ b.clock = b.hits + b.promotions /\ Shape(z)
       /\ Resident(z) = Slots(b) /\ z.used = b.used /\ z.hits = b.hits
    BY <1>10 DEF Twin
<1>12. /\ n \in Nat /\ DOMAIN s = 1..n /\ s \in Seq(Slot) /\ b.hits \in Nat /\ b.promotions \in Nat
       /\ b.used \in Nat
    BY <1>7, <1>8, <1>11, CacheFields
<1>13. PICK slot : slot = [id |-> id, bytes |-> size, touch |-> now]
    OBVIOUS
<1>14. slot \in Slot
  <2>1. now \in Nat
    BY <1>6, <1>9
  <2> QED BY <1>9, <1>13, <2>1 DEF Slot
<1>15. PICK slots : slots = Append(s, slot)
    OBVIOUS
<1>16. /\ slots \in Seq(Slot) /\ Len(slots) = n + 1 /\ slots[n + 1] = slot
       /\ \A i \in 1..n : slots[i] = s[i]
    BY <1>7, <1>8, <1>12, <1>14, <1>15, AppendProperties
<1>17. DOMAIN slots = 1..(n + 1)
    BY <1>16, LenProperties
<1>18. PICK used, promotions : used = b.used + size /\ promotions = b.promotions + 1
    OBVIOUS
<1>19. d = [b EXCEPT !.clock = now, !.slots = slots, !.used = used, !.promotions = promotions]
    BY <1>1, <1>2, <1>3, <1>6, <1>8, <1>13, <1>15, <1>18 DEF TouchOrPromote
<1>20. /\ d.clock = now /\ d.slots = slots /\ d.hits = b.hits /\ d.used = used /\ d.promotions = promotions
  <2>1. b \in CacheType
    BY <1>11 DEF Caches
  <2> QED BY <1>19, <2>1 DEF CacheType
<1>21. d \in Caches
    BY <1>2, <1>9, Placed
<1>22. \A i, j \in 1..n : s[i].id = s[j].id \/ s[i].touch = s[j].touch => i = j
    BY <1>7, <1>8, <1>11 DEF Spread
<1>23. \A i \in 1..n : /\ s[i].touch \in 1..c.clock /\ Entry(z.entries[s[i].id])
                       /\ z.entries[s[i].id].bytes = s[i].bytes
                       /\ z.entries[s[i].id].touch = s[i].touch - 1
                       /\ s[i].id \in Slots(b)
    BY <1>7, <1>8, <1>10, <1>11, SlotFields DEF Spread, Twin
<1>24. id \notin Slots(b)
    BY <1>10
<1>25. \A i \in 1..n + 1 : i = n + 1 \/ i \in 1..n
    BY <1>12
<1>26. slot.id = id /\ slot.bytes = size /\ slot.touch = now
    BY <1>13
<1>27. Spread(d)
  <2>1. \A i \in 1..n : s[i].touch \in 1..now /\ s[i].touch # now /\ s[i].id # id
    <3> TAKE i \in 1..n
    <3>1. PICK t : t = s[i].touch
      OBVIOUS
    <3>2. t \in 1..c.clock
      BY <1>23, <3>1
    <3>3. t \in 1..now /\ t # now
      BY <1>6, <1>9, <3>2
    <3> QED BY <1>23, <1>24, <3>1, <3>3
  <2>2. now \in 1..now
    BY <1>6, <1>9
  <2>3. \A i \in 1..n + 1 : slots[i].touch \in 1..now
    BY <1>16, <1>25, <1>26, <2>1, <2>2
  <2>4. ASSUME NEW i \in 1..n + 1, NEW j \in 1..n + 1,
               slots[i].id = slots[j].id \/ slots[i].touch = slots[j].touch
        PROVE  i = j
    <3>1. CASE i \in 1..n /\ j \in 1..n
      BY <1>16, <1>22, <2>4, <3>1
    <3>2. CASE i = n + 1 /\ j \in 1..n
      BY <1>16, <1>26, <2>1, <2>4, <3>2
    <3>3. CASE i \in 1..n /\ j = n + 1
      BY <1>16, <1>26, <2>1, <2>4, <3>3
    <3> QED BY <1>25, <3>1, <3>2, <3>3
  <2> QED BY <1>16, <1>20, <2>3, <2>4 DEF Spread
<1>28. /\ Shape(e) /\ Resident(e) = Resident(z) \cup {id}
       /\ \A x \in Resident(z) \ {id} : e.entries[x] = z.entries[x]
       /\ Entry(e.entries[id]) /\ e.entries[id].bytes = size /\ e.entries[id].touch = c.clock
       /\ e.used = z.used + size /\ e.hits = z.hits
  <2>1. /\ Shape(e) /\ Resident(e) = Resident(z) \cup {r.id}
        /\ \A x \in Resident(z) \ {r.id} : e.entries[x] = z.entries[x]
        /\ Entry(e.entries[r.id]) /\ e.entries[r.id].bytes = r.bytes /\ e.entries[r.id].touch = r.step
        /\ e.used = z.used + r.bytes /\ e.hits = z.hits
    <3>1. Shape(z)
      BY <1>11
    <3>2. Shape(Insert(z, r)) /\ Resident(Insert(z, r)) = Resident(z) \cup {r.id}
      BY <3>1, InsertedFields
    <3>3. \A x \in Resident(z) \ {r.id} : Insert(z, r).entries[x] = z.entries[x]
      BY <3>1, InsertedFields
    <3>4. Entry(Insert(z, r).entries[r.id])
      BY <3>1, InsertedFields
    <3>5. Insert(z, r).entries[r.id].bytes = r.bytes /\ Insert(z, r).entries[r.id].touch = r.step
      <4>1. Insert(z, r).entries[r.id].bytes = r.bytes
        BY <3>1, InsertedFields
      <4>2. Insert(z, r).entries[r.id].touch = r.step
        BY <3>1, InsertedFields
      <4> QED BY <4>1, <4>2
    <3>6. Insert(z, r).used = z.used + r.bytes /\ Insert(z, r).hits = z.hits
      BY <3>1, InsertedFields
    <3> QED BY <1>5, <3>2, <3>3, <3>4, <3>5, <3>6
  <2> QED BY <1>9, <2>1
<1>29. Slots(d) = Slots(b) \cup {id}
  <2>1. Slots(d) = {slots[i].id : i \in 1..n + 1} /\ Slots(b) = {s[i].id : i \in 1..n}
    BY <1>8, <1>12, <1>17, <1>20 DEF Slots
  <2>2. \A i \in 1..n + 1 : slots[i].id \in Slots(b) \cup {id}
    BY <1>16, <1>23, <1>25, <1>26
  <2>3. n + 1 \in 1..n + 1 /\ \A i \in 1..n : i \in 1..n + 1
    BY <1>12
  <2>4. \A i \in 1..n : s[i].id \in Slots(d)
    BY <1>16, <2>1, <2>3
  <2>5. id \in Slots(d)
    BY <1>16, <1>26, <2>1, <2>3
  <2> QED BY <2>1, <2>2, <2>4, <2>5
<1>30. ASSUME NEW i \in 1..n + 1
       PROVE  /\ Entry(e.entries[slots[i].id])
              /\ e.entries[slots[i].id].bytes = slots[i].bytes
              /\ e.entries[slots[i].id].touch = slots[i].touch - 1
  <2>1. CASE i = n + 1
    <3>1. now - 1 = c.clock
      BY <1>6, <1>9
    <3> QED BY <1>16, <1>26, <1>28, <2>1, <3>1
  <2>2. CASE i \in 1..n
    <3>1. s[i].id \in Resident(z) \ {id}
      BY <1>11, <1>23, <1>24, <2>2
    <3>2. e.entries[s[i].id] = z.entries[s[i].id]
      BY <1>28, <3>1
    <3> QED BY <1>16, <1>23, <2>2, <3>2
  <2> QED BY <1>25, <2>1, <2>2
<1>31. now = b.hits + promotions
    BY <1>6, <1>10, <1>11, <1>12, <1>18
<1>32. Twin(d, e)
    BY <1>11, <1>16, <1>18, <1>20, <1>21, <1>27, <1>28, <1>29, <1>30, <1>31 DEF Twin
<1> QED
    BY <1>2, <1>4, <1>5, <1>6, <1>20, <1>32

(* Either way: one access keeps the two caches twins, whatever else the
   simulator knows of the future.                                            *)
LEMMA AccessTwin ==
    ASSUME NEW c, NEW m, Twin(c, m), Fits(c), NEW id \in DOMAIN ExpertBytes,
           ExpertBytes[id] <= Capacity, NEW r, Requested(r, c, id), NEW future
    PROVE  /\ Twin(TouchOrPromote(c, id), TouchOrInsert(m, AnyOrder, "lru", Capacity, r, future))
           /\ TouchOrPromote(c, id).clock = c.clock + 1
<1>1. /\ c \in Caches /\ Shape(m) /\ Resident(m) = Slots(c) /\ r.id = id /\ r.bytes = ExpertBytes[id]
      /\ ExpertBytes[id] \in Nat /\ Capacity \in Nat
    BY SessionAssumption DEF Twin, Requested
<1>2. CASE id \in Slots(c)
  <2>1. TouchOrInsert(m, AnyOrder, "lru", Capacity, r, future) = Hit(m, r)
    BY <1>1, <1>2 DEF TouchOrInsert
  <2> QED BY <1>2, <2>1, HitTwin
<1>3. CASE id \notin Slots(c)
  <2>1. PICK missed : missed = [m EXCEPT !.misses = m.misses + 1]
    OBVIOUS
  <2>2. Shape(missed) /\ missed.entries = m.entries /\ missed.used = m.used /\ missed.hits = m.hits
    BY <1>1, <2>1 DEF Shape
  <2>3. Twin(c, missed)
    BY <2>2 DEF Twin, Resident
  <2>4. ~(r.bytes > Capacity)
    BY <1>1
  <2>5. TouchOrInsert(m, AnyOrder, "lru", Capacity, r, future)
            = Insert(EnsureSpace(missed, AnyOrder, "lru", Capacity, r, future), r)
    BY <1>1, <1>3, <2>1, <2>4 DEF TouchOrInsert
  <2> QED BY <1>3, <2>3, <2>5, PromoteTwin
<1> QED
    BY <1>2, <1>3

-----------------------------------------------------------------------------
(* The simulator's run over any requests is defined. *)
Plays(g, reqs) ==
    g = [k \in 0..Len(reqs) |->
            IF k = 0 THEN Empty
            ELSE TouchOrInsert(g[k - 1], AnyOrder, "lru", Capacity, reqs[k], reqs)]

LEMMA SimulateIs ==
    ASSUME NEW reqs, Len(reqs) \in Nat
    PROVE  \E g : Plays(g, reqs) /\ Simulate(AnyOrder, "lru", Capacity, reqs) = g[Len(reqs)]
<1> DEFINE n == Len(reqs)
           More(m, k) == TouchOrInsert(m, AnyOrder, "lru", Capacity, reqs[k], reqs)
           after[k \in 0..Len(reqs)] ==
               IF k = 0 THEN Empty
               ELSE TouchOrInsert(after[k - 1], AnyOrder, "lru", Capacity, reqs[k], reqs)
           UpTo(N) == \E g : g = [k \in 0..N |-> IF k = 0 THEN Empty ELSE More(g[k - 1], k)]
           T == {N \in 0..n : UpTo(N)}
<1>1. 0 \in T
  <2>1. [k \in 0..0 |-> Empty] = [k \in 0..0 |-> IF k = 0 THEN Empty ELSE More([i \in 0..0 |-> Empty][k - 1], k)]
    <3> HIDE DEF More
    <3> QED OBVIOUS
  <2>2. UpTo(0)
    BY <2>1
  <2> QED BY <2>2
<1>2. ASSUME NEW N \in 0..n - 1, N \in T PROVE N + 1 \in T
  <2>1. PICK g : g = [k \in 0..N |-> IF k = 0 THEN Empty ELSE More(g[k - 1], k)]
    BY <1>2
  <2> DEFINE h == [k \in 0..N + 1 |-> IF k = N + 1 THEN More(g[N], N + 1) ELSE g[k]]
  <2> HIDE DEF More
  <2>2. ASSUME NEW k \in 0..N + 1 PROVE h[k] = IF k = 0 THEN Empty ELSE More(h[k - 1], k)
    <3>1. CASE k = N + 1
      <4>1. k # 0 /\ k - 1 = N /\ N \in 0..N + 1 /\ N # N + 1
        BY <3>1
      <4>2. h[N] = g[N]
        BY <4>1
      <4> QED BY <3>1, <4>1, <4>2
    <3>2. CASE k # N + 1 /\ k # 0
      <4>1. k \in 0..N /\ k - 1 \in 0..N + 1 /\ k - 1 # N + 1
        BY <3>2
      <4>2. h[k] = g[k] /\ h[k - 1] = g[k - 1]
        BY <3>2, <4>1
      <4>3. g[k] = More(g[k - 1], k)
        BY <2>1, <3>2, <4>1
      <4> QED BY <3>2, <4>2, <4>3
    <3>3. CASE k = 0
      <4>1. 0 # N + 1 /\ 0 \in 0..N
        BY <1>2
      <4> QED BY <2>1, <3>3, <4>1
    <3> QED BY <3>1, <3>2, <3>3
  <2>3. h = [k \in 0..N + 1 |-> h[k]]
    OBVIOUS
  <2> HIDE DEF h
  <2>4. h = [k \in 0..N + 1 |-> IF k = 0 THEN Empty ELSE More(h[k - 1], k)]
    BY <2>2, <2>3
  <2>5. UpTo(N + 1)
    BY <2>4
  <2>6. N + 1 \in 0..n
    BY <1>2
  <2> QED BY <2>5, <2>6
<1>3. n \in T
  <2> HIDE DEF T
  <2>1. \A N \in 0..n : N \in T
    BY <1>1, <1>2, InductUpTo, Zenon
  <2>2. n \in 0..n
    OBVIOUS
  <2> QED BY <2>1, <2>2
<1>4. \E g : g = [k \in 0..n |-> IF k = 0 THEN Empty ELSE More(g[k - 1], k)]
    BY <1>3
<1>5. after = [k \in 0..Len(reqs) |->
                  IF k = 0 THEN Empty
                  ELSE TouchOrInsert(after[k - 1], AnyOrder, "lru", Capacity, reqs[k], reqs)]
    BY <1>4
<1>6. Simulate(AnyOrder, "lru", Capacity, reqs) = after[Len(reqs)]
    BY DEF Simulate
<1> HIDE DEF after
<1>7. Plays(after, reqs)
    BY <1>5 DEF Plays
<1> QED
    BY <1>6, <1>7

LEMMA TwinsStart == Twin(NoSlots, Empty)
<1>1. NoSlots \in Caches /\ Slots(NoSlots) = {} /\ NoSlots.slots = <<>>
    BY NoSlotsIs
<1>2. Len(NoSlots.slots) = 0 /\ 1..0 = {}
    BY <1>1, EmptySeq
<1>3. NoSlots.clock = 0 /\ NoSlots.hits = 0 /\ NoSlots.promotions = 0 /\ NoSlots.used = 0
    BY DEF NoSlots
<1>4. Shape(Empty) /\ Empty.used = 0 /\ Empty.hits = 0 /\ Empty.entries = <<>>
    BY DEF Shape, Empty
<1>5. Resident(Empty) = {}
    BY <1>4 DEF Resident
<1>6. Spread(NoSlots)
    BY <1>2 DEF Spread
<1>7. NoSlots.clock = NoSlots.hits + NoSlots.promotions
    BY <1>3
<1> QED
    BY <1>1, <1>2, <1>3, <1>4, <1>5, <1>6, <1>7 DEF Twin

(* The requests the accesses make of the simulator. *)
Predicts(reqs, ids) ==
    /\ Len(reqs) = Len(ids)
    /\ \A k \in 1..Len(ids) :
           reqs[k].id = ids[k] /\ reqs[k].bytes = ExpertBytes[ids[k]] /\ reqs[k].step = k - 1

(* A slot cache is the twin of the simulated one, if every expert fits. *)
LEMMA SimulatedTwin ==
    ASSUME \A id \in DOMAIN ExpertBytes : ExpertBytes[id] <= Capacity,
           NEW ids \in Seq(DOMAIN ExpertBytes), NEW p, Accessed(p, ids), NEW reqs, Predicts(reqs, ids)
    PROVE  /\ Twin(p[Len(ids)], Simulate(AnyOrder, "lru", Capacity, reqs))
           /\ p[Len(ids)].clock = Len(ids)
<1>1. PICK n : n = Len(ids)
    OBVIOUS
<1>2. n \in Nat /\ \A k \in 1..n : ids[k] \in DOMAIN ExpertBytes
    BY <1>1, LenProperties, ElementOfSeq
<1>3. PICK g : Plays(g, reqs) /\ Simulate(AnyOrder, "lru", Capacity, reqs) = g[Len(reqs)]
  <2>1. Len(reqs) \in Nat
    BY <1>1, <1>2 DEF Predicts
  <2> QED BY <2>1, SimulateIs
<1>4. /\ Len(reqs) = n
      /\ \A k \in 1..n : reqs[k].id = ids[k] /\ reqs[k].bytes = ExpertBytes[ids[k]] /\ reqs[k].step = k - 1
    BY <1>1 DEF Predicts
<1>5. p[0] = NoSlots /\ \A k \in 1..n : p[k] = TouchOrPromote(p[k - 1], ids[k])
    BY <1>1 DEF Accessed
<1>6. g[0] = Empty /\ \A k \in 1..n : g[k] = TouchOrInsert(g[k - 1], AnyOrder, "lru", Capacity, reqs[k], reqs)
  <2>1. g = [k \in 0..n |-> IF k = 0 THEN Empty
                            ELSE TouchOrInsert(g[k - 1], AnyOrder, "lru", Capacity, reqs[k], reqs)]
    BY <1>3, <1>4 DEF Plays
  <2>2. 0 \in 0..n /\ \A k \in 1..n : k \in 0..n /\ k # 0
    BY <1>2
  <2> QED BY <2>1, <2>2
<1> DEFINE T == {k \in 0..n : Twin(p[k], g[k]) /\ Fits(p[k]) /\ p[k].clock = k}
<1>7. 0 \in T
  <2>1. NoSlots.clock = 0
    BY DEF NoSlots
  <2> QED BY <1>2, <1>5, <1>6, <2>1, TwinsStart, NoSlotsIs
<1>8. ASSUME NEW k \in 0..n - 1, k \in T PROVE k + 1 \in T
  <2>1. k + 1 \in 1..n /\ k + 1 \in 0..n /\ (k + 1) - 1 = k
    BY <1>2
  <2>2. Twin(p[k], g[k]) /\ Fits(p[k]) /\ p[k].clock = k
    BY <1>8
  <2>3. PICK id \in DOMAIN ExpertBytes : id = ids[k + 1]
    BY <1>2, <2>1
  <2>4. PICK r : r = reqs[k + 1]
    OBVIOUS
  <2>5. Requested(r, p[k], id) /\ ExpertBytes[id] <= Capacity
    BY <1>4, <2>1, <2>2, <2>3, <2>4 DEF Requested
  <2>6. /\ p[k + 1] = TouchOrPromote(p[k], id)
        /\ g[k + 1] = TouchOrInsert(g[k], AnyOrder, "lru", Capacity, r, reqs)
    BY <1>5, <1>6, <2>1, <2>3, <2>4
  <2>7. Twin(p[k + 1], g[k + 1]) /\ p[k + 1].clock = k + 1
    BY <2>2, <2>5, <2>6, AccessTwin
  <2>8. p[k] \in Caches
    BY <2>2 DEF Twin
  <2>9. Fits(p[k + 1])
    BY <2>2, <2>6, <2>8, PromotedSlots
  <2> QED BY <2>1, <2>7, <2>9
<1> HIDE DEF T
<1>9. \A k \in 0..n : k \in T
    BY <1>2, <1>7, <1>8, InductUpTo, Zenon
<1>10. n \in 0..n
    BY <1>2
<1> QED
    BY <1>1, <1>3, <1>4, <1>9, <1>10 DEF T

-----------------------------------------------------------------------------
(* The experts of two routes are those of the one and then of the other. *)
LEMMA KnownJoins ==
    ASSUME NEW a \in Route, NEW b \in Route
    PROVE  Known(a \o b) = Known(a) \o Known(b) /\ Known(a) \in Seq(DOMAIN ExpertBytes)
<1> DEFINE S == Seq(DOMAIN ExpertBytes)
<1>1. PICK ids, n, l : ids = a \o b /\ n = Len(a) /\ l = Len(b)
    OBVIOUS
<1>2. /\ ids \in Route /\ n \in Nat /\ l \in Nat /\ Len(ids) = n + l
      /\ \A k \in 1..n + l : ids[k] = IF k <= n THEN a[k] ELSE b[k - n]
    BY <1>1, ConcatProperties, LenProperties DEF Route
<1>3. PICK f \in [0..n -> S] : Keeps(f, a) /\ Known(a) = f[n]
    BY <1>1, KnownIs
<1>4. PICK g \in [0..l -> S] : Keeps(g, b) /\ Known(b) = g[l]
    BY <1>1, KnownIs
<1>5. PICK h \in [0..n + l -> S] : Keeps(h, ids) /\ Known(ids) = h[n + l]
    BY <1>2, KnownIs
<1>6. \A k \in 0..n : h[k] = f[k]
  <2> DEFINE T == {k \in 0..n : h[k] = f[k]}
  <2>1. 0 \in T
    BY <1>2, <1>3, <1>5 DEF Keeps
  <2>2. ASSUME NEW k \in 0..n - 1, k \in T PROVE k + 1 \in T
    <3>1. k + 1 \in 1..n /\ k + 1 \in 1..n + l /\ k + 1 \in 0..n /\ (k + 1) - 1 = k /\ k + 1 <= n
      BY <1>2
    <3>2. ids[k + 1] = a[k + 1]
      BY <1>2, <3>1
    <3>3. f[k + 1] = IF a[k + 1] \in DOMAIN ExpertBytes THEN Append(f[k], a[k + 1]) ELSE f[k]
      BY <1>1, <1>3, <3>1 DEF Keeps
    <3>4. h[k + 1] = IF ids[k + 1] \in DOMAIN ExpertBytes THEN Append(h[k], ids[k + 1]) ELSE h[k]
      BY <1>2, <1>5, <3>1 DEF Keeps
    <3> QED BY <2>2, <3>1, <3>2, <3>3, <3>4
  <2> HIDE DEF T
  <2>3. \A k \in 0..n : k \in T
    BY <1>2, <2>1, <2>2, InductUpTo, Zenon
  <2> QED BY <2>3 DEF T
<1>7. f[n] \in S /\ h[n] = f[n]
    BY <1>2, <1>3, <1>6
<1>8. \A k \in 0..l : h[n + k] = f[n] \o g[k]
  <2> DEFINE T == {k \in 0..l : h[n + k] = f[n] \o g[k]}
  <2>1. 0 \in T
    <3>1. n + 0 = n /\ g[0] = <<>>
      BY <1>2, <1>4 DEF Keeps
    <3>2. f[n] \o <<>> = f[n]
      BY <1>7, ConcatEmptySeq
    <3>3. h[n + 0] = f[n] \o g[0]
      BY <1>7, <3>1, <3>2
    <3>4. 0 \in 0..l
      BY <1>2
    <3> QED BY <3>3, <3>4
  <2>2. ASSUME NEW k \in 0..l - 1, k \in T PROVE k + 1 \in T
    <3>1. /\ k + 1 \in 1..l /\ k + 1 \in 0..l /\ (k + 1) - 1 = k /\ k \in 0..l
          /\ n + (k + 1) \in 1..n + l /\ (n + (k + 1)) - 1 = n + k /\ ~(n + (k + 1) <= n)
          /\ (n + (k + 1)) - n = k + 1
      BY <1>2
    <3>2. PICK x : x = b[k + 1]
      OBVIOUS
    <3>3. ids[n + (k + 1)] = x
      BY <1>2, <3>1, <3>2
    <3>4. g[k + 1] = IF x \in DOMAIN ExpertBytes THEN Append(g[k], x) ELSE g[k]
      BY <1>1, <1>4, <3>1, <3>2 DEF Keeps
    <3>5. h[n + (k + 1)] = IF x \in DOMAIN ExpertBytes THEN Append(h[n + k], x) ELSE h[n + k]
      BY <1>2, <1>5, <3>1, <3>3 DEF Keeps
    <3>6. h[n + k] = f[n] \o g[k] /\ g[k] \in S
      BY <1>4, <2>2, <3>1
    <3>7. x \in DOMAIN ExpertBytes => Append(f[n] \o g[k], x) = f[n] \o Append(g[k], x)
      <4> SUFFICES ASSUME x \in DOMAIN ExpertBytes PROVE Append(f[n] \o g[k], x) = f[n] \o Append(g[k], x)
        OBVIOUS
      <4>1. f[n] \o g[k] \in S /\ <<x>> \in S
        BY <1>7, <3>6, ConcatProperties
      <4>2. Append(f[n] \o g[k], x) = (f[n] \o g[k]) \o <<x>> /\ Append(g[k], x) = g[k] \o <<x>>
        BY <3>6, <4>1, AppendIsConcat
      <4>3. (f[n] \o g[k]) \o <<x>> = f[n] \o (g[k] \o <<x>>)
        <5>1. PICK u \in S, v \in S, w \in S : u = f[n] /\ v = g[k] /\ w = <<x>>
          BY <1>7, <3>6, <4>1
        <5>2. (u \o v) \o w = u \o (v \o w)
          BY ConcatAssociative
        <5> QED BY <5>1, <5>2
      <4> QED BY <4>2, <4>3
    <3>8. h[n + (k + 1)] = f[n] \o g[k + 1]
      BY <3>4, <3>5, <3>6, <3>7
    <3> QED BY <3>1, <3>8
  <2> HIDE DEF T
  <2>3. \A k \in 0..l : k \in T
    BY <1>2, <2>1, <2>2, InductUpTo, Zenon
  <2> QED BY <2>3 DEF T
<1>9. l \in 0..l
    BY <1>2
<1> QED
    BY <1>1, <1>3, <1>4, <1>5, <1>7, <1>8, <1>9

LEMMA NoneKnown == Known(<<>>) = <<>>
<1>1. <<>> \in Route /\ Len(<<>>) = 0
    BY EmptySeq DEF Route
<1>2. PICK f \in [0..Len(<<>>) -> Seq(DOMAIN ExpertBytes)] : Keeps(f, <<>>) /\ Known(<<>>) = f[Len(<<>>)]
    BY <1>1, KnownIs
<1> QED
    BY <1>1, <1>2 DEF Keeps

(* The requests of the first so many lines, around the end of the trace. *)
RouteAt(i) == trace[((i - 1) % Len(trace)) + 1].experts
Asks(f, count) ==
    /\ f[0] = <<>>
    /\ \A i \in 1..count : f[i] = f[i - 1] \o Known(RouteAt(i))

LEMMA RouteAtIs ==
    ASSUME trace \in Seq(Line), trace # <<>>, NEW i \in Nat, i # 0
    PROVE  RouteAt(i) \in Route /\ ((i - 1) % Len(trace)) + 1 \in 1..Len(trace)
<1>1. PICK n, k : n = Len(trace) /\ k = i - 1
    OBVIOUS
<1>2. n \in Nat \ {0} /\ k \in Nat
    BY <1>1, LenProperties, EmptySeq
<1>3. k % n \in 0..n - 1
    BY <1>2, DivMod
<1>4. (k % n) + 1 \in 1..n
  <2>1. PICK r \in 0..n - 1 : r = k % n
    BY <1>3
  <2> QED BY <1>2, <2>1
<1>5. trace[(k % n) + 1] \in Line
    BY <1>1, <1>4, ElementOfSeq
<1> QED
    BY <1>1, <1>4, <1>5 DEF RouteAt, Line

LEMMA AskedByIs ==
    ASSUME trace \in Seq(Line), trace # <<>>, NEW n \in Nat
    PROVE  \E f \in [0..n -> Seq(DOMAIN ExpertBytes)] : Asks(f, n) /\ AskedBy(n) = f[n]
<1> DEFINE S == Seq(DOMAIN ExpertBytes)
           More(k, i) == k \o Known(RouteAt(i))
           F == [x \in (1..n) \X S |-> More(x[2], x[1])]
           asked[i \in 0..n] ==
               IF i = 0 THEN <<>> ELSE asked[i - 1] \o Known(trace[((i - 1) % Len(trace)) + 1].experts)
<1>1. <<>> \in S
    BY EmptySeq
<1>2. \A i \in 1..n, k \in S : More(k, i) \in S
  <2> SUFFICES ASSUME NEW i \in 1..n, NEW k \in S PROVE More(k, i) \in S
    OBVIOUS
  <2>1. RouteAt(i) \in Route
    BY RouteAtIs
  <2>2. Known(RouteAt(i)) \in S
    BY <2>1, KnownJoins
  <2> QED BY <2>2, ConcatProperties
<1>3. F \in [(1..n) \X S -> S] /\ \A i \in 1..n, k \in S : F[<<i, k>>] = More(k, i)
    BY <1>2
<1> HIDE DEF F
<1>4. PICK f \in [0..n -> S] : Iterates(f, n, <<>>, F)
    BY <1>1, <1>3, Iterate
<1>5. ASSUME NEW i \in 1..n PROVE f[i] = More(f[i - 1], i)
  <2>1. i - 1 \in 0..n
    OBVIOUS
  <2>2. f[i - 1] \in S
    BY <1>4, <2>1
  <2>3. f[i] = F[<<i, f[i - 1]>>]
    BY <1>4 DEF Iterates
  <2> HIDE DEF More, S
  <2> QED BY <1>3, <2>2, <2>3
<1>6. f[0] = <<>>
    BY <1>4 DEF Iterates
<1>7. \A i \in 0..n : f[i] = IF i = 0 THEN <<>> ELSE More(f[i - 1], i)
  <2> TAKE i \in 0..n
  <2>1. i # 0 => i \in 1..n
    OBVIOUS
  <2> HIDE DEF More
  <2> QED BY <1>5, <1>6, <2>1, Zenon
<1>8. f = [i \in 0..n |-> IF i = 0 THEN <<>>
                          ELSE f[i - 1] \o Known(trace[((i - 1) % Len(trace)) + 1].experts)]
    BY <1>4, <1>7 DEF RouteAt
<1>9. asked = [i \in 0..n |-> IF i = 0 THEN <<>>
                              ELSE asked[i - 1] \o Known(trace[((i - 1) % Len(trace)) + 1].experts)]
  <2>1. \E g : g = [i \in 0..n |-> IF i = 0 THEN <<>>
                                   ELSE g[i - 1] \o Known(trace[((i - 1) % Len(trace)) + 1].experts)]
    BY <1>8
  <2> QED BY <2>1
<1>10. AskedBy(n) = asked[n]
    BY DEF AskedBy
<1> HIDE DEF asked
<1>11. \A i \in 0..n : asked[i] = IF i = 0 THEN <<>> ELSE More(asked[i - 1], i)
    BY <1>9 DEF RouteAt
<1>12. \A i \in 0..n : asked[i] = f[i]
  <2> DEFINE T == {i \in 0..n : asked[i] = f[i]}
  <2> HIDE DEF More
  <2>1. 0 \in T
    BY <1>6, <1>11
  <2>2. ASSUME NEW i \in 0..n - 1, i \in T PROVE i + 1 \in T
    <3>1. i + 1 \in 1..n /\ i + 1 \in 0..n /\ i + 1 # 0 /\ (i + 1) - 1 = i
      OBVIOUS
    <3> QED BY <1>5, <1>11, <2>2, <3>1
  <2> HIDE DEF T
  <2>3. \A i \in 0..n : i \in T
    BY <2>1, <2>2, InductUpTo, Zenon
  <2> QED BY <2>3 DEF T
<1>13. n \in 0..n
    OBVIOUS
<1>14. Asks(f, n)
    BY <1>5, <1>6 DEF Asks
<1> QED
    BY <1>4, <1>10, <1>12, <1>13, <1>14

(* One line more asks for its experts too. *)
LEMMA AskedStep ==
    ASSUME trace \in Seq(Line), trace # <<>>, NEW n \in Nat
    PROVE  /\ AskedBy(n + 1) = AskedBy(n) \o Known(RouteAt(n + 1))
           /\ AskedBy(n) \in Seq(DOMAIN ExpertBytes) /\ AskedBy(0) = <<>>
<1>1. PICK f \in [0..n -> Seq(DOMAIN ExpertBytes)] : Asks(f, n) /\ AskedBy(n) = f[n]
    BY AskedByIs
<1>2. n + 1 \in Nat /\ 0 \in Nat
    OBVIOUS
<1>3. PICK g \in [0..n + 1 -> Seq(DOMAIN ExpertBytes)] : Asks(g, n + 1) /\ AskedBy(n + 1) = g[n + 1]
    BY <1>2, AskedByIs
<1>4. PICK z \in [0..0 -> Seq(DOMAIN ExpertBytes)] : Asks(z, 0) /\ AskedBy(0) = z[0]
    BY <1>2, AskedByIs
<1>5. \A i \in 0..n : g[i] = f[i]
  <2> DEFINE T == {i \in 0..n : g[i] = f[i]}
  <2>1. 0 \in T
    BY <1>1, <1>3 DEF Asks
  <2>2. ASSUME NEW i \in 0..n - 1, i \in T PROVE i + 1 \in T
    <3>1. i + 1 \in 1..n /\ i + 1 \in 1..n + 1 /\ i + 1 \in 0..n /\ (i + 1) - 1 = i
      OBVIOUS
    <3> QED BY <1>1, <1>3, <2>2, <3>1 DEF Asks
  <2> HIDE DEF T
  <2>3. \A i \in 0..n : i \in T
    BY <2>1, <2>2, InductUpTo, Zenon
  <2> QED BY <2>3 DEF T
<1>6. n + 1 \in 1..n + 1 /\ (n + 1) - 1 = n /\ n \in 0..n
    OBVIOUS
<1>7. g[n + 1] = g[n] \o Known(RouteAt(n + 1))
    BY <1>3, <1>6 DEF Asks
<1> QED
    BY <1>1, <1>3, <1>4, <1>5, <1>6, <1>7 DEF Asks

(* Where the trace stands after so many layer steps, and what they asked for. *)
CursorAt(s) ==
    IF rewind THEN (IF s = 0 THEN 0 ELSE ((s - 1) % Len(trace)) + 1)
    ELSE IF s <= Len(trace) THEN s ELSE Len(trace)
AskedIn(s) == AskedBy(IF rewind \/ s < Len(trace) THEN s ELSE Len(trace))

LEMMA NextCursor ==
    ASSUME trace \in Seq(Line), trace # <<>>, NEW s \in Nat
    PROVE  /\ NextRoute(CursorAt(s))[1] = CursorAt(s + 1)
           /\ AskedIn(s + 1) = AskedIn(s) \o Known(NextRoute(CursorAt(s))[2])
<1>1. PICK n, u, r : n = Len(trace) /\ u = s % n /\ r = RouteAt(s + 1)
    OBVIOUS
<1>2. n \in Nat \ {0}
    BY <1>1, LenProperties, EmptySeq
<1>3. u \in 0..n - 1
    BY <1>1, <1>2, DivMod
<1>4. (s + 1) - 1 = s /\ s + 1 # 0 /\ s + 1 \in Nat
    OBVIOUS
<1>5. r = trace[u + 1].experts
    BY <1>1, <1>4 DEF RouteAt
<1>6. AskedBy(s + 1) = AskedBy(s) \o Known(r)
    BY <1>1, AskedStep
<1>7. CASE rewind
  <2>1. CursorAt(s + 1) = u + 1 /\ AskedIn(s) = AskedBy(s) /\ AskedIn(s + 1) = AskedBy(s + 1)
    BY <1>1, <1>4, <1>7 DEF CursorAt, AskedIn
  <2>2. (CursorAt(s) = u /\ u < n) \/ (CursorAt(s) = n /\ u = 0)
    <3>1. CASE s = 0
      <4>1. 0 = 0 * n + 0 /\ 0 \in 0..n - 1 /\ 0 \in Nat
        BY <1>2
      <4>2. u = 0
        BY <1>1, <1>2, <3>1, <4>1, DivModIs
      <4>3. CursorAt(s) = 0
        BY <1>7, <3>1 DEF CursorAt
      <4> QED BY <1>2, <4>2, <4>3
    <3>2. CASE s # 0
      <4>1. PICK t \in Nat : t = s - 1
        BY <3>2
      <4>2. PICK v : v = t % n
        OBVIOUS
      <4>3. v \in 0..n - 1 /\ t + 1 = s
        BY <1>2, <4>1, <4>2, DivMod
      <4>4. (u = 0 => v = n - 1) /\ (u # 0 => u = v + 1)
        BY <1>1, <1>2, <4>2, <4>3, DivStep
      <4>5. CursorAt(s) = v + 1
        BY <1>1, <1>7, <3>2, <4>1, <4>2 DEF CursorAt
      <4> QED BY <1>2, <1>3, <4>3, <4>4, <4>5
    <3> QED BY <3>1, <3>2
  <2>3. NextRoute(CursorAt(s)) = <<u + 1, r>>
    <3>1. CASE CursorAt(s) = u /\ u < n
      BY <1>1, <1>5, <3>1 DEF NextRoute
    <3>2. CASE CursorAt(s) = n /\ u = 0
      <4>1. ~(n < n) /\ u + 1 = 1
        BY <1>2, <3>2
      <4> QED BY <1>1, <1>5, <1>7, <3>2, <4>1 DEF NextRoute
    <3> QED BY <2>2, <3>1, <3>2
  <2> QED BY <1>6, <2>1, <2>3
<1>8. CASE ~rewind /\ s < n
  <2>1. s \in 0..n - 1 /\ s = 0 * n + s /\ 0 \in Nat
    BY <1>2, <1>8
  <2>2. u = s
    BY <1>1, <1>2, <2>1, DivModIs
  <2>3. s <= n /\ s + 1 <= n
    BY <1>2, <1>8
  <2>4. CursorAt(s) = s /\ CursorAt(s + 1) = s + 1
    BY <1>1, <1>8, <2>3 DEF CursorAt
  <2>5. NextRoute(CursorAt(s)) = <<s + 1, r>>
    BY <1>1, <1>5, <1>8, <2>2, <2>4 DEF NextRoute
  <2>6. AskedIn(s) = AskedBy(s)
    BY <1>1, <1>8 DEF AskedIn
  <2>7. AskedIn(s + 1) = AskedBy(s + 1)
    <3>1. ~(s + 1 < n) => n = s + 1
      BY <1>2, <2>3
    <3> QED BY <1>1, <1>8, <3>1 DEF AskedIn
  <2> QED BY <1>6, <2>4, <2>5, <2>6, <2>7
<1>9. CASE ~rewind /\ ~(s < n)
  <2>1. ~(s + 1 < n) /\ ~(s + 1 <= n) /\ (s <= n => s = n) /\ ~(n < n)
    BY <1>2, <1>9
  <2>2. CursorAt(s) = n /\ CursorAt(s + 1) = n
    BY <1>1, <1>9, <2>1 DEF CursorAt
  <2>3. AskedIn(s) = AskedBy(n) /\ AskedIn(s + 1) = AskedBy(n)
    BY <1>1, <1>9, <2>1 DEF AskedIn
  <2>4. NextRoute(CursorAt(s)) = <<n, <<>>>>
    BY <1>1, <1>9, <2>1, <2>2 DEF NextRoute
  <2>5. AskedBy(n) \in Seq(DOMAIN ExpertBytes)
    BY <1>2, AskedStep
  <2>6. AskedBy(n) \o <<>> = AskedBy(n)
    BY <2>5, ConcatEmptySeq
  <2>7. PICK o : o = NextRoute(CursorAt(s))
    OBVIOUS
  <2>8. o[1] = n /\ o[2] = <<>>
    BY <2>4, <2>7
  <2>9. Known(o[2]) = <<>>
    BY <2>8, NoneKnown
  <2>10. AskedIn(s + 1) = AskedIn(s) \o Known(o[2])
    BY <2>3, <2>6, <2>9
  <2> QED BY <2>2, <2>7, <2>8, <2>10
<1> QED
    BY <1>7, <1>8, <1>9

LEMMA AskedInIs ==
    ASSUME trace \in Seq(Line), trace # <<>>, NEW s \in Nat
    PROVE  AskedIn(s) \in Seq(DOMAIN ExpertBytes)
<1>1. Len(trace) \in Nat
    BY LenProperties
<1> QED
    BY <1>1, AskedStep DEF AskedIn

(* A token moves the trace on by one step for each layer. *)
LEMMA TokenAsked ==
    ASSUME trace \in Seq(Line), trace # <<>>, NEW s \in Nat, cursor = CursorAt(s),
           cursor \in 0..Len(trace), NEW routes \in RoutesOfToken
    PROVE  /\ routes.at = CursorAt(s + Layers)
           /\ AskedIn(s + Layers) = AskedIn(s) \o Known(routes.experts)
<1> DEFINE answers == [l \in 1..Layers |-> NextRoute(Cursors[l - 1])[2]]
<1>1. Layers \in Nat
    BY SessionAssumption
<1>2. /\ \A l \in 0..Layers : Cursors[l] \in 0..Len(trace)
      /\ Cursors[0] = cursor /\ \A l \in 1..Layers : Cursors[l] = NextRoute(Cursors[l - 1])[1]
    BY CursorsAre
<1>3. answers \in [1..Layers -> Route] /\ \A l \in 1..Layers : answers[l] = NextRoute(Cursors[l - 1])[2]
  <2>1. ASSUME NEW l \in 1..Layers PROVE NextRoute(Cursors[l - 1])[2] \in Route
    <3>1. l - 1 \in 0..Layers
      BY <1>1
    <3> QED BY <1>2, <3>1, NextRouteIs
  <2> QED BY <2>1
<1>4. routes.at = Cursors[Layers] /\ routes.experts = InOrder(answers)
    BY DEF RoutesOfToken, TraceRoutes
<1> HIDE DEF answers
<1>5. PICK f \in [0..Layers -> Route] : /\ f[0] = <<>> /\ \A l \in 1..Layers : f[l] = f[l - 1] \o answers[l]
                                        /\ InOrder(answers) = f[Layers]
    BY <1>3, InOrderIs
<1> DEFINE T == {l \in 0..Layers : Cursors[l] = CursorAt(s + l) /\ AskedIn(s + l) = AskedIn(s) \o Known(f[l])}
<1>6. AskedIn(s) \in Seq(DOMAIN ExpertBytes)
    BY AskedInIs
<1>7. 0 \in T
  <2>1. s + 0 = s /\ 0 \in 0..Layers
    BY <1>1
  <2>2. AskedIn(s) = AskedIn(s) \o <<>>
    BY <1>6, ConcatEmptySeq
  <2> QED BY <1>2, <1>5, <2>1, <2>2, NoneKnown
<1>8. ASSUME NEW l \in 0..Layers - 1, l \in T PROVE l + 1 \in T
  <2>1. l + 1 \in 0..Layers /\ l + 1 \in 1..Layers /\ (l + 1) - 1 = l /\ l \in 0..Layers /\ l \in Nat
    BY <1>1
  <2>2. s + l \in Nat /\ s + (l + 1) = (s + l) + 1
    BY <2>1
  <2>3. Cursors[l] = CursorAt(s + l) /\ AskedIn(s + l) = AskedIn(s) \o Known(f[l])
    BY <1>8
  <2>4. Cursors[l + 1] = NextRoute(Cursors[l])[1] /\ answers[l + 1] = NextRoute(Cursors[l])[2]
    BY <1>2, <1>3, <2>1
  <2>5. /\ NextRoute(CursorAt(s + l))[1] = CursorAt((s + l) + 1)
        /\ AskedIn((s + l) + 1) = AskedIn(s + l) \o Known(NextRoute(CursorAt(s + l))[2])
    BY <2>2, NextCursor
  <2>6. f[l + 1] = f[l] \o answers[l + 1] /\ f[l] \in Route /\ answers[l + 1] \in Route
    BY <1>3, <1>5, <2>1
  <2>7. /\ Known(f[l + 1]) = Known(f[l]) \o Known(answers[l + 1])
        /\ Known(f[l]) \in Seq(DOMAIN ExpertBytes) /\ Known(answers[l + 1]) \in Seq(DOMAIN ExpertBytes)
    BY <2>6, KnownJoins
  <2>8. (AskedIn(s) \o Known(f[l])) \o Known(answers[l + 1])
            = AskedIn(s) \o (Known(f[l]) \o Known(answers[l + 1]))
    <3>1. PICK a, b, c \in Seq(DOMAIN ExpertBytes) :
              a = AskedIn(s) /\ b = Known(f[l]) /\ c = Known(answers[l + 1])
      BY <1>6, <2>7
    <3>2. (a \o b) \o c = a \o (b \o c)
      BY ConcatAssociative
    <3> QED BY <3>1, <3>2
  <2>9. Cursors[l + 1] = CursorAt(s + (l + 1))
    BY <2>2, <2>3, <2>4, <2>5
  <2>10. AskedIn(s + (l + 1)) = AskedIn(s) \o Known(f[l + 1])
    BY <2>2, <2>3, <2>4, <2>5, <2>7, <2>8
  <2> QED BY <2>1, <2>9, <2>10
<1> HIDE DEF T
<1>9. \A l \in 0..Layers : l \in T
    BY <1>1, <1>7, <1>8, InductUpTo, Zenon
<1>10. Layers \in 0..Layers
    BY <1>1
<1>11. Cursors[Layers] = CursorAt(s + Layers) /\ AskedIn(s + Layers) = AskedIn(s) \o Known(f[Layers])
    BY <1>9, <1>10 DEF T
<1> QED
    BY <1>4, <1>5, <1>11

(* Between tokens the slot cache is what the accesses made of it, and they
   are the requests of the lines the trace has given.                        *)
AskedInv ==
    /\ WeightsInv /\ position \in Nat /\ Played(cache, accesses)
    /\ trace # <<>> =>
           \E s \in Nat : s = position * Layers /\ cursor = CursorAt(s) /\ accesses = AskedIn(s)

LEMMA AskedInit == FInit => AskedInv
<1> SUFFICES ASSUME FInit PROVE AskedInv
    OBVIOUS
<1>1. WeightsInv /\ position = 0 /\ cursor = 0 /\ cache = NoSlots /\ accesses = <<>>
    BY WeightsInit DEF FInit
<1>2. Played(cache, accesses)
  <2> DEFINE p == [k \in {0} |-> NoSlots]
  <2>1. Len(accesses) = 0
    BY <1>1, EmptySeq
  <2>2. Accessed(p, accesses) /\ p[Len(accesses)] = cache
    BY <1>1, <2>1 DEF Accessed
  <2> HIDE DEF p
  <2> QED BY <2>2 DEF Played
<1>3. ASSUME trace # <<>>
      PROVE  0 = position * Layers /\ cursor = CursorAt(0) /\ accesses = AskedIn(0)
  <2>1. trace \in Seq(Line)
    BY <1>1 DEF WeightsInv
  <2>2. PICK n : n = Len(trace)
    OBVIOUS
  <2>3. n \in Nat \ {0}
    BY <1>3, <2>1, <2>2, LenProperties, EmptySeq
  <2>4. 0 < n /\ 0 <= n /\ 0 \in Nat
    BY <2>3
  <2>5. cursor = CursorAt(0)
    BY <1>1, <2>2, <2>4 DEF CursorAt
  <2>6. accesses = AskedIn(0)
    BY <1>1, <1>3, <2>1, <2>2, <2>4, AskedStep DEF AskedIn
  <2>7. 0 = position * Layers
    BY <1>1, SessionAssumption
  <2> QED BY <2>5, <2>6, <2>7
<1>4. position \in Nat /\ 0 \in Nat
    BY <1>1
<1> QED
    BY <1>1, <1>2, <1>3, <1>4 DEF AskedInv

LEMMA TraceStays ==
    ASSUME trace' = trace, rewind' = rewind, NEW s
    PROVE  CursorAt(s)' = CursorAt(s) /\ AskedIn(s)' = AskedIn(s)
    BY DEF CursorAt, AskedIn, AskedBy

LEMMA AskedToken ==
    ASSUME AskedInv, NEW routes \in RoutesOfToken, ExecuteLayers(routes), trace' = trace, rewind' = rewind,
           position' = position + 1
    PROVE  AskedInv'
<1>1. WeightsInv /\ position \in Nat /\ Played(cache, accesses)
    BY DEF AskedInv
<1>2. WeightsInv'
    BY <1>1, WeightsToken
<1>3. routes.at \in 0..Len(trace) /\ routes.experts \in Route
    BY <1>1, RoutesAre DEF WeightsInv
<1>4. /\ cursor' = routes.at /\ accesses' = accesses \o Known(routes.experts)
      /\ Played(cache', accesses')
    BY <1>1, <1>3, Executed DEF WeightsInv
<1>5. position' \in Nat
    BY <1>1
<1>6. ASSUME trace' # <<>>
      PROVE  \E s \in Nat : s = position' * Layers /\ cursor' = CursorAt(s)' /\ accesses' = AskedIn(s)'
  <2>1. PICK s \in Nat : s = position * Layers /\ cursor = CursorAt(s) /\ accesses = AskedIn(s)
    BY <1>6 DEF AskedInv
  <2>2. trace \in Seq(Line) /\ cursor \in 0..Len(trace) /\ trace # <<>>
    BY <1>1, <1>6 DEF WeightsInv
  <2>3. /\ routes.at = CursorAt(s + Layers)
        /\ AskedIn(s + Layers) = AskedIn(s) \o Known(routes.experts)
    BY <2>1, <2>2, TokenAsked
  <2>4. PICK t \in Nat : t = s + Layers
    BY SessionAssumption
  <2>5. t = position' * Layers
    BY <1>1, <2>1, <2>4, SessionAssumption
  <2>6. CursorAt(t)' = CursorAt(t) /\ AskedIn(t)' = AskedIn(t)
    BY TraceStays
  <2>7. cursor' = CursorAt(t)' /\ accesses' = AskedIn(t)'
    BY <1>4, <2>1, <2>3, <2>4, <2>6
  <2> QED BY <2>5, <2>7
<1>7. Played(cache, accesses)'
    BY <1>4 DEF Played, Accessed
<1> QED
    BY <1>2, <1>5, <1>6, <1>7 DEF AskedInv

LEMMA AskedStands ==
    ASSUME AskedInv, UNCHANGED <<trace, rewind, position, cursor, cache, materialized, device, accesses>>
    PROVE  AskedInv'
<1>1. WeightsInv' /\ position' \in Nat
    BY WeightsStand DEF AskedInv
<1>2. Played(cache, accesses)'
    BY DEF AskedInv, Played, Accessed
<1>3. ASSUME trace' # <<>>
      PROVE  \E s \in Nat : s = position' * Layers /\ cursor' = CursorAt(s)' /\ accesses' = AskedIn(s)'
  <2>1. PICK s \in Nat : s = position * Layers /\ cursor = CursorAt(s) /\ accesses = AskedIn(s)
    BY <1>3 DEF AskedInv
  <2>2. CursorAt(s)' = CursorAt(s) /\ AskedIn(s)' = AskedIn(s)
    BY TraceStays
  <2> QED BY <2>1, <2>2
<1> QED
    BY <1>1, <1>2, <1>3 DEF AskedInv

LEMMA AskedNext == AskedInv /\ [FNext]_fvars => AskedInv'
<1> SUFFICES ASSUME AskedInv, [FNext]_fvars PROVE AskedInv'
    OBVIOUS
<1>1. CASE CreateSession
    BY <1>1, AskedStands DEF CreateSession, Unchanged
<1>2. CASE ContinueSession
    BY <1>2, AskedStands DEF ContinueSession, Unchanged
<1>3. CASE PrefillToken
    BY <1>3, AskedToken DEF PrefillToken
<1>4. CASE PrefillEnds
    BY <1>4, AskedStands DEF PrefillEnds, Unchanged
<1>5. CASE DecodeToken
    BY <1>5, AskedToken DEF DecodeToken
<1>6. CASE GenerateEnds
    BY <1>6, AskedStands DEF GenerateEnds, Unchanged
<1>7. CASE EngineThrows
    BY <1>7, AskedStands DEF EngineThrows
<1>8. CASE UNCHANGED fvars
    BY <1>8, AskedStands DEF fvars
<1> QED
    BY <1>1, <1>2, <1>3, <1>4, <1>5, <1>6, <1>7, <1>8 DEF FNext

(* For any trace, router, manifest and budget that no expert alone exceeds:
   the slots the engine computes from are the experts the simulated LRU cache
   holds after the requests of the trace, with the same bytes and hits, and
   each request was a hit or a promotion (touch_or_promote, ExpertCache).    *)
THEOREM SlotCacheIsLruAlways == FSpec => []SlotCacheIsLru
<1>1. AskedInv => SlotCacheIsLru
  <2> SUFFICES ASSUME AskedInv, \A id \in DOMAIN ExpertBytes : ExpertBytes[id] <= Capacity
               PROVE  LET lru == Simulate(AnyOrder, "lru", Capacity, ExpertRequests(ExpertBytes))
                      IN  /\ Resident(lru) = Slots(cache) /\ lru.used = cache.used
                          /\ lru.hits = cache.hits /\ Len(Asked) = cache.hits + cache.promotions
    BY DEF SlotCacheIsLru
  <2>1. accesses \in Seq(DOMAIN ExpertBytes)
    <3>1. Engine \in EngineType /\ Engine.accesses = accesses
      BY DEF AskedInv, WeightsInv, Engines, Engine
    <3> QED BY <3>1 DEF EngineType
  <2>2. Asked = accesses
    <3>1. CASE trace = <<>>
      BY <3>1 DEF Asked
    <3>2. CASE trace # <<>>
      <4>1. PICK s \in Nat : s = position * Layers /\ cursor = CursorAt(s) /\ accesses = AskedIn(s)
        BY <3>2 DEF AskedInv
      <4> QED BY <3>2, <4>1 DEF Asked, AskedIn
    <3> QED BY <3>1, <3>2
  <2> DEFINE reqs == ExpertRequests(ExpertBytes)
  <2>3. Predicts(reqs, accesses)
    <3>1. reqs = [i \in DOMAIN accesses |-> [id |-> accesses[i], layer |-> LayerOf[accesses[i]],
                                             bytes |-> ExpertBytes[accesses[i]], step |-> i - 1]]
      BY <2>2 DEF ExpertRequests
    <3>2. Len(accesses) \in Nat /\ DOMAIN accesses = 1..Len(accesses)
      BY <2>1, LenProperties
    <3>3. DOMAIN reqs = 1..Len(accesses)
      BY <3>1, <3>2
    <3>4. Len(reqs) = Len(accesses)
      BY <3>2, <3>3
    <3>5. \A k \in 1..Len(accesses) :
              reqs[k].id = accesses[k] /\ reqs[k].bytes = ExpertBytes[accesses[k]] /\ reqs[k].step = k - 1
      BY <3>1, <3>2
    <3> QED BY <3>4, <3>5 DEF Predicts
  <2> HIDE DEF reqs
  <2>4. PICK p : Accessed(p, accesses) /\ p[Len(accesses)] = cache
    BY DEF AskedInv, Played
  <2>5. Twin(cache, Simulate(AnyOrder, "lru", Capacity, reqs)) /\ cache.clock = Len(accesses)
    BY <2>1, <2>3, <2>4, SimulatedTwin
  <2> QED BY <2>2, <2>5 DEF Twin, reqs
<1> QED
    BY AskedInit, AskedNext, <1>1, PTL DEF FSpec

-----------------------------------------------------------------------------
(* The printer. *)
Char == STRING \cup {"<", "/", "t", ">", "n"}
Chars == Seq(Char)
Printer == [format : BOOLEAN, thinking : BOOLEAN, newline : BOOLEAN, pending : Chars,
            out : Seq(Char \X BOOLEAN), text : Chars]

LEMMA Associates ==
    ASSUME NEW a \in Chars, NEW b \in Chars, NEW c \in Chars
    PROVE  (a \o b) \o c = a \o (b \o c)
BY ConcatAssociative DEF Chars

(* A cut out of a sequence, and two sequences joined. *)
LEMMA CutIs ==
    ASSUME NEW S, NEW s \in Seq(S), NEW a \in Nat \ {0}, NEW b \in Nat, b <= Len(s), a <= b + 1
    PROVE  /\ SubSeq(s, a, b) \in Seq(S) /\ Len(SubSeq(s, a, b)) = b + 1 - a
           /\ \A i \in 1..(b + 1 - a) : SubSeq(s, a, b)[i] = s[a + i - 1]
<1>1. Len(s) \in Nat /\ \A i \in 1..Len(s) : s[i] \in S
    BY LenProperties, ElementOfSeq
<1>2. \A i \in a..b : s[i] \in S
    BY <1>1
<1>3. a \in Int /\ b \in Int
    OBVIOUS
<1>4. /\ SubSeq(s, a, b) \in Seq(S) /\ Len(SubSeq(s, a, b)) = IF a <= b THEN b - a + 1 ELSE 0
      /\ \A i \in 1..(b - a + 1) : SubSeq(s, a, b)[i] = s[a + i - 1]
    BY <1>2, <1>3, SubSeqProperties
<1>5. b - a + 1 = b + 1 - a /\ (~(a <= b) => b + 1 - a = 0)
    OBVIOUS
<1> QED
    BY <1>4, <1>5

LEMMA JoinIs ==
    ASSUME NEW S, NEW s \in Seq(S), NEW t \in Seq(S)
    PROVE  /\ s \o t \in Seq(S) /\ Len(s \o t) = Len(s) + Len(t)
           /\ Len(s) \in Nat /\ Len(t) \in Nat
           /\ \A i \in 1..Len(s) : (s \o t)[i] = s[i]
           /\ \A i \in 1..Len(t) : (s \o t)[Len(s) + i] = t[i]
<1>1. Len(s) \in Nat /\ Len(t) \in Nat
    BY LenProperties
<1>2. /\ s \o t \in Seq(S) /\ Len(s \o t) = Len(s) + Len(t)
      /\ \A i \in 1..(Len(s) + Len(t)) : (s \o t)[i] = IF i <= Len(s) THEN s[i] ELSE t[i - Len(s)]
    BY ConcatProperties
<1>3. \A i \in 1..Len(s) : i \in 1..(Len(s) + Len(t)) /\ i <= Len(s)
    BY <1>1
<1>4. \A i \in 1..Len(t) : /\ Len(s) + i \in 1..(Len(s) + Len(t)) /\ ~(Len(s) + i <= Len(s))
                          /\ (Len(s) + i) - Len(s) = i
    BY <1>1
<1> QED
    BY <1>1, <1>2, <1>3, <1>4

(* What is pending is cut behind a tag. *)
LEMMA BehindIs ==
    ASSUME NEW chars \in Chars, NEW n \in 1..Len(chars)
    PROVE  /\ Behind(chars, n) \in Chars /\ Len(Behind(chars, n)) = Len(chars) - n
           /\ \A i \in 1..(Len(chars) - n) : Behind(chars, n)[i] = chars[n + i]
<1>1. Len(chars) \in Nat /\ chars \in Seq(Char)
    BY LenProperties DEF Chars
<1>2. n + 1 \in Nat \ {0} /\ Len(chars) <= Len(chars) /\ n + 1 <= Len(chars) + 1
    BY <1>1
<1>3. /\ SubSeq(chars, n + 1, Len(chars)) \in Seq(Char)
      /\ Len(SubSeq(chars, n + 1, Len(chars))) = Len(chars) + 1 - (n + 1)
      /\ \A i \in 1..(Len(chars) + 1 - (n + 1)) :
             SubSeq(chars, n + 1, Len(chars))[i] = chars[(n + 1) + i - 1]
    BY <1>1, <1>2, CutIs
<1>4. Len(chars) + 1 - (n + 1) = Len(chars) - n /\ \A i \in 1..(Len(chars) - n) : (n + 1) + i - 1 = n + i
    BY <1>1
<1> QED
    BY <1>3, <1>4 DEF Behind, Chars

(* Text that comes later stands behind what is pending. *)
LEMMA BehindLonger ==
    ASSUME NEW chars \in Chars, NEW more \in Chars, NEW n \in 1..Len(chars)
    PROVE  Behind(chars \o more, n) = Behind(chars, n) \o more
<1>1. chars \in Seq(Char) /\ more \in Seq(Char)
    BY DEF Chars
<1>2. /\ chars \o more \in Seq(Char) /\ Len(chars \o more) = Len(chars) + Len(more)
      /\ Len(chars) \in Nat /\ Len(more) \in Nat
      /\ \A i \in 1..Len(chars) : (chars \o more)[i] = chars[i]
      /\ \A i \in 1..Len(more) : (chars \o more)[Len(chars) + i] = more[i]
    BY <1>1, JoinIs
<1> DEFINE a == Behind(chars, n)
           b == Behind(chars \o more, n)
<1>3. a \in Seq(Char) /\ Len(a) = Len(chars) - n /\ \A i \in 1..(Len(chars) - n) : a[i] = chars[n + i]
    BY BehindIs, Zenon DEF Chars
<1>4. n \in 1..Len(chars \o more) /\ chars \o more \in Chars
    BY <1>2 DEF Chars
<1>5. /\ b \in Seq(Char) /\ Len(b) = Len(chars \o more) - n
      /\ \A i \in 1..(Len(chars \o more) - n) : b[i] = (chars \o more)[n + i]
    BY <1>4, BehindIs, Zenon DEF Chars
<1> HIDE DEF a, b
<1>6. /\ a \o more \in Seq(Char) /\ Len(a \o more) = Len(a) + Len(more)
      /\ \A i \in 1..Len(a) : (a \o more)[i] = a[i]
      /\ \A i \in 1..Len(more) : (a \o more)[Len(a) + i] = more[i]
  <2>1. a \in Seq(Char) /\ more \in Seq(Char)
    BY <1>1, <1>3
  <2> QED BY <2>1, JoinIs
<1>7. Len(b) = Len(a \o more)
    BY <1>2, <1>3, <1>5, <1>6
<1>8. ASSUME NEW i \in 1..Len(b) PROVE b[i] = (a \o more)[i]
  <2>0. i \in Nat /\ i >= 1 /\ i <= Len(chars) + Len(more) - n /\ n \in Nat /\ n <= Len(chars)
    BY <1>2, <1>5
  <2>1. b[i] = (chars \o more)[n + i]
    BY <1>5, <1>8
  <2>2. CASE i <= Len(chars) - n
    <3>1. i \in 1..(Len(chars) - n) /\ n + i \in 1..Len(chars) /\ i \in 1..Len(a)
      BY <1>2, <1>3, <2>0, <2>2
    <3> QED BY <1>2, <1>3, <1>6, <2>1, <3>1
  <2>3. CASE ~(i <= Len(chars) - n)
    <3>1. PICK k : k = n + i - Len(chars)
      OBVIOUS
    <3>2. k \in 1..Len(more) /\ n + i = Len(chars) + k /\ i = Len(a) + k
      BY <1>2, <1>3, <2>0, <2>3, <3>1
    <3> QED BY <1>2, <1>6, <2>1, <3>2
  <2> QED BY <2>2, <2>3
<1>9. b = a \o more
    BY <1>5, <1>6, <1>7, <1>8, SeqEqual, Zenon
<1> QED
    BY <1>9 DEF a, b
Later(p, more) == [p EXCEPT !.pending = @ \o more]

(* Tags, read character by character. *)
LEMMA PrefixIs ==
    ASSUME NEW chars \in Chars, NEW tag \in Chars
    PROVE  /\ HasPrefix(chars, tag) <=> Len(tag) <= Len(chars) /\ \A i \in 1..Len(tag) : chars[i] = tag[i]
           /\ Len(chars) < Len(tag) /\ SubSeq(tag, 1, Len(chars)) = chars
                  <=> Len(chars) < Len(tag) /\ \A i \in 1..Len(chars) : tag[i] = chars[i]
<1>1. ASSUME NEW s \in Seq(Char), NEW t \in Seq(Char), Len(t) <= Len(s)
      PROVE  SubSeq(s, 1, Len(t)) = t <=> \A i \in 1..Len(t) : s[i] = t[i]
  <2>1. Len(t) \in Nat /\ Len(s) \in Nat /\ 1 \in Nat \ {0} /\ 1 <= Len(t) + 1
    BY LenProperties
  <2> DEFINE c == SubSeq(s, 1, Len(t))
  <2>2. /\ c \in Seq(Char) /\ Len(c) = Len(t) + 1 - 1
        /\ \A i \in 1..(Len(t) + 1 - 1) : c[i] = s[1 + i - 1]
    BY <1>1, <2>1, CutIs
  <2>3. Len(t) + 1 - 1 = Len(t) /\ \A i \in 1..Len(t) : 1 + i - 1 = i
    BY <2>1
  <2> HIDE DEF c
  <2>4. Len(c) = Len(t) /\ \A i \in 1..Len(t) : c[i] = s[i]
    BY <2>2, <2>3
  <2>5. ASSUME \A i \in 1..Len(t) : s[i] = t[i] PROVE c = t
    <3>1. \A i \in 1..Len(c) : c[i] = t[i]
      BY <2>4, <2>5
    <3> QED BY <2>2, <2>4, <3>1, SeqEqual, Zenon
  <2>6. c = t => \A i \in 1..Len(t) : s[i] = t[i]
    BY <2>4
  <2> QED BY <2>5, <2>6 DEF c
<1>2. Len(chars) \in Nat /\ Len(tag) \in Nat /\ chars \in Seq(Char) /\ tag \in Seq(Char)
    BY LenProperties DEF Chars
<1>3. HasPrefix(chars, tag) <=> Len(tag) <= Len(chars) /\ SubSeq(chars, 1, Len(tag)) = tag
    BY <1>2 DEF HasPrefix
<1>4. Len(tag) <= Len(chars) =>
          (SubSeq(chars, 1, Len(tag)) = tag <=> \A i \in 1..Len(tag) : chars[i] = tag[i])
    BY <1>1, <1>2
<1>5. Len(chars) <= Len(tag) =>
          (SubSeq(tag, 1, Len(chars)) = chars <=> \A i \in 1..Len(chars) : tag[i] = chars[i])
    BY <1>1, <1>2
<1>6. Len(chars) < Len(tag) => Len(chars) <= Len(tag)
    BY <1>2
<1> QED
    BY <1>3, <1>4, <1>5, <1>6, Zenon

(* Whether a tag is there does not change with the text that comes later,
   unless what is there may become one.                                     *)
LEMMA PrefixLonger ==
    ASSUME NEW chars \in Chars, NEW more \in Chars, NEW tag \in Chars
    PROVE  /\ HasPrefix(chars, tag) => HasPrefix(chars \o more, tag)
           /\ HasPrefix(chars \o more, tag) => HasPrefix(chars, tag)
                  \/ (Len(chars) < Len(tag) /\ SubSeq(tag, 1, Len(chars)) = chars)
<1>1. /\ chars \o more \in Seq(Char) /\ Len(chars \o more) = Len(chars) + Len(more)
      /\ Len(chars) \in Nat /\ Len(more) \in Nat
      /\ \A i \in 1..Len(chars) : (chars \o more)[i] = chars[i]
  <2>1. chars \in Seq(Char) /\ more \in Seq(Char)
    BY DEF Chars
  <2> QED BY <2>1, JoinIs
<1>2. chars \o more \in Chars /\ Len(tag) \in Nat
    BY <1>1, LenProperties DEF Chars
<1>3. HasPrefix(chars \o more, tag) <=>
          Len(tag) <= Len(chars \o more) /\ \A i \in 1..Len(tag) : (chars \o more)[i] = tag[i]
    BY <1>2, PrefixIs, Zenon
<1>4. HasPrefix(chars, tag) <=> Len(tag) <= Len(chars) /\ \A i \in 1..Len(tag) : chars[i] = tag[i]
    BY PrefixIs, Zenon
<1>5. Len(chars) < Len(tag) /\ SubSeq(tag, 1, Len(chars)) = chars
          <=> Len(chars) < Len(tag) /\ \A i \in 1..Len(chars) : tag[i] = chars[i]
    BY PrefixIs, Zenon
<1>6. CASE Len(tag) <= Len(chars)
  <2>1. \A i \in 1..Len(tag) : (chars \o more)[i] = chars[i]
    BY <1>1, <1>2, <1>6
  <2>2. Len(tag) <= Len(chars \o more)
    BY <1>1, <1>2, <1>6
  <2>3. HasPrefix(chars \o more, tag) <=> HasPrefix(chars, tag)
    BY <1>3, <1>4, <1>6, <2>1, <2>2
  <2> QED BY <2>3
<1>7. CASE ~(Len(tag) <= Len(chars))
  <2>1. Len(chars) < Len(tag) /\ \A i \in 1..Len(chars) : i \in 1..Len(tag)
    BY <1>1, <1>2, <1>7
  <2> QED BY <1>1, <1>3, <1>4, <1>5, <1>7, <2>1
<1> QED
    BY <1>6, <1>7

LEMMA TagsAre ==
    /\ ThinkTag \in Chars /\ Len(ThinkTag) = 3
    /\ EndThinkTag \in Chars /\ Len(EndThinkTag) = 4
<1>1. "<" \in Char /\ "/" \in Char /\ "t" \in Char /\ ">" \in Char
    BY DEF Char
<1> QED
    BY <1>1 DEF ThinkTag, EndThinkTag, Chars

(* What a round does. *)
Stuck(p) == p.pending = <<>> \/ Partial(p.pending)
LEMMA RoundIs ==
    ASSUME NEW p \in Printer, NEW finish \in BOOLEAN
    PROVE  /\ Round(p, finish) \in Printer
           /\ Round(p, finish).text = p.text /\ Round(p, finish).format = p.format
           /\ Len(Round(p, finish).pending) \in Nat
           /\ Len(Round(p, finish).pending) <= Len(p.pending)
           /\ finish /\ p.pending # <<>> => Len(Round(p, finish).pending) < Len(p.pending)
           /\ p.pending = <<>> => Round(p, finish) = p
<1> DEFINE c == p.pending
<1>1. /\ c \in Chars /\ c \in Seq(Char) /\ Len(c) \in Nat /\ p.out \in Seq(Char \X BOOLEAN)
      /\ p.text \in Chars /\ p.format \in BOOLEAN /\ p.thinking \in BOOLEAN /\ p.newline \in BOOLEAN
    BY LenProperties DEF Printer, Chars
<1>2. CASE c = <<>>
  <2>1. Round(p, finish) = p
    BY <1>2 DEF Round
  <2> QED BY <1>1, <1>2, <2>1
<1>3. CASE c # <<>> /\ HasPrefix(c, ThinkTag)
  <2> DEFINE d == Behind(c, Len(ThinkTag))
  <2>1. Len(ThinkTag) \in 1..Len(c)
    BY <1>1, <1>3, TagsAre DEF HasPrefix
  <2>2. d \in Chars /\ Len(d) = Len(c) - 3
    BY <1>1, <2>1, BehindIs, TagsAre, Zenon
  <2>3. Round(p, finish) = [p EXCEPT !.thinking = TRUE, !.pending = d]
    BY <1>3 DEF Round
  <2> HIDE DEF d
  <2>4. [p EXCEPT !.thinking = TRUE, !.pending = d] \in Printer
    BY <2>2 DEF Printer
  <2>5. Len(d) \in Nat /\ Len(d) < Len(c)
    BY <1>1, <2>1, <2>2, TagsAre
  <2>6. Round(p, finish).pending = d /\ Round(p, finish).text = p.text /\ Round(p, finish).format = p.format
    BY <2>3 DEF Printer
  <2> QED BY <1>1, <1>3, <2>3, <2>4, <2>5, <2>6
<1>4. CASE c # <<>> /\ ~HasPrefix(c, ThinkTag) /\ HasPrefix(c, EndThinkTag)
  <2> DEFINE d == Behind(c, Len(EndThinkTag))
             q == [p EXCEPT !.thinking = FALSE, !.pending = d]
  <2>1. Len(EndThinkTag) \in 1..Len(c)
    BY <1>1, <1>4, TagsAre DEF HasPrefix
  <2>2. d \in Chars /\ Len(d) = Len(c) - 4
    BY <1>1, <2>1, BehindIs, TagsAre, Zenon
  <2>3. Round(p, finish) = PutNewline(q)
    BY <1>4 DEF Round
  <2> HIDE DEF d
  <2>4. q \in Printer /\ q.pending = d /\ q.text = p.text /\ q.format = p.format
    BY <2>2 DEF Printer
  <2> HIDE DEF q
  <2>5. Len(d) \in Nat /\ Len(d) < Len(c)
    BY <1>1, <2>1, <2>2, TagsAre
  <2>6. PutNewline(q) \in Printer /\ PutNewline(q).pending = d /\ PutNewline(q).text = p.text
        /\ PutNewline(q).format = p.format
    <3>1. q.out \in Seq(Char \X BOOLEAN) /\ <<"n", FALSE>> \in Char \X BOOLEAN
      BY <2>4 DEF Printer, Char
    <3>2. Append(q.out, <<"n", FALSE>>) \in Seq(Char \X BOOLEAN)
      BY <3>1, AppendProperties
    <3> QED BY <2>4, <3>2 DEF PutNewline, Printer
  <2> QED BY <1>1, <1>4, <2>3, <2>5, <2>6
<1>5. CASE c # <<>> /\ ~HasPrefix(c, ThinkTag) /\ ~HasPrefix(c, EndThinkTag)
  <2>1. CASE ~finish /\ Partial(c)
    <3>1. Round(p, finish) = p
      BY <1>5, <2>1 DEF Round
    <3> QED BY <1>1, <1>5, <2>1, <3>1
  <2>2. CASE ~(~finish /\ Partial(c))
    <3> DEFINE o == Append(p.out, <<c[1], p.thinking>>)
               t == Tail(c)
    <3>1. Round(p, finish) = [p EXCEPT !.out = o, !.newline = c[1] = "n", !.pending = t]
      BY <1>5, <2>2 DEF Round
    <3>2. t \in Chars /\ Len(t) = Len(c) - 1
      BY <1>1, <1>5, HeadTailProperties DEF Chars
    <3>3. Len(c) >= 1
      BY <1>1, <1>5, EmptySeq
    <3>4. c[1] \in Char
      BY <1>1, <3>3, ElementOfSeq
    <3>5. o \in Seq(Char \X BOOLEAN)
      BY <1>1, <3>4, AppendProperties
    <3> HIDE DEF o, t
    <3>6. [p EXCEPT !.out = o, !.newline = c[1] = "n", !.pending = t] \in Printer
      BY <3>2, <3>5 DEF Printer
    <3>7. Round(p, finish).pending = t /\ Round(p, finish).text = p.text /\ Round(p, finish).format = p.format
      BY <3>1 DEF Printer
    <3>8. Len(t) \in Nat /\ Len(t) < Len(c)
      BY <1>1, <3>2, <3>3
    <3> QED BY <1>1, <1>5, <3>1, <3>6, <3>7, <3>8
  <2> QED BY <2>1, <2>2
<1> QED
    BY <1>2, <1>3, <1>4, <1>5

(* A round that does not wait does the same when more text stands behind. *)
LEMMA RoundLonger ==
    ASSUME NEW p \in Printer, NEW more \in Chars
    PROVE  /\ Later(p, more) \in Printer
           /\ Stuck(p) => Round(p, FALSE) = p \/ Round(Later(p, more), TRUE) = Later(Round(p, FALSE), more)
           /\ ~Stuck(p) => Round(Later(p, more), TRUE) = Later(Round(p, FALSE), more)
<1> DEFINE c == p.pending
           l == Later(p, more)
<1>1. /\ c \in Chars /\ c \in Seq(Char) /\ Len(c) \in Nat /\ more \in Seq(Char)
    BY LenProperties DEF Printer, Chars
<1>2. c \o more \in Chars /\ Len(c \o more) = Len(c) + Len(more) /\ Len(more) \in Nat
    BY <1>1, JoinIs DEF Chars
<1>3. l \in Printer
    BY <1>2 DEF Later, Printer
<1>4. /\ l.pending = c \o more /\ l.out = p.out /\ l.thinking = p.thinking /\ l.newline = p.newline
    BY DEF Later, Printer
<1>5. /\ HasPrefix(c, ThinkTag) => HasPrefix(c \o more, ThinkTag)
      /\ HasPrefix(c, EndThinkTag) => HasPrefix(c \o more, EndThinkTag)
      /\ HasPrefix(c \o more, ThinkTag) => HasPrefix(c, ThinkTag) \/ Partial(c)
      /\ HasPrefix(c \o more, EndThinkTag) => HasPrefix(c, EndThinkTag) \/ Partial(c)
    BY <1>1, PrefixLonger, TagsAre, Zenon DEF Partial
<1>6. CASE c = <<>>
    BY <1>3, <1>6 DEF Round, Stuck
<1>7. CASE c # <<>> /\ HasPrefix(c, ThinkTag)
  <2>1. Len(ThinkTag) \in 1..Len(c)
    BY <1>1, <1>7, TagsAre DEF HasPrefix
  <2>2. Behind(c \o more, Len(ThinkTag)) = Behind(c, Len(ThinkTag)) \o more
    BY <1>1, <2>1, BehindLonger, Zenon
  <2>3. c \o more # <<>>
    BY <1>1, <1>2, <2>1
  <2>4. Round(p, FALSE) = [p EXCEPT !.thinking = TRUE, !.pending = Behind(c, Len(ThinkTag))]
    BY <1>7 DEF Round
  <2>5. Round(l, TRUE) = [l EXCEPT !.thinking = TRUE, !.pending = Behind(c \o more, Len(ThinkTag))]
    BY <1>4, <1>5, <1>7, <2>3 DEF Round
  <2>6. PICK d : d = Behind(c, Len(ThinkTag))
    OBVIOUS
  <2>7. Round(l, TRUE) = Later(Round(p, FALSE), more)
    BY <2>2, <2>4, <2>5, <2>6 DEF Later, Printer
  <2> QED BY <1>3, <2>7
<1>8. CASE c # <<>> /\ ~HasPrefix(c, ThinkTag) /\ HasPrefix(c, EndThinkTag)
  <2>1. Len(EndThinkTag) \in 1..Len(c)
    BY <1>1, <1>8, TagsAre DEF HasPrefix
  <2>2. Behind(c \o more, Len(EndThinkTag)) = Behind(c, Len(EndThinkTag)) \o more
    BY <1>1, <2>1, BehindLonger, Zenon
  <2>3. c \o more # <<>>
    BY <1>1, <1>2, <2>1
  <2>9. ~HasPrefix(c \o more, ThinkTag)
    <3>1. /\ HasPrefix(c, EndThinkTag) <=> Len(EndThinkTag) <= Len(c) /\ \A i \in 1..Len(EndThinkTag) : c[i] = EndThinkTag[i]
          /\ HasPrefix(c \o more, ThinkTag) <=> Len(ThinkTag) <= Len(c \o more) /\ \A i \in 1..Len(ThinkTag) : (c \o more)[i] = ThinkTag[i]
      BY <1>1, <1>2, PrefixIs, TagsAre, Zenon
    <3>2. (c \o more)[2] = c[2]
      <4>1. 2 \in 1..Len(c)
        BY <1>1, <2>1, TagsAre
      <4> QED BY <1>1, <4>1, JoinIs
    <3>3. c[2] = "/"
      BY <1>8, <3>1, TagsAre DEF EndThinkTag
    <3>4. HasPrefix(c \o more, ThinkTag) => (c \o more)[2] = "t"
      BY <3>1, TagsAre DEF ThinkTag
    <3>5. "/" # "t"
      OBVIOUS
    <3> QED BY <3>2, <3>3, <3>4, <3>5
  <2>6. PICK d : d = Behind(c, Len(EndThinkTag))
    OBVIOUS
  <2>4. Round(p, FALSE) = PutNewline([p EXCEPT !.thinking = FALSE, !.pending = d])
    BY <1>8, <2>6 DEF Round
  <2>5. Round(l, TRUE) = PutNewline([l EXCEPT !.thinking = FALSE, !.pending = d \o more])
    BY <1>4, <1>5, <1>8, <2>2, <2>3, <2>6, <2>9 DEF Round
  <2>7. PutNewline([l EXCEPT !.thinking = FALSE, !.pending = d \o more])
            = Later(PutNewline([p EXCEPT !.thinking = FALSE, !.pending = d]), more)
    BY DEF PutNewline, Later, Printer
  <2> QED BY <1>3, <2>4, <2>5, <2>7
<1>9. CASE c # <<>> /\ ~HasPrefix(c, ThinkTag) /\ ~HasPrefix(c, EndThinkTag)
  <2>1. CASE Partial(c)
    <3>1. Round(p, FALSE) = p
      BY <1>9, <2>1 DEF Round
    <3> QED BY <1>3, <2>1, <3>1 DEF Stuck
  <2>2. CASE ~Partial(c)
    <3>1. Len(c) >= 1
      BY <1>1, <1>9, EmptySeq
    <3>2. 1 \in 1..Len(c)
      BY <1>1, <3>1
    <3>3. (c \o more)[1] = c[1] /\ c \o more # <<>>
      <4>1. (c \o more)[1] = c[1]
        BY <1>1, <3>2, JoinIs
      <4> QED BY <4>1, <1>1, <1>2, <3>1
    <3>4. Tail(c \o more) = Tail(c) \o more
      <4>1. Tail(c) = Behind(c, 1)
        BY <1>1, <1>9, TailIsSubSeq DEF Behind
      <4>2. Tail(c \o more) = Behind(c \o more, 1)
        <5>1. c \o more \in Seq(Char) /\ c \o more # <<>>
          BY <1>2, <3>3 DEF Chars
        <5> QED BY <5>1, TailIsSubSeq DEF Behind
      <4> QED BY <1>1, <3>2, <4>1, <4>2, BehindLonger
    <3>5. ~HasPrefix(c \o more, ThinkTag) /\ ~HasPrefix(c \o more, EndThinkTag)
      BY <1>5, <1>9, <2>2
    <3>6. PICK t : t = Tail(c)
      OBVIOUS
    <3>7. Round(p, FALSE) = [p EXCEPT !.out = Append(@, <<c[1], p.thinking>>), !.newline = c[1] = "n",
                                      !.pending = t]
      BY <1>9, <2>2, <3>6 DEF Round
    <3>8. Round(l, TRUE) = [l EXCEPT !.out = Append(@, <<c[1], p.thinking>>), !.newline = c[1] = "n",
                                     !.pending = t \o more]
      BY <1>4, <1>9, <3>3, <3>4, <3>5, <3>6 DEF Round
    <3>9. [l EXCEPT !.out = Append(@, <<c[1], p.thinking>>), !.newline = c[1] = "n", !.pending = t \o more]
             = Later([p EXCEPT !.out = Append(@, <<c[1], p.thinking>>), !.newline = c[1] = "n", !.pending = t],
                     more)
      BY DEF Later, Printer
    <3> QED BY <1>3, <3>7, <3>8, <3>9
  <2> QED BY <2>1, <2>2
<1> QED
    BY <1>6, <1>7, <1>8, <1>9

RoundsTo(f, N, p, finish) ==
    f \in [0..N -> Printer] /\ f[0] = p /\ \A k \in 0..N - 1 : f[k + 1] = Round(f[k], finish)

(* The rounds of a call. *)
LEMMA RoundsAre ==
    ASSUME NEW p \in Printer, NEW finish \in BOOLEAN
    PROVE  \E f : RoundsTo(f, Len(p.pending), p, finish) /\ Process(p, finish) = f[Len(p.pending)]
<1> DEFINE N == Len(p.pending)
           F == [x \in (1..N) \X Printer |-> Round(x[2], finish)]
           after[k \in 0..N] == IF k = 0 THEN p ELSE Round(after[k - 1], finish)
<1>1. N \in Nat
    BY LenProperties DEF Printer, Chars
<1>2. \A q \in Printer : Round(q, finish) \in Printer
    BY RoundIs
<1>3. F \in [(1..N) \X Printer -> Printer] /\ \A k \in 1..N, q \in Printer : F[<<k, q>>] = Round(q, finish)
    BY <1>2
<1>4. Process(p, finish) = after[N]
    BY DEF Process
<1> HIDE DEF F, N
<1>5. PICK f \in [0..N -> Printer] : Iterates(f, N, p, F)
    BY <1>1, <1>3, Iterate
<1>6. ASSUME NEW k \in 1..N PROVE f[k] = Round(f[k - 1], finish)
  <2>1. k - 1 \in 0..N
    BY <1>1
  <2> QED BY <1>3, <1>5, <2>1 DEF Iterates
<1>7. f = [k \in 0..N |-> IF k = 0 THEN p ELSE Round(f[k - 1], finish)]
  <2>1. f[0] = p
    BY <1>5 DEF Iterates
  <2>2. \A k \in 0..N : f[k] = IF k = 0 THEN p ELSE Round(f[k - 1], finish)
    <3> TAKE k \in 0..N
    <3>1. k # 0 => k \in 1..N
      BY <1>1
    <3> QED BY <1>6, <2>1, <3>1, Zenon
  <2> QED BY <1>5, <2>2
<1>8. after = [k \in 0..N |-> IF k = 0 THEN p ELSE Round(after[k - 1], finish)]
  <2>1. \E g : g = [k \in 0..N |-> IF k = 0 THEN p ELSE Round(g[k - 1], finish)]
    BY <1>7
  <2> QED BY <2>1
<1> HIDE DEF after
<1>9. \A k \in 0..N : after[k] \in Printer
  <2> DEFINE T == {k \in 0..N : after[k] \in Printer}
  <2>1. 0 \in T
    BY <1>1, <1>8
  <2>2. ASSUME NEW k \in 0..N - 1, k \in T PROVE k + 1 \in T
    <3>1. k + 1 \in 0..N /\ k + 1 # 0 /\ (k + 1) - 1 = k
      BY <1>1
    <3>2. after[k + 1] = Round(after[k], finish)
      BY <1>8, <3>1
    <3> QED BY <1>2, <2>2, <3>1, <3>2
  <2> HIDE DEF T
  <2>3. \A k \in 0..N : k \in T
    BY <1>1, <2>1, <2>2, InductUpTo, Zenon
  <2> QED BY <2>3 DEF T
<1>10. RoundsTo(after, N, p, finish)
  <2>1. after \in [0..N -> Printer] /\ after[0] = p
    BY <1>1, <1>8, <1>9
  <2>2. ASSUME NEW k \in 0..N - 1 PROVE after[k + 1] = Round(after[k], finish)
    <3>1. k + 1 \in 0..N /\ k + 1 # 0 /\ (k + 1) - 1 = k
      BY <1>1
    <3> QED BY <1>8, <3>1
  <2> QED BY <2>1, <2>2 DEF RoundsTo
<1> QED
    BY <1>4, <1>10 DEF N

(* The rest is read to its end. *)
LEMMA RoundsEnd ==
    ASSUME NEW p \in Printer, NEW f, RoundsTo(f, Len(p.pending), p, TRUE)
    PROVE  f[Len(p.pending)].pending = <<>>
<1> DEFINE N == Len(p.pending)
           T == {k \in 0..N : Len(f[k].pending) <= N - k}
<1>1. N \in Nat /\ \A k \in 0..N : f[k] \in Printer
    BY LenProperties DEF Printer, Chars, RoundsTo
<1>2. \A k \in 0..N : Len(f[k].pending) \in Nat /\ f[k].pending \in Seq(Char)
    BY <1>1, LenProperties DEF Printer, Chars
<1>3. 0 \in T
    BY <1>1, <1>2 DEF RoundsTo
<1>4. ASSUME NEW k \in 0..N - 1, k \in T PROVE k + 1 \in T
  <2>1. f[k + 1] = Round(f[k], TRUE) /\ k \in 0..N /\ k + 1 \in 0..N
    BY <1>1 DEF RoundsTo
  <2>2. /\ f[k].pending # <<>> => Len(f[k + 1].pending) < Len(f[k].pending)
        /\ f[k].pending = <<>> => f[k + 1].pending = <<>>
    BY <1>1, <2>1, RoundIs, Zenon
  <2>3. Len(<<>>) = 0
    OBVIOUS
  <2>5. Len(f[k].pending) \in Nat /\ Len(f[k + 1].pending) \in Nat /\ Len(f[k].pending) <= N - k
    BY <1>2, <1>4, <2>1
  <2>6. CASE f[k].pending = <<>>
    <3>1. Len(f[k + 1].pending) = 0 /\ N - (k + 1) >= 0
      BY <1>1, <2>2, <2>3, <2>6
    <3> QED BY <3>1, <1>1
  <2>7. CASE f[k].pending # <<>>
    <3>1. PICK x : x = Len(f[k].pending)
      OBVIOUS
    <3>2. PICK y : y = Len(f[k + 1].pending)
      OBVIOUS
    <3>3. x \in Nat /\ y \in Nat /\ y < x /\ x <= N - k
      BY <2>2, <2>5, <2>7, <3>1, <3>2
    <3>4. y <= N - (k + 1)
      BY <1>1, <3>3
    <3> QED BY <3>2, <3>4
  <2>4. Len(f[k + 1].pending) <= N - (k + 1)
    BY <2>6, <2>7
  <2> QED BY <2>1, <2>4
<1> HIDE DEF T
<1>5. \A k \in 0..N : k \in T
    BY <1>1, <1>3, <1>4, InductUpTo, Zenon
<1>6. N \in 0..N
    BY <1>1
<1>7. Len(f[N].pending) <= N - N
    BY <1>5, <1>6 DEF T
<1>8. Len(f[N].pending) = 0
    BY <1>1, <1>2, <1>6, <1>7
<1> QED
    BY <1>2, <1>6, <1>8, EmptySeq

(* One round more or less at the beginning changes nothing at the end. *)
LEMMA ProcessIs ==
    ASSUME NEW p \in Printer
    PROVE  /\ Process(p, TRUE) \in Printer /\ Process(p, TRUE).pending = <<>>
           /\ Process(p, TRUE) = Process(Round(p, TRUE), TRUE)
<1> DEFINE N == Len(p.pending)
           r == Round(p, TRUE)
           M == Len(r.pending)
<1>1. PICK f : RoundsTo(f, N, p, TRUE) /\ Process(p, TRUE) = f[N]
    BY RoundsAre, Zenon
<1>2. N \in Nat /\ r \in Printer /\ M \in Nat /\ M <= N
    BY RoundIs, LenProperties DEF Printer, Chars
<1>3. f[N] \in Printer /\ f[N].pending = <<>>
  <2>1. f[N].pending = <<>>
    BY <1>1, RoundsEnd, Zenon
  <2>2. N \in 0..N
    BY <1>2
  <2> QED BY <1>1, <2>1, <2>2 DEF RoundsTo
<1>4. CASE p.pending = <<>>
    BY <1>1, <1>3, <1>4, RoundIs, Zenon
<1>5. CASE p.pending # <<>>
  <2>1. M < N
    BY <1>5, RoundIs, Zenon
  <2>2. PICK g : RoundsTo(g, M, r, TRUE) /\ Process(r, TRUE) = g[M]
    BY <1>2, RoundsAre, Zenon
  <2> HIDE DEF N, M, r
  <2>3. \A k \in 0..M : g[k] = f[k + 1]
    <3> DEFINE T == {k \in 0..M : g[k] = f[k + 1]}
    <3>1. 0 \in T
      <4>1. 0 \in 0..N - 1
        BY <1>2, <2>1
      <4>2. f[0 + 1] = Round(f[0], TRUE)
        BY <1>1, <4>1 DEF RoundsTo
      <4>3. f[0] = p /\ g[0] = r
        BY <1>1, <2>2 DEF RoundsTo
      <4>5. 0 \in 0..M /\ 0 + 1 = 1
        BY <1>2
      <4>4. f[1] = r /\ 0 \in 0..M /\ 0 + 1 = 1
        BY <4>2, <4>3, <4>5 DEF r
      <4> QED BY <4>3, <4>4
    <3>2. ASSUME NEW k \in 0..M - 1, k \in T PROVE k + 1 \in T
      <4>1. k + 1 \in 0..N - 1 /\ k + 1 \in 0..M
        BY <1>2, <2>1
      <4>2. g[k + 1] = Round(g[k], TRUE) /\ f[(k + 1) + 1] = Round(f[k + 1], TRUE)
        BY <1>1, <2>2, <4>1 DEF RoundsTo
      <4> QED BY <3>2, <4>1, <4>2
    <3> HIDE DEF T
    <3>3. \A k \in 0..M : k \in T
      BY <1>2, <3>1, <3>2, InductUpTo, Zenon
    <3> QED BY <3>3 DEF T
  <2>4. g[M].pending = <<>> /\ g[M] \in Printer
    <3>1. g[M].pending = <<>>
      BY <1>2, <2>2, RoundsEnd, Zenon DEF M
    <3>2. M \in 0..M
      BY <1>2
    <3> QED BY <2>2, <3>1, <3>2 DEF RoundsTo
  <2>5. \A k \in 0..(N - M - 1) : f[M + 1 + k] = g[M]
    <3> DEFINE T == {k \in 0..(N - M - 1) : f[M + 1 + k] = g[M]}
    <3>0. N - M - 1 \in Nat
      BY <1>2, <2>1
    <3>1. 0 \in T
      <4>1. M \in 0..M /\ M + 1 + 0 = M + 1
        BY <1>2
      <4> QED BY <2>3, <3>0, <4>1
    <3>2. ASSUME NEW k \in 0..(N - M - 1) - 1, k \in T PROVE k + 1 \in T
      <4>1. M + 1 + k \in 0..N - 1 /\ k + 1 \in 0..(N - M - 1) /\ M + 1 + (k + 1) = (M + 1 + k) + 1
        BY <1>2, <2>1
      <4>2. f[(M + 1 + k) + 1] = Round(f[M + 1 + k], TRUE)
        BY <1>1, <4>1 DEF RoundsTo
      <4>3. Round(g[M], TRUE) = g[M]
        BY <2>4, RoundIs, Zenon
      <4> QED BY <3>2, <4>1, <4>2, <4>3
    <3> HIDE DEF T
    <3>3. \A k \in 0..(N - M - 1) : k \in T
      BY <3>0, <3>1, <3>2, InductUpTo, Zenon
    <3> QED BY <3>3 DEF T
  <2>6. f[N] = g[M]
    <3>1. N - M - 1 \in 0..(N - M - 1) /\ M + 1 + (N - M - 1) = N
      BY <1>2, <2>1
    <3> QED BY <2>5, <3>1
  <2> QED BY <1>1, <1>3, <2>2, <2>6 DEF N, r
<1> QED
    BY <1>4, <1>5

(* What was printed while more may come ends as if it had all come at once. *)
Alike(p, q) == \A more \in Chars : Process(Later(p, more), TRUE) = Process(Later(q, more), TRUE)
LEMMA ProcessOn ==
    ASSUME NEW p \in Printer
    PROVE  /\ Process(p, FALSE) \in Printer
           /\ Process(p, FALSE).text = p.text /\ Process(p, FALSE).format = p.format
           /\ Alike(p, Process(p, FALSE))
<1> DEFINE N == Len(p.pending)
<1>1. PICK f : RoundsTo(f, N, p, FALSE) /\ Process(p, FALSE) = f[N]
    BY RoundsAre, Zenon
<1>2. N \in Nat
    BY LenProperties DEF Printer, Chars
<1> HIDE DEF N
<1> DEFINE T == {k \in 0..N : f[k].text = p.text /\ f[k].format = p.format /\ Alike(p, f[k])}
<1>3. 0 \in T
  <2>1. f[0] = p /\ 0 \in 0..N
    BY <1>1, <1>2 DEF RoundsTo
  <2>2. Alike(p, p)
    BY DEF Alike
  <2> QED BY <2>1, <2>2
<1>4. ASSUME NEW k \in 0..N - 1, k \in T PROVE k + 1 \in T
  <2>0. k \in 0..N /\ k + 1 \in 0..N
    BY <1>2
  <2>1. f[k + 1] = Round(f[k], FALSE) /\ k + 1 \in 0..N /\ f[k] \in Printer
    BY <1>1, <2>0 DEF RoundsTo
  <2>2. f[k + 1].text = p.text /\ f[k + 1].format = p.format
    BY <1>4, <2>1, RoundIs
  <2>3. ASSUME NEW more \in Chars
        PROVE  Process(Later(p, more), TRUE) = Process(Later(f[k + 1], more), TRUE)
    <3>1. Process(Later(p, more), TRUE) = Process(Later(f[k], more), TRUE)
      BY <1>4 DEF Alike
    <3>2. Later(f[k], more) \in Printer
          /\ (f[k + 1] = f[k] \/ Round(Later(f[k], more), TRUE) = Later(f[k + 1], more))
      BY <2>1, RoundLonger, Zenon
    <3>3. Process(Later(f[k], more), TRUE) = Process(Round(Later(f[k], more), TRUE), TRUE)
      BY <3>2, ProcessIs, Zenon
    <3> QED BY <3>1, <3>2, <3>3
  <2> QED BY <2>1, <2>2, <2>3 DEF Alike
<1> HIDE DEF T
<1>5. \A k \in 0..N : k \in T
    BY <1>2, <1>3, <1>4, InductUpTo, Zenon
<1>6. N \in 0..N
    BY <1>2
<1> QED
    BY <1>1, <1>5, <1>6 DEF T, RoundsTo

(* The text printed so far is only kept. *)
Retext(p, text) == [p EXCEPT !.text = text]

LEMMA RoundRetext ==
    ASSUME NEW p \in Printer, NEW t \in Chars, NEW finish \in BOOLEAN
    PROVE  /\ Retext(p, t) \in Printer
           /\ Round(Retext(p, t), finish) = Retext(Round(p, finish), t)
<1> DEFINE c == p.pending
           r == Retext(p, t)
<1>1. /\ r \in Printer /\ r.pending = c
    BY DEF Retext, Printer
<1>2. CASE c = <<>>
    BY <1>1, <1>2 DEF Round
<1>3. CASE c # <<>> /\ HasPrefix(c, ThinkTag)
  <2>1. PICK d : d = Behind(c, Len(ThinkTag))
    OBVIOUS
  <2>2. Round(p, finish) = [p EXCEPT !.thinking = TRUE, !.pending = d]
    BY <1>3, <2>1 DEF Round
  <2>3. Round(r, finish) = [r EXCEPT !.thinking = TRUE, !.pending = d]
    BY <1>1, <1>3, <2>1 DEF Round
  <2>4. [r EXCEPT !.thinking = TRUE, !.pending = d] = Retext([p EXCEPT !.thinking = TRUE, !.pending = d], t)
    BY DEF Retext, Printer
  <2> QED BY <1>1, <2>2, <2>3, <2>4
<1>4. CASE c # <<>> /\ ~HasPrefix(c, ThinkTag) /\ HasPrefix(c, EndThinkTag)
  <2>1. PICK d : d = Behind(c, Len(EndThinkTag))
    OBVIOUS
  <2>2. Round(p, finish) = PutNewline([p EXCEPT !.thinking = FALSE, !.pending = d])
    BY <1>4, <2>1 DEF Round
  <2>3. Round(r, finish) = PutNewline([r EXCEPT !.thinking = FALSE, !.pending = d])
    BY <1>1, <1>4, <2>1 DEF Round
  <2>4. PutNewline([r EXCEPT !.thinking = FALSE, !.pending = d])
            = Retext(PutNewline([p EXCEPT !.thinking = FALSE, !.pending = d]), t)
    BY DEF Retext, Printer, PutNewline
  <2> QED BY <1>1, <2>2, <2>3, <2>4
<1>5. CASE c # <<>> /\ ~HasPrefix(c, ThinkTag) /\ ~HasPrefix(c, EndThinkTag)
  <2>1. CASE ~finish /\ Partial(c)
    BY <1>1, <1>5, <2>1 DEF Round
  <2>2. CASE ~(~finish /\ Partial(c))
    <3>1. Round(p, finish) = [p EXCEPT !.out = Append(@, <<c[1], p.thinking>>), !.newline = c[1] = "n",
                                       !.pending = Tail(@)]
      BY <1>5, <2>2 DEF Round
    <3>2. Round(r, finish) = [r EXCEPT !.out = Append(@, <<c[1], r.thinking>>), !.newline = c[1] = "n",
                                       !.pending = Tail(@)]
      BY <1>1, <1>5, <2>2 DEF Round
    <3>3. [r EXCEPT !.out = Append(@, <<c[1], r.thinking>>), !.newline = c[1] = "n", !.pending = Tail(@)]
            = Retext([p EXCEPT !.out = Append(@, <<c[1], p.thinking>>), !.newline = c[1] = "n",
                               !.pending = Tail(@)], t)
      BY DEF Retext, Printer
    <3> QED BY <1>1, <3>1, <3>2, <3>3
  <2> QED BY <2>1, <2>2
<1> QED
    BY <1>2, <1>3, <1>4, <1>5

LEMMA ProcessRetext ==
    ASSUME NEW p \in Printer, NEW t \in Chars, NEW finish \in BOOLEAN
    PROVE  Process(Retext(p, t), finish) = Retext(Process(p, finish), t)
<1> DEFINE N == Len(p.pending)
           r == Retext(p, t)
<1>1. PICK f : RoundsTo(f, N, p, finish) /\ Process(p, finish) = f[N]
    BY RoundsAre, Zenon
<1>2. r \in Printer /\ r.pending = p.pending /\ N \in Nat
    BY LenProperties DEF Printer, Chars, Retext
<1>3. PICK g : RoundsTo(g, N, r, finish) /\ Process(r, finish) = g[N]
    BY <1>2, RoundsAre
<1> HIDE DEF N, r
<1> DEFINE T == {k \in 0..N : g[k] = Retext(f[k], t)}
<1>4. 0 \in T
  <2>1. 0 \in 0..N
    BY <1>2
  <2> QED BY <1>1, <1>3, <2>1 DEF RoundsTo, r
<1>5. ASSUME NEW k \in 0..N - 1, k \in T PROVE k + 1 \in T
  <2>0. k \in 0..N /\ k + 1 \in 0..N
    BY <1>2
  <2>1. f[k] \in Printer /\ f[k + 1] = Round(f[k], finish) /\ g[k + 1] = Round(g[k], finish)
    BY <1>1, <1>3, <2>0 DEF RoundsTo
  <2>2. Round(Retext(f[k], t), finish) = Retext(Round(f[k], finish), t)
    BY <2>1, RoundRetext, Zenon
  <2> QED BY <1>5, <2>0, <2>1, <2>2
<1> HIDE DEF T
<1>6. \A k \in 0..N : k \in T
    BY <1>2, <1>4, <1>5, InductUpTo, Zenon
<1>7. N \in 0..N
    BY <1>2
<1>8. g[N] = Retext(f[N], t)
    BY <1>6, <1>7 DEF T
<1> QED
    BY <1>1, <1>3, <1>8 DEF r

(* No round changes the format. *)
LEMMA FormatKept ==
    ASSUME NEW p \in Printer, NEW finish \in BOOLEAN
    PROVE  Process(p, finish).format = p.format
<1> DEFINE N == Len(p.pending)
<1>1. PICK f : RoundsTo(f, N, p, finish) /\ Process(p, finish) = f[N]
    BY RoundsAre, Zenon
<1>2. N \in Nat
    BY LenProperties DEF Printer, Chars
<1> HIDE DEF N
<1> DEFINE T == {k \in 0..N : f[k].format = p.format}
<1>3. 0 \in T
    BY <1>1, <1>2 DEF RoundsTo
<1>4. ASSUME NEW k \in 0..N - 1, k \in T PROVE k + 1 \in T
  <2>0. k \in 0..N /\ k + 1 \in 0..N
    BY <1>2
  <2>1. f[k + 1] = Round(f[k], finish) /\ f[k] \in Printer
    BY <1>1, <2>0 DEF RoundsTo
  <2> QED BY <1>4, <2>0, <2>1, RoundIs
<1> HIDE DEF T
<1>5. \A k \in 0..N : k \in T
    BY <1>2, <1>3, <1>4, InductUpTo, Zenon
<1>6. N \in 0..N
    BY <1>2
<1> QED
    BY <1>1, <1>5, <1>6 DEF T

(* A printer that has printed a text as it would print all of it. *)
Start(text) == [FreshPrinter(TRUE) EXCEPT !.pending = text, !.text = text]
Shown(text) == [i \in DOMAIN text |-> <<text[i], FALSE>>]
EndsLine(text) == IF text = <<>> THEN TRUE ELSE text[Len(text)] = "n"
Faithful(p) ==
    /\ p \in Printer
    /\ p.format => Alike(Start(p.text), p)
    /\ ~p.format => p.out = Shown(p.text) /\ p.newline = EndsLine(p.text)

LEMMA FreshIs ==
    ASSUME NEW think \in BOOLEAN
    PROVE  Faithful(FreshPrinter(think)) /\ FreshPrinter(think).text = <<>>
<1>1. <<>> \in Chars /\ <<>> \in Seq(Char \X BOOLEAN)
    BY EmptySeq DEF Chars
<1>2. FreshPrinter(think) \in Printer /\ FreshPrinter(think).text = <<>>
      /\ FreshPrinter(think).format = think /\ FreshPrinter(think).out = <<>> /\ FreshPrinter(think).newline = TRUE
    BY <1>1 DEF FreshPrinter, Printer
<1>3. CASE think
  <2>1. Start(<<>>) = FreshPrinter(think)
    <3>1. think = TRUE
      BY <1>3
    <3>2. FreshPrinter(TRUE).pending = <<>> /\ FreshPrinter(TRUE).text = <<>>
      BY DEF FreshPrinter
    <3>3. FreshPrinter(TRUE) \in Printer
      BY <1>2, <3>1
    <3>4. [FreshPrinter(TRUE) EXCEPT !.pending = <<>>, !.text = <<>>] = FreshPrinter(TRUE)
      BY <3>2, <3>3 DEF Printer
    <3> QED BY <3>1, <3>4 DEF Start
  <2>2. Alike(FreshPrinter(think), FreshPrinter(think))
    BY DEF Alike
  <2> QED BY <1>2, <1>3, <2>1, <2>2 DEF Faithful
<1>4. CASE ~think
  <2>1. Shown(<<>>) = <<>> /\ EndsLine(<<>>) = TRUE
    BY DEF Shown, EndsLine
  <2> QED BY <1>2, <1>4, <2>1 DEF Faithful
<1> QED
    BY <1>3, <1>4

LEMMA StartIs ==
    ASSUME NEW text \in Chars
    PROVE  Start(text) \in Printer /\ Start(text).pending = text /\ Start(text).text = text
<1>1. <<>> \in Seq(Char \X BOOLEAN)
    BY EmptySeq
<1> QED
    BY <1>1 DEF Start, FreshPrinter, Printer

LEMMA PrintedIs ==
    ASSUME NEW p, Faithful(p), NEW chars \in Chars
    PROVE  Faithful(Printed(p, chars))
<1> DEFINE text == p.text \o chars
           q == [p EXCEPT !.text = @ \o chars, !.pending = @ \o chars]
<1>1. /\ p \in Printer /\ p.text \in Seq(Char) /\ chars \in Seq(Char) /\ p.pending \in Seq(Char)
      /\ p.out \in Seq(Char \X BOOLEAN)
    BY DEF Faithful, Printer, Chars
<1>2. text \in Chars /\ p.pending \o chars \in Chars
    BY <1>1, ConcatProperties DEF Chars
<1>3. CASE p.format
  <2>1. Printed(p, chars) = Process(q, FALSE)
    BY <1>1, <1>3 DEF Printed, Printer
  <2>2. q \in Printer /\ q.text = text /\ q.format = TRUE
    BY <1>1, <1>2, <1>3 DEF Printer
  <2>3. ASSUME NEW more \in Chars
        PROVE  Process(Later(Start(text), more), TRUE) = Process(Later(q, more), TRUE)
    <3>1. chars \o more \in Chars /\ more \in Seq(Char)
      BY <1>1, ConcatProperties DEF Chars
    <3>2. Process(Later(Start(p.text), chars \o more), TRUE) = Process(Later(p, chars \o more), TRUE)
      BY <1>3, <3>1 DEF Faithful, Alike
    <3>3. (p.text \o chars) \o more = p.text \o (chars \o more)
          /\ (p.pending \o chars) \o more = p.pending \o (chars \o more)
      <4>1. PICK a : a = p.text
        OBVIOUS
      <4>2. PICK b : b = p.pending
        OBVIOUS
      <4>3. a \in Chars /\ b \in Chars
        BY <1>1, <4>1, <4>2 DEF Chars
      <4>4. (a \o chars) \o more = a \o (chars \o more)
        BY <4>3, Associates, Zenon
      <4>5. (b \o chars) \o more = b \o (chars \o more)
        BY <4>3, Associates, Zenon
      <4> QED BY <4>1, <4>2, <4>4, <4>5
    <3>4. p.text \in Chars
      BY <1>1 DEF Chars
    <3>5. Start(p.text) \in Printer
      BY <3>4, StartIs
    <3>6. Later(Start(p.text), chars \o more) \in Printer /\ Later(p, chars \o more) \in Printer
      BY <1>1, <3>1, <3>5, RoundLonger
    <3>7. Later(Start(text), more) = Retext(Later(Start(p.text), chars \o more), text)
      <4>1. PICK a : a = p.text
        OBVIOUS
      <4>2. (a \o chars) \o more = a \o (chars \o more)
        BY <3>3, <4>1
      <4> QED BY <4>1, <4>2 DEF Later, Retext, Start, FreshPrinter
    <3>8. Later(q, more) = Retext(Later(p, chars \o more), text)
      BY <1>1, <3>3 DEF Later, Retext, Printer
    <3> HIDE DEF text, q
    <3>9. Process(Later(Start(text), more), TRUE)
            = Retext(Process(Later(Start(p.text), chars \o more), TRUE), text)
      BY <1>2, <3>6, <3>7, ProcessRetext
    <3>10. Process(Later(q, more), TRUE) = Retext(Process(Later(p, chars \o more), TRUE), text)
      BY <1>2, <3>6, <3>8, ProcessRetext
    <3> QED BY <3>2, <3>9, <3>10
  <2> HIDE DEF q, text
  <2>4. /\ Process(q, FALSE) \in Printer
        /\ Process(q, FALSE).text = text /\ Process(q, FALSE).format = TRUE
        /\ Alike(q, Process(q, FALSE))
    BY <2>2, ProcessOn
  <2>5. Alike(Start(text), Process(q, FALSE))
    BY <2>3, <2>4 DEF Alike
  <2> QED BY <2>1, <2>4, <2>5 DEF Faithful
<1>4. CASE ~p.format
  <2> DEFINE o == p.out \o [i \in DOMAIN chars |-> <<chars[i], FALSE>>]
             n == IF chars = <<>> THEN p.newline ELSE chars[Len(chars)] = "n"
  <2>1. Printed(p, chars) = [p EXCEPT !.text = text, !.out = o, !.newline = n]
    BY <1>1, <1>4 DEF Printed, Printer
  <2>2. /\ text \in Seq(Char) /\ Len(text) = Len(p.text) + Len(chars)
        /\ Len(p.text) \in Nat /\ Len(chars) \in Nat
        /\ \A i \in 1..Len(p.text) : text[i] = p.text[i]
        /\ \A i \in 1..Len(chars) : text[Len(p.text) + i] = chars[i]
    BY <1>1, JoinIs
  <2> HIDE DEF text
  <2>3. ASSUME NEW s \in Seq(Char)
        PROVE  /\ Shown(s) \in Seq(Char \X BOOLEAN) /\ Len(Shown(s)) = Len(s) /\ Len(s) \in Nat
               /\ \A i \in 1..Len(s) : Shown(s)[i] = <<s[i], FALSE>>
    <3>1. DOMAIN s = 1..Len(s) /\ Len(s) \in Nat /\ \A i \in 1..Len(s) : s[i] \in Char
      BY LenProperties, ElementOfSeq
    <3>2. PICK z \in Nat : z = Len(s)
      BY <3>1
    <3>3. Shown(s) = [i \in 1..z |-> <<s[i], FALSE>>]
      BY <3>1, <3>2 DEF Shown
    <3>4. \A i \in 1..z : <<s[i], FALSE>> \in Char \X BOOLEAN
      BY <3>1, <3>2
    <3>5. Shown(s) \in [1..z -> Char \X BOOLEAN]
      BY <3>3, <3>4
    <3>6. Shown(s) \in Seq(Char \X BOOLEAN)
      BY <3>5
    <3>7. DOMAIN Shown(s) = 1..z
      BY <3>5
    <3>8. Len(Shown(s)) = z
      BY <3>2, <3>6, <3>7, LenProperties
    <3>9. \A i \in 1..z : Shown(s)[i] = <<s[i], FALSE>>
      BY <3>3
    <3> QED BY <3>1, <3>2, <3>6, <3>8, <3>9
  <2>4. o = p.out \o Shown(chars) /\ p.out = Shown(p.text)
    BY <1>4 DEF Shown, Faithful
  <2>5. Shown(p.text) \o Shown(chars) = Shown(text)
    <3>1. PICK a : a = Shown(p.text)
      OBVIOUS
    <3>2. PICK b : b = Shown(chars)
      OBVIOUS
    <3>3. PICK c : c = Shown(text)
      OBVIOUS
    <3>4. /\ a \in Seq(Char \X BOOLEAN) /\ Len(a) = Len(p.text) /\ \A i \in 1..Len(p.text) : a[i] = <<p.text[i], FALSE>>
          /\ b \in Seq(Char \X BOOLEAN) /\ Len(b) = Len(chars) /\ \A i \in 1..Len(chars) : b[i] = <<chars[i], FALSE>>
          /\ c \in Seq(Char \X BOOLEAN) /\ Len(c) = Len(text) /\ \A i \in 1..Len(text) : c[i] = <<text[i], FALSE>>
      BY <1>1, <2>2, <2>3, <3>1, <3>2, <3>3
    <3>5. /\ a \o b \in Seq(Char \X BOOLEAN) /\ Len(a \o b) = Len(a) + Len(b)
          /\ \A i \in 1..Len(a) : (a \o b)[i] = a[i]
          /\ \A i \in 1..Len(b) : (a \o b)[Len(a) + i] = b[i]
      <4>1. a \in Seq(Char \X BOOLEAN) /\ b \in Seq(Char \X BOOLEAN)
        BY <3>4
      <4> QED BY <4>1, JoinIs
    <3>6. Len(a \o b) = Len(c)
      BY <2>2, <3>4, <3>5
    <3>7. ASSUME NEW i \in 1..Len(a \o b) PROVE (a \o b)[i] = c[i]
      <4>1. CASE i <= Len(p.text)
        <5>1. i \in 1..Len(p.text) /\ i \in 1..Len(text)
          BY <2>2, <3>4, <3>5, <4>1
        <5> QED BY <2>2, <3>4, <3>5, <5>1
      <4>2. CASE ~(i <= Len(p.text))
        <5>1. PICK k : k = i - Len(p.text)
          OBVIOUS
        <5>2. k \in 1..Len(chars) /\ i = Len(p.text) + k /\ i \in 1..Len(text)
          BY <2>2, <3>4, <3>5, <4>2, <5>1
        <5> QED BY <2>2, <3>4, <3>5, <5>2
      <4> QED BY <4>1, <4>2
    <3>8. a \o b = c
      BY <3>4, <3>5, <3>6, <3>7, SeqEqual, Zenon
    <3> QED BY <3>1, <3>2, <3>3, <3>8
  <2>6. n = EndsLine(text)
    <3>1. p.newline = EndsLine(p.text)
      BY <1>4 DEF Faithful
    <3>2. CASE chars = <<>>
      <4>1. text = p.text
        BY <1>1, <3>2, ConcatEmptySeq DEF text
      <4> QED BY <3>1, <3>2, <4>1
    <3>3. CASE chars # <<>>
      <4>1. Len(chars) \in 1..Len(chars) /\ Len(text) = Len(p.text) + Len(chars) /\ Len(text) # 0
        <5>1. Len(chars) # 0
          BY <1>1, <3>3, EmptySeq
        <5> QED BY <2>2, <5>1
      <4>2. text[Len(text)] = chars[Len(chars)]
        BY <2>2, <4>1
      <4>3. text # <<>>
        BY <4>1
      <4> QED BY <3>3, <4>2, <4>3 DEF EndsLine
    <3> QED BY <3>2, <3>3
  <2>7. o = Shown(text) /\ o \in Seq(Char \X BOOLEAN) /\ n \in BOOLEAN
    <3>1. n \in BOOLEAN
      BY <1>1 DEF Printer
    <3> QED BY <2>2, <2>3, <2>4, <2>5, <3>1
  <2> HIDE DEF o, n
  <2>8. [p EXCEPT !.text = text, !.out = o, !.newline = n] \in Printer
    BY <1>1, <1>2, <2>7 DEF Printer
  <2> QED BY <1>1, <1>4, <2>1, <2>6, <2>7, <2>8 DEF Faithful, Printer
<1> QED
    BY <1>3, <1>4

(* Once finished, it has printed the whole. *)
Done(p) == p.out = PrintedWhole(p, p.format).out
LEMMA FinishedIs ==
    ASSUME NEW p, Faithful(p)
    PROVE  Finished(p) \in Printer /\ Done(Finished(p))
<1>1. p \in Printer /\ p.text \in Chars /\ p.text \in Seq(Char)
    BY DEF Faithful, Printer, Chars
<1>2. ASSUME NEW q \in Printer
      PROVE  /\ PutNewline(q) \in Printer /\ PutNewline(q).text = q.text /\ PutNewline(q).format = q.format
  <2>1. q.out \in Seq(Char \X BOOLEAN) /\ <<"n", FALSE>> \in Char \X BOOLEAN
    BY DEF Printer, Char
  <2>2. Append(q.out, <<"n", FALSE>>) \in Seq(Char \X BOOLEAN)
    BY <2>1, AppendProperties
  <2> QED BY <2>2 DEF PutNewline, Printer
<1>3. CASE p.format
  <2> DEFINE r == Process(p, TRUE)
             w == Process([FreshPrinter(TRUE) EXCEPT !.pending = p.text], TRUE)
  <2>1. <<>> \in Chars
    BY EmptySeq DEF Chars
  <2>2. Process(Later(Start(p.text), <<>>), TRUE) = Process(Later(p, <<>>), TRUE)
    BY <1>3, <2>1 DEF Faithful, Alike
  <2>3. Later(p, <<>>) = p /\ Later(Start(p.text), <<>>) = Start(p.text)
    <3>1. p.pending \o <<>> = p.pending /\ p.text \o <<>> = p.text
      BY <1>1, ConcatEmptySeq DEF Printer, Chars
    <3>2. PICK a : a = p.text
      OBVIOUS
    <3> QED BY <1>1, <3>1, <3>2 DEF Later, Printer, Start, FreshPrinter
  <2>4. [FreshPrinter(TRUE) EXCEPT !.pending = p.text] \in Printer
    <3>1. <<>> \in Seq(Char \X BOOLEAN)
      BY EmptySeq
    <3> QED BY <1>1, <2>1, <3>1 DEF FreshPrinter, Printer
  <2>5. Start(p.text) = Retext([FreshPrinter(TRUE) EXCEPT !.pending = p.text], p.text)
    BY DEF Start, Retext, FreshPrinter
  <2>6. Process(Start(p.text), TRUE) = Retext(w, p.text)
    BY <1>1, <2>4, <2>5, ProcessRetext
  <2>7. r = Retext(w, p.text)
    BY <2>2, <2>3, <2>6
  <2>8. r \in Printer /\ w \in Printer
    BY <1>1, <2>4, ProcessIs
  <2>9. r.text = p.text /\ r.format = TRUE
    <3>1. w.format = TRUE
      BY <2>4, FormatKept DEF FreshPrinter
    <3> QED BY <2>7, <2>8, <3>1 DEF Retext, Printer
  <2>10. Finished(p) = PutNewline(r)
    BY <1>3 DEF Finished
  <2>11. PrintedWhole(PutNewline(r), TRUE) = PutNewline(w)
    BY <1>2, <2>8, <2>9 DEF PrintedWhole
  <2>12. PutNewline(r).out = PutNewline(w).out
    <3> HIDE DEF r, w
    <3> QED BY <2>7, <2>8 DEF PutNewline, Retext, Printer
  <2>13. PutNewline(r) \in Printer /\ PutNewline(r).format = TRUE
    BY <1>2, <2>8, <2>9
  <2> HIDE DEF r, w
  <2> QED BY <2>10, <2>11, <2>12, <2>13 DEF Done
<1>4. CASE ~p.format
  <2>1. Finished(p) = PutNewline(p) /\ p.out = Shown(p.text) /\ p.newline = EndsLine(p.text)
    BY <1>4 DEF Finished, Faithful
  <2> DEFINE w == Printed(FreshPrinter(FALSE), p.text)
  <2>2. w.out = Shown(p.text) /\ w.newline = EndsLine(p.text)
    <3>1. Faithful(FreshPrinter(FALSE)) /\ FreshPrinter(FALSE).text = <<>>
      BY FreshIs
    <3>2. Faithful(w)
      BY <1>1, <3>1, PrintedIs
    <3>3. <<>> \o p.text = p.text
      BY <1>1, ConcatEmptySeq
    <3>4. w.text = p.text /\ w.format = FALSE
      BY <3>3 DEF Printed, FreshPrinter
    <3> HIDE DEF w
    <3> QED BY <3>2, <3>4 DEF Faithful
  <2>3. PutNewline(p) \in Printer /\ PutNewline(p).format = FALSE /\ PutNewline(p).text = p.text
    BY <1>1, <1>2, <1>4 DEF Printer
  <2>4. PrintedWhole(PutNewline(p), FALSE) = PutNewline(w)
    BY <2>3 DEF PrintedWhole
  <2>5. PutNewline(w).out = PutNewline(p).out
    <3>1. w \in Printer
      BY <1>1, FreshIs, PrintedIs DEF Faithful
    <3> HIDE DEF w
    <3> QED BY <1>1, <2>1, <2>2, <3>1 DEF PutNewline, Printer
  <2> HIDE DEF w
  <2> QED BY <2>1, <2>3, <2>4, <2>5 DEF Done
<1> QED
    BY <1>3, <1>4

-----------------------------------------------------------------------------
(* The transcript. *)
Token == {Bos, Eos, MaxToken, SystemToken} \cup {User(m) : m \in Messages}
             \cup {Assistant(t) : t \in BOOLEAN} \cup {Reply(p) : p \in DOMAIN Pieces}

LEMMA KindsAre ==
    /\ Bos \in Token /\ Eos \in Token /\ MaxToken \in Token /\ SystemToken \in Token
    /\ Bos[1] = "bos" /\ Eos[1] = "eos" /\ MaxToken[1] = "max" /\ SystemToken[1] = "system"
    /\ \A m \in Messages : User(m) \in Token /\ User(m)[1] = "user"
    /\ \A t \in BOOLEAN : Assistant(t) \in Token /\ Assistant(t)[1] = "assistant"
    /\ \A p \in DOMAIN Pieces : Reply(p) \in Token /\ Reply(p)[1] = "reply"
BY DEF Token, Bos, Eos, MaxToken, SystemToken, User, Assistant, Reply

Behead == IF System THEN 1 ELSE 0
Framed(t, n) ==
    /\ t \in Seq(Token) /\ 1 + n + Behead <= Len(t)
    /\ t[1] = Bos /\ \A i \in 2..n + 1 : t[i] = MaxToken
    /\ System => t[2 + n] = SystemToken
Body(t, n) == SubSeq(t, 2 + n + Behead, Len(t))
Users(t) == {i \in DOMAIN t : t[i][1] = "user"}
Talk(t, n, opens, users) ==
    /\ Framed(t, n) /\ WholeTurns(Body(t, n))
    /\ OpenTurns(Body(t, n)) <= opens /\ Cardinality(Users(t)) <= users

LEMMA BodyIs ==
    ASSUME NEW n \in Nat, NEW t, Framed(t, n)
    PROVE  /\ Len(t) \in Nat /\ DOMAIN t = 1..Len(t) /\ \A i \in 1..Len(t) : t[i] \in Token
           /\ Behead \in 0..1 /\ Len(Body(t, n)) = Len(t) - (1 + n + Behead) /\ Len(Body(t, n)) \in Nat
           /\ Body(t, n) \in Seq(Token) /\ DOMAIN Body(t, n) = 1..Len(Body(t, n))
           /\ \A i \in 1..(Len(t) - (1 + n + Behead)) : Body(t, n)[i] = t[1 + n + Behead + i]
<1>1. Len(t) \in Nat /\ DOMAIN t = 1..Len(t) /\ \A i \in 1..Len(t) : t[i] \in Token
    BY LenProperties, ElementOfSeq DEF Framed
<1>2. Behead \in 0..1
    BY DEF Behead
<1>3. PICK b \in 0..1 : b = Behead
    BY <1>2
<1>4. 2 + n + b \in Nat \ {0} /\ Len(t) <= Len(t) /\ 2 + n + b <= Len(t) + 1 /\ t \in Seq(Token)
    BY <1>1, <1>3 DEF Framed
<1>5. /\ SubSeq(t, 2 + n + b, Len(t)) \in Seq(Token)
      /\ Len(SubSeq(t, 2 + n + b, Len(t))) = Len(t) + 1 - (2 + n + b)
      /\ \A i \in 1..(Len(t) + 1 - (2 + n + b)) : SubSeq(t, 2 + n + b, Len(t))[i] = t[2 + n + b + i - 1]
  <2>1. PICK a \in Nat \ {0} : a = 2 + n + b
    BY <1>4
  <2>2. PICK L \in Nat : L = Len(t)
    BY <1>1
  <2>3. L <= Len(t) /\ a <= L + 1 /\ t \in Seq(Token)
    BY <1>4, <2>1, <2>2
  <2>4. /\ SubSeq(t, a, L) \in Seq(Token) /\ Len(SubSeq(t, a, L)) = L + 1 - a
        /\ \A i \in 1..(L + 1 - a) : SubSeq(t, a, L)[i] = t[a + i - 1]
    BY <2>3, CutIs
  <2> QED BY <2>1, <2>2, <2>4
<1>6. /\ Len(t) + 1 - (2 + n + b) = Len(t) - (1 + n + b) /\ Len(t) - (1 + n + b) \in Nat
      /\ \A i \in 1..(Len(t) - (1 + n + b)) : 2 + n + b + i - 1 = 1 + n + b + i
    BY <1>1, <1>4
<1>7. /\ Body(t, n) \in Seq(Token) /\ Len(Body(t, n)) = Len(t) - (1 + n + b)
      /\ \A i \in 1..(Len(t) - (1 + n + b)) : Body(t, n)[i] = t[1 + n + b + i]
    BY <1>3, <1>5, <1>6 DEF Body
<1>8. DOMAIN Body(t, n) = 1..Len(Body(t, n))
    BY <1>7, LenProperties
<1> QED
    BY <1>1, <1>2, <1>3, <1>6, <1>7, <1>8

(* What may stand at a place of the body. *)
TurnAt(body, i) ==
    /\ body[i][1] \in {"user", "assistant", "reply", "eos"}
    /\ body[i][1] = "user" =>
           i < Len(body) /\ body[i + 1][1] = "assistant" /\ (i > 1 => body[i - 1][1] # "user")
    /\ body[i][1] = "assistant" => i > 1 /\ body[i - 1][1] = "user"
    /\ body[i][1] \in {"reply", "eos"} => i > 1 /\ body[i - 1][1] \in {"assistant", "reply"}
LEMMA WholeIs ==
    ASSUME NEW body
    PROVE  WholeTurns(body) <=> \A i \in DOMAIN body : TurnAt(body, i)
BY DEF WholeTurns, TurnAt

Open(body) ==
    {i \in DOMAIN body : body[i][1] \in {"assistant", "reply"} /\ (i = Len(body) \/ body[i + 1][1] = "user")}

LEMMA FiniteParts ==
    ASSUME NEW n \in Nat, NEW P \in SUBSET (1..n)
    PROVE  IsFiniteSet(P) /\ Cardinality(P) \in Nat
<1>1. IsFiniteSet(1..n)
    BY FS_Interval
<1>2. IsFiniteSet(P)
    BY <1>1, FS_Subset
<1> QED
    BY <1>2, FS_CardinalityType

LEMMA OneMore ==
    ASSUME NEW P, IsFiniteSet(P), NEW x
    PROVE  IsFiniteSet(P \cup {x}) /\ Cardinality(P \cup {x}) <= Cardinality(P) + 1
<1>1. Cardinality(P) \in Nat
    BY FS_CardinalityType
<1>2. IsFiniteSet(P \cup {x}) /\ (x \in P => Cardinality(P \cup {x}) = Cardinality(P))
      /\ (x \notin P => Cardinality(P \cup {x}) = Cardinality(P) + 1)
  <2>1. /\ IsFiniteSet(P \cup {x})
        /\ Cardinality(P \cup {x}) = IF x \in P THEN Cardinality(P) ELSE Cardinality(P) + 1
    BY FS_AddElement
  <2> QED BY <2>1
<1> QED
    BY <1>1, <1>2

(* A turn is added to a whole transcript: its message, the mark of the
   assistant, what it replies, and perhaps its end.                         *)
Adds(t, k) ==
    /\ k + 2 <= Len(t) /\ t[k + 1][1] = "user" /\ t[k + 2][1] = "assistant"
    /\ \A i \in k + 3..Len(t) - 1 : t[i][1] = "reply"
    /\ k + 2 < Len(t) => t[Len(t)][1] \in {"reply", "eos"}
Closed(t) == t[Len(t)][1] = "eos"
LEMMA TurnAdded ==
    ASSUME NEW n \in Nat, NEW t \in Seq(Token), NEW k \in Nat, NEW opens \in Nat, NEW users \in Nat,
           Talk(SubSeq(t, 1, k), n, opens, users), Adds(t, k)
    PROVE  Talk(t, n, IF Closed(t) THEN opens ELSE opens + 1, users + 1)
<1> DEFINE K == SubSeq(t, 1, k)
           f == 1 + n + Behead
           b == Body(t, n)
           c == Body(K, n)
<1>1. Len(t) \in Nat /\ DOMAIN t = 1..Len(t) /\ k + 2 <= Len(t)
    BY LenProperties DEF Adds
<1>2. K \in Seq(Token) /\ Len(K) = k /\ \A i \in 1..k : K[i] = t[i]
  <2>1. 1 \in Nat \ {0} /\ k <= Len(t) /\ 1 <= k + 1
    BY <1>1
  <2>2. K \in Seq(Token) /\ Len(K) = k + 1 - 1 /\ \A i \in 1..(k + 1 - 1) : K[i] = t[1 + i - 1]
    BY <2>1, CutIs
  <2>3. k + 1 - 1 = k /\ \A i \in 1..k : 1 + i - 1 = i
    OBVIOUS
  <2> QED BY <2>2, <2>3
<1>3. Framed(K, n)
    BY DEF Talk
<1>4. /\ f \in Nat /\ f >= 1 /\ f <= k /\ c \in Seq(Token)
      /\ Len(c) = k - f /\ DOMAIN c = 1..(k - f) /\ \A i \in 1..(k - f) : c[i] = t[f + i]
  <2>1. /\ Behead \in 0..1 /\ Len(c) = Len(K) - f /\ DOMAIN c = 1..Len(c) /\ c \in Seq(Token)
        /\ \A i \in 1..(Len(K) - f) : c[i] = K[f + i]
    BY <1>3, BodyIs, Zenon
  <2>2. f <= k
    BY <1>2, <1>3 DEF Framed
  <2>3. f \in Nat /\ f >= 1
    BY <2>1
  <2> HIDE DEF f, c
  <2>4. \A i \in 1..(k - f) : f + i \in 1..k
    BY <2>2, <2>3
  <2> QED BY <1>2, <2>1, <2>2, <2>3, <2>4
<1>5. Framed(t, n)
  <2>1. 1 + n + Behead <= Len(t)
    BY <1>1, <1>4
  <2>2. 1 \in 1..k /\ 2 + n \in Nat /\ \A i \in 2..n + 1 : i \in 1..k
    BY <1>4 DEF Behead
  <2>3. System => 2 + n \in 1..k
    BY <1>4 DEF Behead
  <2> QED BY <1>2, <1>3, <2>1, <2>2, <2>3 DEF Framed
<1>6. Len(b) = Len(t) - f /\ DOMAIN b = 1..(Len(t) - f) /\ \A i \in 1..(Len(t) - f) : b[i] = t[f + i]
    BY <1>5, BodyIs, Zenon
<1>7. \A i \in 1..(k - f) : TurnAt(c, i)
    BY <1>4, WholeIs DEF Talk
<1> HIDE DEF f, b, c, K
<1>8. PICK L \in Nat : L = Len(t)
    BY <1>1
<1>9. \A i \in 1..(k - f) : b[i] = c[i]
    BY <1>1, <1>4, <1>6
<1>8a. PICK g \in Nat : g = f
    BY <1>4
<1>8b. g >= 1 /\ g <= k /\ k + 2 <= L
    BY <1>1, <1>4, <1>8, <1>8a
<1>8c. PICK u \in Nat : u = k - g
    BY <1>8b
<1>8d. PICK w \in Nat : w = L - g
    BY <1>8b
<1>8e. u + 2 <= w /\ k = g + u /\ L = g + w
    BY <1>8b, <1>8c, <1>8d
<1>8f. u = k - f /\ w = L - f
    BY <1>8a, <1>8c, <1>8d
<1>10. /\ k - f \in Nat /\ b[k - f + 1][1] = "user" /\ b[k - f + 2][1] = "assistant"
       /\ \A i \in k - f + 3..L - f - 1 : b[i][1] = "reply"
       /\ k - f + 2 < L - f => b[L - f][1] \in {"reply", "eos"}
  <2>1. u + 1 \in 1..w /\ u + 2 \in 1..w /\ g + (u + 1) = k + 1 /\ g + (u + 2) = k + 2
    BY <1>8e
  <2>2. \A i \in u + 3..w - 1 : i \in 1..w /\ g + i \in k + 3..L - 1
    BY <1>8e
  <2>3. u + 2 < w => w \in 1..w /\ g + w = L /\ k + 2 < L
    BY <1>8e
  <2>4. \A i \in 1..w : b[i] = t[g + i]
    BY <1>6, <1>8, <1>8a, <1>8f
  <2>5. t[k + 1][1] = "user" /\ t[k + 2][1] = "assistant"
        /\ (\A i \in k + 3..L - 1 : t[i][1] = "reply") /\ (k + 2 < L => t[L][1] \in {"reply", "eos"})
    BY <1>8 DEF Adds
  <2>6. /\ b[u + 1][1] = "user" /\ b[u + 2][1] = "assistant"
        /\ \A i \in u + 3..w - 1 : b[i][1] = "reply"
        /\ u + 2 < w => b[w][1] \in {"reply", "eos"}
    <3>1. \A i \in u + 3..w - 1 : b[i][1] = "reply"
      BY <2>2, <2>4, <2>5
    <3> QED BY <2>1, <2>3, <2>4, <2>5, <3>1
  <2> QED BY <1>8f, <2>6
<1>11. \A i \in DOMAIN b : TurnAt(b, i)
  <2> TAKE i \in DOMAIN b
  <2>0. i \in 1..(L - f) /\ Len(b) = L - f /\ k + 2 <= L
    BY <1>1, <1>6, <1>8
  <2>1. CASE i \in 1..(k - f)
    <3>1. TurnAt(c, i) /\ b[i] = c[i]
      BY <1>7, <1>9, <2>1
    <3>2. i > 1 => i - 1 \in 1..(k - f)
      BY <1>8c, <1>8f, <2>1
    <3>3. i > 1 => b[i - 1] = c[i - 1]
      BY <1>9, <3>2
    <3>4. i < Len(c) => i + 1 \in 1..(k - f) /\ i < Len(b)
      <4>1. Len(c) = u /\ Len(b) = w /\ i \in 1..u
        BY <1>4, <1>8f, <2>0, <2>1
      <4>2. i < u => i + 1 \in 1..u /\ i < w
        BY <1>8e, <4>1
      <4> QED BY <1>8f, <4>1, <4>2
    <3>5. i < Len(c) => b[i + 1] = c[i + 1]
      BY <1>9, <3>4
    <3> QED BY <3>1, <3>3, <3>4, <3>5 DEF TurnAt
  <2>2. CASE i = k - f + 1
    <3>1. i < Len(b) /\ i + 1 = k - f + 2 /\ i - 1 = k - f
      <4>1. Len(b) = w /\ i = u + 1
        BY <1>8f, <2>0, <2>2
      <4>2. i < w /\ i + 1 = u + 2 /\ i - 1 = u
        BY <1>8e, <4>1
      <4> QED BY <1>8f, <4>1, <4>2
    <3>2. i > 1 => b[i - 1][1] # "user"
      <4>1. ASSUME i > 1 PROVE b[i - 1][1] # "user"
        <5>0. Len(c) = u /\ i = u + 1
          BY <1>4, <1>8f, <2>2
        <5>a. i - 1 \in 1..u /\ ~(i - 1 < u)
          BY <4>1, <5>0
        <5>1. i - 1 \in 1..(k - f) /\ ~(i - 1 < Len(c))
          BY <1>8f, <5>0, <5>a
        <5>2. TurnAt(c, i - 1) /\ b[i - 1] = c[i - 1]
          BY <1>7, <1>9, <5>1
        <5> QED BY <5>1, <5>2 DEF TurnAt
      <4> QED BY <4>1
    <3> QED BY <1>10, <2>2, <3>1, <3>2 DEF TurnAt
  <2>3. CASE i = k - f + 2
    <3>1. i > 1 /\ i - 1 = k - f + 1
      BY <1>10, <2>3
    <3> QED BY <1>10, <2>3, <3>1 DEF TurnAt
  <2>4. CASE i >= k - f + 3
    <3>0. i \in 1..w /\ i >= u + 3
      BY <1>8f, <2>0, <2>4
    <3>a. i > 1 /\ i - 1 \in 1..w /\ u + 2 < w
      BY <1>8e, <3>0
    <3>1. i > 1 /\ i - 1 \in 1..(L - f) /\ k - f + 2 < L - f
      BY <1>8f, <3>a
    <3>2. b[i][1] \in {"reply", "eos"}
      <4>1. i = w \/ i \in u + 3..w - 1
        BY <1>8e, <3>0
      <4> QED BY <1>8f, <1>10, <3>1, <4>1
    <3>3. b[i - 1][1] \in {"assistant", "reply"}
      <4>1. i - 1 = u + 2 \/ i - 1 \in u + 3..w - 1
        BY <1>8e, <3>0
      <4> QED BY <1>8f, <1>10, <4>1
    <3> QED BY <3>1, <3>2, <3>3 DEF TurnAt
  <2>5. i \in 1..w
    BY <1>8f, <2>0
  <2>6. i \in 1..u \/ i = u + 1 \/ i = u + 2 \/ i >= u + 3
    BY <1>8e, <2>5
  <2> QED BY <1>8f, <2>1, <2>2, <2>3, <2>4, <2>6
<1>12. WholeTurns(b)
    BY <1>11, WholeIs
<1>13. OpenTurns(b) <= IF Closed(t) THEN opens ELSE opens + 1
  <2>1. Open(c) \in SUBSET (1..(k - f)) /\ Open(b) \in SUBSET (1..(L - f)) /\ L - f \in Nat
    BY <1>1, <1>4, <1>6, <1>8 DEF Open
  <2>2. IsFiniteSet(Open(c)) /\ Cardinality(Open(c)) \in Nat /\ Cardinality(Open(b)) \in Nat
    BY <1>10, <2>1, FiniteParts
  <2>3. Cardinality(Open(c)) <= opens
    BY DEF Talk, OpenTurns, Open, c, K
  <2>4. ASSUME NEW i \in Open(b) PROVE i \in Open(c) \/ (i = L - f /\ ~Closed(t))
    <3>a. i \in 1..w /\ w >= u + 2
      BY <1>8e, <1>8f, <2>1, <2>4
    <3>b. Len(b) = w
      BY <1>6, <1>8, <1>8f
    <3>0. i \in 1..(L - f) /\ Len(b) = L - f /\ i \in Nat /\ L - f >= k - f + 2
      BY <1>8f, <3>a, <3>b
    <3>1. b[i][1] \in {"assistant", "reply"} /\ (i = L - f \/ b[i + 1][1] = "user")
      BY <2>4, <3>0 DEF Open
    <3>2. CASE i \in 1..(k - f)
      <4>1. i # L - f /\ i \in DOMAIN c /\ c[i] = b[i]
        BY <1>4, <1>9, <3>0, <3>2
      <4>2. CASE i = k - f
        <5>1. i \in Open(c)
          BY <1>4, <3>1, <4>1, <4>2 DEF Open
        <5> QED BY <5>1
      <4>3. CASE i # k - f
        <5>1. i + 1 \in 1..(k - f)
          BY <1>4, <3>2, <4>3
        <5>2. c[i + 1] = b[i + 1]
          BY <1>9, <5>1
        <5> QED BY <3>1, <4>1, <5>2 DEF Open
      <4> QED BY <4>2, <4>3
    <3>3. CASE i = k - f + 1
      BY <1>10, <3>1, <3>3
    <3>4. CASE i >= k - f + 2 /\ i # L - f
      <4>1. i + 1 \in u + 3..w - 1 \/ (i + 1 = w /\ u + 2 < w)
        BY <1>8f, <3>a, <3>4
      <4> QED BY <1>8f, <1>10, <3>1, <3>4, <4>1
    <3>5. CASE i = L - f
      <4>1. f + (L - f) = Len(t)
        BY <1>4, <1>8
      <4>2. b[L - f] = t[Len(t)]
        BY <1>6, <1>8, <3>0, <3>5, <4>1
      <4> QED BY <3>1, <3>5, <4>2 DEF Closed
    <3> QED BY <1>10, <3>0, <3>2, <3>3, <3>4, <3>5
  <2>5. OpenTurns(b) = Cardinality(Open(b))
    BY DEF OpenTurns, Open
  <2>6. CASE Closed(t)
    <3>1. Open(b) \in SUBSET Open(c)
      BY <2>4, <2>6
    <3>2. Cardinality(Open(b)) <= Cardinality(Open(c))
      BY <2>2, <3>1, FS_Subset
    <3> QED BY <2>2, <2>3, <2>5, <2>6, <3>2
  <2>7. CASE ~Closed(t)
    <3>1. Open(b) \in SUBSET (Open(c) \cup {L - f})
      BY <2>4
    <3>2. IsFiniteSet(Open(c) \cup {L - f})
          /\ Cardinality(Open(c) \cup {L - f}) <= Cardinality(Open(c)) + 1
      BY <2>2, OneMore
    <3>3. Cardinality(Open(b)) <= Cardinality(Open(c) \cup {L - f})
      BY <3>1, <3>2, FS_Subset
    <3>4. Cardinality(Open(c) \cup {L - f}) \in Nat
      BY <3>2, FS_CardinalityType
    <3> QED BY <2>2, <2>3, <2>5, <2>7, <3>2, <3>3, <3>4
  <2> QED BY <2>6, <2>7
<1>14. Cardinality(Users(t)) <= users + 1
  <2>1. DOMAIN K = 1..k
    BY <1>2, LenProperties
  <2>2. Users(K) \in SUBSET (1..k) /\ Users(t) \in SUBSET (1..L)
    BY <1>1, <1>8, <2>1 DEF Users
  <2>3. IsFiniteSet(Users(K)) /\ Cardinality(Users(K)) \in Nat /\ Cardinality(Users(t)) \in Nat
    BY <2>2, FiniteParts
  <2>4. Cardinality(Users(K)) <= users
    BY DEF Talk, K
  <2>5. ASSUME NEW i \in Users(t) PROVE i \in Users(K) \cup {k + 1}
    <3>1. i \in 1..L /\ t[i][1] = "user"
      BY <2>2, <2>5 DEF Users
    <3>2. CASE i <= k
      <4>1. i \in 1..k
        BY <3>1, <3>2
      <4> QED BY <1>2, <2>1, <3>1, <4>1 DEF Users
    <3>3. CASE i = k + 2
      BY <3>1, <3>3 DEF Adds
    <3>4. CASE i >= k + 3
      <4>1. i \in k + 3..Len(t) - 1 \/ (i = Len(t) /\ k + 2 < Len(t))
        BY <1>8, <3>1, <3>4
      <4> QED BY <3>1, <4>1 DEF Adds
    <3> QED BY <3>1, <3>2, <3>3, <3>4
  <2>6. Users(t) \in SUBSET (Users(K) \cup {k + 1})
    BY <2>5
  <2>7. IsFiniteSet(Users(K) \cup {k + 1}) /\ Cardinality(Users(K) \cup {k + 1}) <= Cardinality(Users(K)) + 1
    BY <2>3, OneMore
  <2>8. Cardinality(Users(K) \cup {k + 1}) \in Nat
    BY <2>7, FS_CardinalityType
  <2>9. Cardinality(Users(t)) <= Cardinality(Users(K) \cup {k + 1})
    BY <2>6, <2>7, FS_Subset
  <2> QED BY <2>3, <2>4, <2>7, <2>8, <2>9
<1> QED
    BY <1>5, <1>12, <1>13, <1>14 DEF Talk, b

(* The thinking prefix is put in, taken out or kept: m tokens for n. *)
Refits(w, t, m, n) ==
    /\ w \in Seq(Token) /\ w[1] = Bos /\ Len(w) = 1 + m + (Len(t) - (1 + n))
    /\ \A i \in 2..m + 1 : w[i] = MaxToken
    /\ \A i \in 1..(Len(t) - (1 + n)) : w[1 + m + i] = t[1 + n + i]
LEMMA PrefixedIs ==
    ASSUME NEW n \in Nat, n = prefixLen, NEW t, Framed(t, n), NEW on \in BOOLEAN,
           NEW m \in Nat, m = IF on THEN PrefixLen ELSE 0
    PROVE  Refits(WithPrefix(t, on), t, m, n)
<1> DEFINE body == SubSeq(t, 2 + n, Len(t))
           P == IF on THEN Repeated(MaxToken, PrefixLen) ELSE <<>>
           h == <<Bos>> \o P
           w == WithPrefix(t, on)
<1>1. t \in Seq(Token) /\ Len(t) \in Nat /\ 1 + n <= Len(t)
  <2>1. Behead \in 0..1 /\ 1 + n + Behead <= Len(t) /\ t \in Seq(Token)
    BY DEF Behead, Framed
  <2>2. Len(t) \in Nat
    BY <2>1, LenProperties
  <2> QED BY <2>1, <2>2
<1>2. PICK r \in Nat : r = Len(t) - (1 + n)
  <2>1. PICK L \in Nat : L = Len(t)
    BY <1>1
  <2>2. L - (1 + n) \in Nat
    BY <1>1, <2>1
  <2> QED BY <2>1, <2>2
<1>3. body \in Seq(Token) /\ Len(body) = r /\ \A i \in 1..r : body[i] = t[1 + n + i]
  <2>1. 2 + n \in Nat \ {0} /\ Len(t) <= Len(t) /\ 2 + n <= Len(t) + 1
    BY <1>1
  <2>2. body \in Seq(Token) /\ Len(body) = Len(t) + 1 - (2 + n)
        /\ \A i \in 1..(Len(t) + 1 - (2 + n)) : body[i] = t[2 + n + i - 1]
    BY <1>1, <2>1, CutIs
  <2>3. Len(t) + 1 - (2 + n) = r /\ \A i \in 1..r : 2 + n + i - 1 = 1 + n + i
    BY <1>1, <1>2
  <2> QED BY <2>2, <2>3
<1>4. P \in Seq(Token) /\ Len(P) = m /\ \A i \in 1..m : P[i] = MaxToken
  <2>1. CASE on
    <3>1. P = [i \in 1..m |-> MaxToken]
      BY <2>1 DEF Repeated
    <3>2. P \in [1..m -> Token]
      BY <3>1, KindsAre
    <3>3. P \in Seq(Token) /\ DOMAIN P = 1..m
      BY <3>1, <3>2, SeqDef
    <3>4. Len(P) = m
      BY <3>3, LenProperties
    <3> QED BY <3>1, <3>3, <3>4
  <2>2. CASE ~on
    <3>1. P = <<>> /\ m = 0
      BY <2>2
    <3>2. <<>> \in Seq(Token) /\ Len(<<>>) = 0
      OBVIOUS
    <3>3. 1..m = {}
      BY <3>1
    <3> QED BY <3>1, <3>2, <3>3
  <2> QED BY <2>1, <2>2
<1> HIDE DEF body, P
<1>5. <<Bos>> \in Seq(Token) /\ Len(<<Bos>>) = 1 /\ <<Bos>>[1] = Bos
    BY KindsAre
<1>6. /\ h \in Seq(Token) /\ Len(h) = 1 + m /\ h[1] = Bos
      /\ \A i \in 1..m : h[1 + i] = MaxToken
  <2>1. /\ h \in Seq(Token) /\ Len(h) = Len(<<Bos>>) + Len(P)
        /\ \A i \in 1..Len(<<Bos>>) : h[i] = <<Bos>>[i]
        /\ \A i \in 1..Len(P) : h[Len(<<Bos>>) + i] = P[i]
    BY <1>4, <1>5, JoinIs
  <2>2. 1 \in 1..1
    OBVIOUS
  <2> QED BY <1>4, <1>5, <2>1, <2>2
<1> HIDE DEF h
<1>7. w = h \o body
    BY DEF WithPrefix, h, P, body
<1>8. /\ w \in Seq(Token) /\ Len(w) = 1 + m + r
      /\ \A i \in 1..(1 + m) : w[i] = h[i]
      /\ \A i \in 1..r : w[1 + m + i] = body[i]
  <2>1. /\ h \o body \in Seq(Token) /\ Len(h \o body) = Len(h) + Len(body)
        /\ \A i \in 1..Len(h) : (h \o body)[i] = h[i]
        /\ \A i \in 1..Len(body) : (h \o body)[Len(h) + i] = body[i]
    <3>1. h \in Seq(Token) /\ body \in Seq(Token)
      BY <1>3, <1>6
    <3> QED BY <3>1, JoinIs
  <2> QED BY <1>3, <1>6, <1>7, <2>1
<1> HIDE DEF w
<1>9. w[1] = Bos
  <2>1. 1 \in 1..(1 + m)
    OBVIOUS
  <2> QED BY <1>6, <1>8, <2>1
<1>10. \A i \in 2..m + 1 : w[i] = MaxToken
  <2> TAKE i \in 2..m + 1
  <2>1. PICK j \in 1..m : i = 1 + j
    <3>1. i - 1 \in 1..m /\ i = 1 + (i - 1)
      OBVIOUS
    <3> QED BY <3>1
  <2>2. i \in 1..(1 + m)
    OBVIOUS
  <2> QED BY <1>6, <1>8, <2>1, <2>2
<1>11. \A i \in 1..r : w[1 + m + i] = t[1 + n + i]
    BY <1>3, <1>8
<1> QED
    BY <1>2, <1>8, <1>9, <1>10, <1>11 DEF w, Refits

LEMMA Reframed ==
    ASSUME NEW n \in Nat, n = prefixLen, NEW t, NEW opens \in Nat, NEW users \in Nat,
           Talk(t, n, opens, users), NEW on \in BOOLEAN,
           NEW m \in Nat, m = IF on THEN PrefixLen ELSE 0
    PROVE  /\ Talk(WithPrefix(t, on), m, opens, users)
           /\ WithPrefix(t, on)[Len(WithPrefix(t, on))] = Eos => t[Len(t)] = Eos
           /\ m = n => WithPrefix(t, on) = t
<1> DEFINE w == WithPrefix(t, on)
<1>1. Framed(t, n)
    BY DEF Talk
<1>2. /\ w \in Seq(Token) /\ Len(w) = 1 + m + (Len(t) - (1 + n)) /\ w[1] = Bos
      /\ \A i \in 2..m + 1 : w[i] = MaxToken
      /\ \A i \in 1..(Len(t) - (1 + n)) : w[1 + m + i] = t[1 + n + i]
  <2>1. Refits(WithPrefix(t, on), t, m, n)
    BY <1>1, PrefixedIs
  <2> QED BY <2>1 DEF Refits
<1> HIDE DEF w
<1>3. /\ Len(t) \in Nat /\ Behead \in 0..1 /\ 1 + n + Behead <= Len(t) /\ DOMAIN t = 1..Len(t)
      /\ Len(Body(t, n)) = Len(t) - (1 + n + Behead) /\ Body(t, n) \in Seq(Token)
      /\ DOMAIN Body(t, n) = 1..Len(Body(t, n))
      /\ \A i \in 1..(Len(t) - (1 + n + Behead)) : Body(t, n)[i] = t[1 + n + Behead + i]
  <2>1. 1 + n + Behead <= Len(t)
    BY <1>1 DEF Framed
  <2> QED BY <1>1, <2>1, BodyIs, Zenon
<1>3a. Behead \in 0..1
    BY <1>3, Zenon
<1>4. PICK h \in 0..1 : h = Behead
    BY <1>3a
<1>5. PICK r \in Nat : r = Len(t) - (1 + n + h)
  <2>1. PICK L \in Nat : L = Len(t) /\ 1 + n + h <= L
    BY <1>3, <1>4
  <2>2. L - (1 + n + h) \in Nat
    BY <2>1
  <2> QED BY <2>1, <2>2
<1>6. Len(t) = 1 + n + h + r /\ Len(w) = 1 + m + h + r /\ Len(t) - (1 + n) = h + r
    BY <1>2, <1>3, <1>4, <1>5
<1>7. Framed(w, m)
  <2>1. 1 + m + Behead <= Len(w)
    BY <1>4, <1>6
  <2>2. ASSUME System PROVE w[2 + m] = SystemToken
    <3>1. h = 1
      BY <1>4, <2>2 DEF Behead
    <3>2. 1 \in 1..(h + r) /\ 1 + m + 1 = 2 + m /\ 1 + n + 1 = 2 + n
      BY <3>1
    <3>3. w[2 + m] = t[2 + n]
      BY <1>2, <1>6, <3>2
    <3> QED BY <1>1, <2>2, <3>3 DEF Framed
  <2> QED BY <1>2, <2>1, <2>2 DEF Framed
<1>8. Body(w, m) = Body(t, n)
  <2>1. /\ Len(Body(w, m)) = Len(w) - (1 + m + Behead) /\ Body(w, m) \in Seq(Token)
        /\ \A i \in 1..(Len(w) - (1 + m + Behead)) : Body(w, m)[i] = w[1 + m + Behead + i]
    BY <1>7, BodyIs, Zenon
  <2>2. Len(w) - (1 + m + h) = r
    BY <1>6
  <2>3. Len(Body(w, m)) = r /\ Len(Body(t, n)) = r
    BY <1>3, <1>4, <1>5, <2>1, <2>2
  <2>4. ASSUME NEW i \in 1..r PROVE Body(w, m)[i] = Body(t, n)[i]
    <3>1. h + i \in 1..(h + r) /\ 1 + m + h + i = 1 + m + (h + i) /\ 1 + n + h + i = 1 + n + (h + i)
      OBVIOUS
    <3>2. w[1 + m + h + i] = t[1 + n + h + i]
      BY <1>2, <1>6, <3>1
    <3>3. Body(w, m)[i] = w[1 + m + h + i]
      BY <1>4, <2>1, <2>2
    <3>4. Body(t, n)[i] = t[1 + n + h + i]
      BY <1>3, <1>4, <1>5
    <3> QED BY <3>2, <3>3, <3>4
  <2> QED BY <1>3, <2>1, <2>3, <2>4, SeqEqual
<1>9. Cardinality(Users(w)) <= users
  <2>1. DOMAIN w = 1..Len(w)
    BY <1>2, LenProperties
  <2>2. Users(w) \in SUBSET (1..(1 + m + h + r)) /\ Users(t) \in SUBSET (1..(1 + n + h + r))
    BY <1>3, <1>6, <2>1 DEF Users
  <2>3. 1 + m + h + r \in Nat /\ 1 + n + h + r \in Nat
    OBVIOUS
  <2>4. IsFiniteSet(Users(t)) /\ Cardinality(Users(t)) \in Nat /\ Cardinality(Users(w)) \in Nat
    BY <2>2, <2>3, FiniteParts
  <2>5. ASSUME NEW i \in Users(w) PROVE \E j \in 1..(h + r) : i = 1 + m + j /\ 1 + n + j \in Users(t)
    <3>1. i \in 1..(1 + m + h + r) /\ w[i][1] = "user"
      BY <2>2, <2>5 DEF Users
    <3>2. i # 1 /\ i \notin 2..m + 1
      BY <1>2, <3>1, KindsAre
    <3>3. i - (1 + m) \in 1..(h + r) /\ i = 1 + m + (i - (1 + m)) /\ 1 + n + (i - (1 + m)) \in 1..(1 + n + h + r)
      BY <3>1, <3>2
    <3>4. w[i] = t[1 + n + (i - (1 + m))]
      BY <1>2, <1>6, <3>3
    <3>5. 1 + n + (i - (1 + m)) \in Users(t)
      BY <1>3, <1>6, <3>1, <3>3, <3>4 DEF Users
    <3> QED BY <3>3, <3>5
  <2> DEFINE shift == [i \in Users(w) |-> i - (1 + m) + (1 + n)]
  <2>6. shift \in [Users(w) -> Users(t)]
    <3>1. ASSUME NEW i \in Users(w) PROVE i - (1 + m) + (1 + n) \in Users(t)
      <4>1. PICK j \in 1..(h + r) : i = 1 + m + j /\ 1 + n + j \in Users(t)
        BY <2>5
      <4>2. i - (1 + m) + (1 + n) = 1 + n + j
        BY <4>1
      <4> QED BY <4>1, <4>2
    <3> QED BY <3>1
  <2>7. \A i, j \in Users(w) : shift[i] = shift[j] => i = j
    BY <2>2
  <2>8. shift \in Injection(Users(w), Users(t))
    BY <2>6, <2>7 DEF Injection, IsInjective
  <2> HIDE DEF shift
  <2>9. Cardinality(Users(w)) <= Cardinality(Users(t))
    BY <2>4, <2>8, FS_Injection
  <2> QED BY <2>4, <2>9 DEF Talk
<1>10. Talk(w, m, opens, users)
    BY <1>7, <1>8, <1>9 DEF Talk
<1>11. ASSUME w[Len(w)] = Eos PROVE t[Len(t)] = Eos
  <2>1. Eos # Bos /\ Eos # MaxToken
    BY KindsAre
  <2>2. CASE h + r = 0
    <3>1. Len(w) = 1 + m
      BY <1>6, <2>2
    <3>2. Len(w) = 1 \/ Len(w) \in 2..m + 1
      BY <3>1
    <3> QED BY <1>2, <1>11, <2>1, <3>2
  <2>3. CASE h + r > 0
    <3>1. h + r \in 1..(h + r) /\ 1 + m + (h + r) = Len(w) /\ 1 + n + (h + r) = Len(t)
      BY <1>6, <2>3
    <3> QED BY <1>2, <1>6, <1>11, <3>1
  <2> QED BY <2>2, <2>3
<1>12. ASSUME m = n PROVE w = t
  <2>1. Len(w) = 1 + n + h + r /\ Len(t) = 1 + n + h + r
    BY <1>6, <1>12
  <2>2. ASSUME NEW i \in 1..(1 + n + h + r) PROVE w[i] = t[i]
    <3>1. CASE i = 1
      BY <1>1, <1>2, <3>1 DEF Framed
    <3>2. CASE i \in 2..n + 1
      BY <1>1, <1>2, <1>12, <3>2 DEF Framed
    <3>3. CASE i > n + 1
      <4>1. i - (1 + n) \in 1..(h + r) /\ 1 + n + (i - (1 + n)) = i
        BY <3>3
      <4> QED BY <1>2, <1>6, <1>12, <4>1
    <3>4. i = 1 \/ i \in 2..n + 1 \/ i > n + 1
      OBVIOUS
    <3> QED BY <3>1, <3>2, <3>3, <3>4
  <2>3. t \in Seq(Token)
    BY <1>1 DEF Framed
  <2> QED BY <1>2, <2>1, <2>2, <2>3, SeqEqual
<1> QED
    BY <1>10, <1>11, <1>12 DEF w

LEMMA Weaker ==
    ASSUME NEW n \in Nat, NEW t, NEW o1 \in Nat, NEW u1 \in Nat, Talk(t, n, o1, u1),
           NEW o2 \in Nat, NEW u2 \in Nat, o1 <= o2, u1 <= u2
    PROVE  Talk(t, n, o2, u2)
<1>1. Framed(t, n) /\ WholeTurns(Body(t, n)) /\ OpenTurns(Body(t, n)) <= o1 /\ Cardinality(Users(t)) <= u1
    BY DEF Talk
<1>2. DOMAIN t = 1..Len(t) /\ Len(t) \in Nat /\ DOMAIN Body(t, n) = 1..Len(Body(t, n)) /\ Len(Body(t, n)) \in Nat
    BY <1>1, BodyIs, Zenon
<1>3. Cardinality(Users(t)) \in Nat
  <2>1. Users(t) \in SUBSET (1..Len(t))
    BY <1>2 DEF Users
  <2> QED BY <1>2, <2>1, FiniteParts
<1>4. OpenTurns(Body(t, n)) \in Nat
  <2>1. Open(Body(t, n)) \in SUBSET (1..Len(Body(t, n)))
    BY <1>2 DEF Open
  <2>2. Cardinality(Open(Body(t, n))) \in Nat
    BY <1>2, <2>1, FiniteParts
  <2> QED BY <2>2 DEF OpenTurns, Open
<1>5. OpenTurns(Body(t, n)) <= o2 /\ Cardinality(Users(t)) <= u2
    BY <1>1, <1>3, <1>4
<1> QED
    BY <1>1, <1>5 DEF Talk

LEMMA BeginsIs ==
    ASSUME NEW s \in Seq(Token), NEW l \in Seq(Token)
    PROVE  IsBeginning(s, l) <=> Len(s) <= Len(l) /\ \A i \in 1..Len(s) : s[i] = l[i]
<1>1. Len(s) \in Nat /\ Len(l) \in Nat
    BY LenProperties
<1>2. ASSUME Len(s) <= Len(l) PROVE SubSeq(l, 1, Len(s)) = s <=> \A i \in 1..Len(s) : s[i] = l[i]
  <2>1. 1 \in Nat \ {0} /\ 1 <= Len(s) + 1
    BY <1>1
  <2>2. /\ SubSeq(l, 1, Len(s)) \in Seq(Token) /\ Len(SubSeq(l, 1, Len(s))) = Len(s) + 1 - 1
        /\ \A i \in 1..(Len(s) + 1 - 1) : SubSeq(l, 1, Len(s))[i] = l[1 + i - 1]
    BY <1>1, <1>2, <2>1, CutIs
  <2>3. Len(s) + 1 - 1 = Len(s) /\ \A i \in 1..Len(s) : 1 + i - 1 = i
    BY <1>1
  <2>4. /\ SubSeq(l, 1, Len(s)) \in Seq(Token) /\ Len(SubSeq(l, 1, Len(s))) = Len(s)
        /\ \A i \in 1..Len(s) : SubSeq(l, 1, Len(s))[i] = l[i]
    BY <2>2, <2>3
  <2>5. ASSUME \A i \in 1..Len(s) : s[i] = l[i] PROVE SubSeq(l, 1, Len(s)) = s
    BY <2>4, <2>5, SeqEqual
  <2> QED BY <2>4, <2>5
<1> QED
    BY <1>2 DEF IsBeginning

(* What is kept of a transcript that grew. *)
LEMMA KeptIs ==
    ASSUME NEW t \in Seq(Token), NEW x \in Seq(Token), NEW k \in 0..Len(t)
    PROVE  /\ SubSeq(t \o x, 1, k) = SubSeq(t, 1, k) /\ SubSeq(t, 1, k) \in Seq(Token)
           /\ Len(SubSeq(t, 1, k)) = k /\ \A i \in 1..k : SubSeq(t, 1, k)[i] = t[i]
<1>1. /\ t \o x \in Seq(Token) /\ Len(t \o x) = Len(t) + Len(x) /\ Len(t) \in Nat /\ Len(x) \in Nat
      /\ \A i \in 1..Len(t) : (t \o x)[i] = t[i]
    BY JoinIs
<1>2. ASSUME NEW s \in Seq(Token), k <= Len(s)
      PROVE  SubSeq(s, 1, k) \in Seq(Token) /\ Len(SubSeq(s, 1, k)) = k /\ \A i \in 1..k : SubSeq(s, 1, k)[i] = s[i]
  <2>1. 1 \in Nat \ {0} /\ k \in Nat /\ 1 <= k + 1
    BY <1>1
  <2>2. /\ SubSeq(s, 1, k) \in Seq(Token) /\ Len(SubSeq(s, 1, k)) = k + 1 - 1
        /\ \A i \in 1..(k + 1 - 1) : SubSeq(s, 1, k)[i] = s[1 + i - 1]
    BY <1>2, <2>1, CutIs
  <2>3. k + 1 - 1 = k /\ \A i \in 1..k : 1 + i - 1 = i
    BY <2>1
  <2> QED BY <2>2, <2>3
<1>3. k <= Len(t) /\ k <= Len(t \o x) /\ k \in Nat
    BY <1>1
<1>4. SubSeq(t, 1, k) \in Seq(Token) /\ Len(SubSeq(t, 1, k)) = k /\ \A i \in 1..k : SubSeq(t, 1, k)[i] = t[i]
    BY <1>2, <1>3
<1>5. /\ SubSeq(t \o x, 1, k) \in Seq(Token) /\ Len(SubSeq(t \o x, 1, k)) = k
      /\ \A i \in 1..k : SubSeq(t \o x, 1, k)[i] = (t \o x)[i]
    BY <1>1, <1>2, <1>3
<1>6. \A i \in 1..k : SubSeq(t \o x, 1, k)[i] = SubSeq(t, 1, k)[i]
  <2>1. \A i \in 1..k : i \in 1..Len(t)
    BY <1>1
  <2> QED BY <1>1, <1>4, <1>5, <2>1
<1> QED
    BY <1>4, <1>5, <1>6, SeqEqual

(* A turn that is under way: its message, the mark, the reply so far. *)
Speaks(t, k) ==
    /\ k + 2 <= Len(t) /\ t[k + 1][1] = "user" /\ t[k + 2][1] = "assistant"
    /\ \A i \in k + 3..Len(t) : t[i][1] = "reply"

LEMMA SpeaksOn ==
    ASSUME NEW t \in Seq(Token), NEW k \in Nat, Speaks(t, k), NEW x \in Seq(Token),
           \A i \in 1..Len(x) : x[i][1] = "reply"
    PROVE  Speaks(t \o x, k)
<1>1. /\ t \o x \in Seq(Token) /\ Len(t \o x) = Len(t) + Len(x) /\ Len(t) \in Nat /\ Len(x) \in Nat
      /\ \A i \in 1..Len(t) : (t \o x)[i] = t[i]
      /\ \A i \in 1..Len(x) : (t \o x)[Len(t) + i] = x[i]
    BY JoinIs
<1>2. PICK L \in Nat : L = Len(t)
    BY <1>1
<1>3. PICK w \in Nat : w = Len(x)
    BY <1>1
<1>4. k + 2 <= L /\ k + 1 \in 1..L /\ k + 2 \in 1..L /\ k + 2 <= L + w
    BY <1>2 DEF Speaks
<1>5. ASSUME NEW i \in k + 3..L + w PROVE (t \o x)[i][1] = "reply"
  <2>1. CASE i <= L
    <3>1. i \in k + 3..L /\ i \in 1..L
      BY <2>1
    <3> QED BY <1>1, <1>2, <3>1 DEF Speaks
  <2>2. CASE i > L
    <3>1. i - L \in 1..w /\ L + (i - L) = i
      BY <2>2
    <3>2. (t \o x)[L + (i - L)] = x[i - L]
      BY <1>1, <1>2, <1>3, <3>1
    <3> QED BY <1>3, <3>1, <3>2
  <2>3. i <= L \/ i > L
    <3>1. i \in Int /\ L \in Int
      BY <1>2
    <3> QED BY <3>1
  <2> QED BY <2>1, <2>2, <2>3, Zenon
<1> QED
    BY <1>1, <1>2, <1>3, <1>4, <1>5 DEF Speaks

LEMMA SpeaksIs ==
    ASSUME NEW t \in Seq(Token), NEW k \in Nat, Speaks(t, k)
    PROVE  /\ k \in 0..Len(t) /\ Adds(t, k) /\ ~Closed(t) /\ t[Len(t)] # Eos
           /\ Append(t, Eos) \in Seq(Token)
           /\ Adds(Append(t, Eos), k) /\ Closed(Append(t, Eos))
           /\ SubSeq(Append(t, Eos), 1, k) = SubSeq(t, 1, k)
<1>1. PICK L \in Nat : L = Len(t)
    BY LenProperties
<1>2. k + 2 <= L /\ k \in 0..L /\ k + 1 \in 1..L /\ k + 2 \in 1..L
    BY <1>1 DEF Speaks
<1>3. Adds(t, k)
  <2>1. \A i \in k + 3..L - 1 : i \in k + 3..L
    OBVIOUS
  <2>2. k + 2 < L => L \in k + 3..L
    BY <1>2
  <2> QED BY <1>1, <1>2, <2>1, <2>2 DEF Adds, Speaks
<1>4. t[L][1] \in {"assistant", "reply"}
  <2>1. L = k + 2 \/ L \in k + 3..L
    BY <1>2
  <2> QED BY <1>1, <2>1 DEF Speaks
<1>5. ~Closed(t) /\ t[Len(t)] # Eos
    BY <1>1, <1>4, KindsAre DEF Closed
<1> DEFINE e == Append(t, Eos)
<1>6. e \in Seq(Token) /\ Len(e) = L + 1 /\ e[L + 1] = Eos /\ \A i \in 1..L : e[i] = t[i]
    BY <1>1, KindsAre, AppendProperties
<1>7. SubSeq(e, 1, k) = SubSeq(t, 1, k)
  <2>1. <<Eos>> \in Seq(Token) /\ e = t \o <<Eos>>
    BY KindsAre, AppendIsConcat
  <2>2. k \in 0..Len(t)
    BY <1>1, <1>2
  <2> QED BY <2>1, <2>2, KeptIs
<1> HIDE DEF e
<1>8. Closed(e)
    BY <1>6, KindsAre DEF Closed
<1>9. Adds(e, k)
  <2>1. k + 2 <= L + 1 /\ L + 1 - 1 = L
    BY <1>2
  <2>2. \A i \in k + 3..L : i \in 1..L
    OBVIOUS
  <2>3. \A i \in k + 3..L + 1 - 1 : e[i][1] = "reply"
    BY <1>1, <1>6, <2>1, <2>2 DEF Speaks
  <2>4. e[L + 1][1] \in {"reply", "eos"}
    BY <1>6, KindsAre
  <2> QED BY <1>1, <1>2, <1>6, <2>1, <2>3, <2>4 DEF Adds, Speaks
<1> QED
    BY <1>1, <1>2, <1>3, <1>5, <1>6, <1>7, <1>8, <1>9 DEF e

-----------------------------------------------------------------------------
(* The dialogue: what holds between the transcript, the session, the turn
   under way and the printer.                                               *)
HSpec == HInit /\ [][HNext]_hvars

Failed == FailureBound - left.failures
Taken == TurnBound - left.turns

HTypes ==
    /\ at \in {"prompt", "sync", "decode", "quit"}
    /\ prefixLen \in Nat /\ ctx \in Nat
    /\ session \in [open : BOOLEAN, valid : BOOLEAN, tokens : Seq(Token)]
    /\ turn \in [rollback : Nat, generated : Nat, limit : Nat, think : BOOLEAN]
    /\ left \in [turns : 0..TurnBound, commands : Nat, signals : Nat, failures : 0..FailureBound]
PrefixInForce == at # "quit" => prefixLen = IF Effective(mode, ctx) = "max" THEN PrefixLen ELSE 0
ShownWhole(t) == t[Len(t)] = Eos => printer.text = <<>> \/ Done(printer)

BetweenTurns ==
    at = "prompt" =>
        /\ Talk(transcript, prefixLen, Failed, Taken)
        /\ session.valid => IsBeginning(session.tokens, transcript)
        /\ ShownWhole(transcript)
InTurn ==
    at \in {"sync", "decode"} =>
        /\ left.turns < TurnBound /\ transcript \in Seq(Token)
        /\ Talk(Kept, prefixLen, Failed, Taken - 1) /\ Speaks(transcript, turn.rollback)
Evaluates ==
    at = "sync" =>
        /\ session.valid => IsBeginning(session.tokens, Kept)
        /\ ShownWhole(Kept)
Replies ==
    at = "decode" =>
        /\ session.valid /\ Faithful(printer)
        /\ session.tokens = transcript
               \/ (session.tokens = Append(transcript, Eos) /\ turn.limit = 0)
Dialogue == HTypes /\ PrefixInForce /\ BetweenTurns /\ InTurn /\ Evaluates /\ Replies

LEMMA CountsAre ==
    ASSUME HTypes
    PROVE  /\ Failed \in Nat /\ Taken \in Nat
           /\ left.turns \in Nat /\ left.failures \in Nat
           /\ left.turns < TurnBound => Taken - 1 \in Nat /\ Taken - 1 + 1 = Taken
<1>1. left.turns \in 0..TurnBound /\ left.failures \in 0..FailureBound
    BY DEF HTypes
<1> QED
    BY <1>1, ChatAssumption DEF Failed, Taken

LEMMA DialogueStarts ==
    ASSUME HInit
    PROVE  Dialogue
<1>1. PICK n \in Nat : n = prefixLen
    BY ChatAssumption DEF HInit
<1> DEFINE P == Repeated(MaxToken, n)
           S == IF System THEN <<SystemToken>> ELSE <<>>
           h == <<Bos>> \o P
           w == h \o S
<1>2. P \in Seq(Token) /\ Len(P) = n /\ \A i \in 1..n : P[i] = MaxToken
  <2>1. P = [i \in 1..n |-> MaxToken]
    BY DEF Repeated
  <2>2. P \in [1..n -> Token]
    BY <2>1, KindsAre
  <2>3. P \in Seq(Token) /\ DOMAIN P = 1..n
    BY <2>1, <2>2, SeqDef
  <2> QED BY <2>1, <2>3, LenProperties
<1>3. S \in Seq(Token) /\ Len(S) = Behead /\ Behead \in 0..1 /\ (System => S[1] = SystemToken)
    BY KindsAre DEF Behead
<1>4. <<Bos>> \in Seq(Token) /\ Len(<<Bos>>) = 1 /\ <<Bos>>[1] = Bos
    BY KindsAre
<1> HIDE DEF P, S
<1>5. /\ h \in Seq(Token) /\ Len(h) = 1 + n /\ h[1] = Bos
      /\ \A i \in 1..n : h[1 + i] = MaxToken
  <2>1. /\ h \in Seq(Token) /\ Len(h) = Len(<<Bos>>) + Len(P)
        /\ \A i \in 1..Len(<<Bos>>) : h[i] = <<Bos>>[i]
        /\ \A i \in 1..Len(P) : h[Len(<<Bos>>) + i] = P[i]
    BY <1>2, <1>4, JoinIs
  <2>2. 1 \in 1..1
    OBVIOUS
  <2> QED BY <1>2, <1>4, <2>1, <2>2
<1> HIDE DEF h
<1>6. PICK b \in 0..1 : b = Behead
    BY <1>3
<1>7. /\ w \in Seq(Token) /\ Len(w) = 1 + n + b
      /\ \A i \in 1..(1 + n) : w[i] = h[i]
      /\ \A i \in 1..b : w[1 + n + i] = S[i]
  <2>1. /\ h \o S \in Seq(Token) /\ Len(h \o S) = Len(h) + Len(S)
        /\ \A i \in 1..Len(h) : (h \o S)[i] = h[i]
        /\ \A i \in 1..Len(S) : (h \o S)[Len(h) + i] = S[i]
    <3>1. h \in Seq(Token) /\ S \in Seq(Token)
      BY <1>3, <1>5
    <3> QED BY <3>1, JoinIs
  <2> QED BY <1>3, <1>5, <1>6, <2>1
<1>8. transcript = w
    BY <1>1 DEF HInit, w, h, P, S
<1> HIDE DEF w
<1>9. Framed(w, n)
  <2>1. 1 + n + Behead <= Len(w)
    BY <1>6, <1>7
  <2>2. w[1] = Bos
    <3>1. 1 \in 1..(1 + n)
      OBVIOUS
    <3> QED BY <1>5, <1>7, <3>1
  <2>3. ASSUME NEW i \in 2..n + 1 PROVE w[i] = MaxToken
    <3>1. i - 1 \in 1..n /\ i = 1 + (i - 1) /\ i \in 1..(1 + n)
      OBVIOUS
    <3>2. h[1 + (i - 1)] = MaxToken
      BY <1>5, <3>1
    <3> QED BY <1>7, <3>1, <3>2
  <2>4. ASSUME System PROVE w[2 + n] = SystemToken
    <3>1. b = 1
      BY <1>6, <2>4 DEF Behead
    <3>2. 1 \in 1..b /\ 1 + n + 1 = 2 + n
      BY <3>1
    <3>3. w[2 + n] = S[1]
      BY <1>7, <3>2
    <3> QED BY <1>3, <2>4, <3>3
  <2> QED BY <1>7, <2>1, <2>2, <2>3, <2>4 DEF Framed
<1>10. Body(w, n) \in Seq(Token) /\ Len(Body(w, n)) = 0 /\ DOMAIN Body(w, n) = {}
  <2>1. /\ Len(Body(w, n)) = Len(w) - (1 + n + Behead) /\ Body(w, n) \in Seq(Token)
        /\ DOMAIN Body(w, n) = 1..Len(Body(w, n))
    BY <1>9, BodyIs, Zenon
  <2>2. Len(w) - (1 + n + b) = 0
    BY <1>7
  <2>3. 1..0 = {}
    OBVIOUS
  <2> QED BY <1>6, <2>1, <2>2, <2>3
<1>11. WholeTurns(Body(w, n)) /\ OpenTurns(Body(w, n)) = 0
  <2>1. Cardinality({}) = 0
    BY FS_EmptySet
  <2>2. Open(Body(w, n)) = {}
    BY <1>10 DEF Open
  <2> QED BY <1>10, <2>1, <2>2, WholeIs DEF OpenTurns, Open
<1>12. \A i \in 1..(1 + n + b) : w[i] \in {Bos, MaxToken, SystemToken}
  <2> TAKE i \in 1..(1 + n + b)
  <2>1. CASE i = 1 \/ i \in 2..n + 1
    BY <1>9, <2>1 DEF Framed
  <2>2. CASE i > n + 1
    <3>1. b = 1 /\ i = 2 + n
      BY <2>2
    <3>2. System
      BY <1>6, <3>1 DEF Behead
    <3> QED BY <1>9, <3>1, <3>2 DEF Framed
  <2>3. i \in Int
    OBVIOUS
  <2> QED BY <2>1, <2>2, <2>3
<1>13. Cardinality(Users(w)) = 0
  <2>1. DOMAIN w = 1..(1 + n + b)
    BY <1>7, LenProperties
  <2>2. Users(w) = {}
    BY <1>12, <2>1, KindsAre DEF Users
  <2> QED BY <2>2, FS_EmptySet
<1>14. Failed = 0 /\ Taken = 0 /\ at = "prompt" /\ session.valid = FALSE /\ printer.text = <<>>
  <2>1. printer.text = <<>>
    BY FreshIs DEF HInit
  <2>2. left.turns = TurnBound /\ left.failures = FailureBound /\ at = "prompt" /\ session.valid = FALSE
    BY DEF HInit
  <2>3. TurnBound - TurnBound = 0 /\ FailureBound - FailureBound = 0
    BY ChatAssumption
  <2> QED BY <2>1, <2>2, <2>3 DEF Failed, Taken
<1>15. BetweenTurns
    BY <1>1, <1>8, <1>9, <1>11, <1>13, <1>14 DEF BetweenTurns, Talk, ShownWhole
<1>16. HTypes
    BY <1>1, ChatAssumption, EmptySeq DEF HInit, HTypes
<1> QED
    BY <1>1, <1>14, <1>15, <1>16 DEF Dialogue, PrefixInForce, InTurn, Evaluates, Replies, HInit

(* The prefix goes where the mode asks for it, and the session is told. *)
LEMMA TogglesTo ==
    ASSUME Dialogue, at = "prompt", NEW on \in BOOLEAN,
           NEW m \in Nat, m = IF on THEN PrefixLen ELSE 0
    PROVE  /\ Talk(WithPrefix(transcript, on), m, Failed, Taken)
           /\ WithPrefix(transcript, on) \in Seq(Token)
           /\ ShownWhole(WithPrefix(transcript, on))
           /\ AfterToggle(session, on) \in [open : BOOLEAN, valid : BOOLEAN, tokens : Seq(Token)]
           /\ AfterToggle(session, on).valid =>
                  IsBeginning(AfterToggle(session, on).tokens, WithPrefix(transcript, on))
<1>1. PICK n \in Nat : n = prefixLen
    BY DEF Dialogue, HTypes
<1>2. Failed \in Nat /\ Taken \in Nat
    BY CountsAre DEF Dialogue
<1>3. /\ Talk(transcript, n, Failed, Taken) /\ ShownWhole(transcript)
      /\ session.valid => IsBeginning(session.tokens, transcript)
    BY <1>1 DEF Dialogue, BetweenTurns
<1>4. n \in {0, PrefixLen}
    BY <1>1 DEF Dialogue, PrefixInForce
<1>5. /\ Talk(WithPrefix(transcript, on), m, Failed, Taken)
      /\ WithPrefix(transcript, on)[Len(WithPrefix(transcript, on))] = Eos => transcript[Len(transcript)] = Eos
      /\ m = n => WithPrefix(transcript, on) = transcript
    BY <1>1, <1>2, <1>3, Reframed
<1>6. WithPrefix(transcript, on) \in Seq(Token)
    BY <1>5 DEF Talk, Framed
<1>7. ShownWhole(WithPrefix(transcript, on))
    BY <1>3, <1>5 DEF ShownWhole
<1>8. session \in [open : BOOLEAN, valid : BOOLEAN, tokens : Seq(Token)]
    BY DEF Dialogue, HTypes
<1>9. CASE Toggled(on)
  <2>1. AfterToggle(session, on) = [session EXCEPT !.valid = FALSE, !.tokens = <<>>]
    BY <1>9 DEF AfterToggle, Invalid
  <2>2. /\ AfterToggle(session, on) \in [open : BOOLEAN, valid : BOOLEAN, tokens : Seq(Token)]
        /\ AfterToggle(session, on).valid = FALSE
    BY <1>8, <2>1, EmptySeq
  <2> QED BY <1>5, <1>6, <1>7, <2>2
<1>10. CASE ~Toggled(on)
  <2>1. AfterToggle(session, on) = session
    BY <1>10 DEF AfterToggle
  <2>2. on <=> n > 0
    BY <1>1, <1>10 DEF Toggled
  <2>3. m = n
    BY <1>4, <2>2, ChatAssumption
  <2> QED BY <1>3, <1>5, <1>6, <1>7, <1>8, <2>1, <2>3
<1> QED
    BY <1>9, <1>10

LEMMA PromptStays ==
    ASSUME Dialogue, at = "prompt", at' = "prompt", NEW on \in BOOLEAN, ApplyPrefix(on),
           prefixLen' = (IF Effective(mode', ctx') = "max" THEN PrefixLen ELSE 0),
           session' \in [open : BOOLEAN, valid : BOOLEAN, tokens : Seq(Token)],
           session'.valid => session' = AfterToggle(session, on),
           left.commands > 0, left' = [left EXCEPT !.commands = @ - 1],
           ctx' \in Nat, UNCHANGED <<turn, printer>>
    PROVE  Dialogue'
<1>1. PICK m \in Nat : m = IF on THEN PrefixLen ELSE 0
    BY ChatAssumption
<1>2. /\ Talk(WithPrefix(transcript, on), m, Failed, Taken) /\ ShownWhole(WithPrefix(transcript, on))
      /\ AfterToggle(session, on).valid =>
             IsBeginning(AfterToggle(session, on).tokens, WithPrefix(transcript, on))
    BY <1>1, TogglesTo
<1>3. transcript' = WithPrefix(transcript, on) /\ prefixLen' = m
    BY <1>1 DEF ApplyPrefix
<1>4. left \in [turns : 0..TurnBound, commands : Nat, signals : Nat, failures : 0..FailureBound]
    BY DEF Dialogue, HTypes
<1>5. /\ left' \in [turns : 0..TurnBound, commands : Nat, signals : Nat, failures : 0..FailureBound]
      /\ left'.turns = left.turns /\ left'.failures = left.failures
    BY <1>4
<1>6. Failed' = Failed /\ Taken' = Taken
    BY <1>5 DEF Failed, Taken
<1>7. HTypes'
    BY <1>3, <1>5 DEF Dialogue, HTypes
<1>8. BetweenTurns'
  <2>1. Talk(transcript', prefixLen', Failed', Taken')
    BY <1>2, <1>3, <1>6
  <2>2. session'.valid => IsBeginning(session'.tokens, transcript')
    BY <1>2, <1>3
  <2>3. ShownWhole(transcript)'
    BY <1>2, <1>3 DEF ShownWhole
  <2> QED BY <2>1, <2>2, <2>3 DEF BetweenTurns
<1> QED
    BY <1>7, <1>8 DEF Dialogue, PrefixInForce, InTurn, Evaluates, Replies

LEMMA SettingKeeps ==
    ASSUME Dialogue, NEW m, SetMode(m)
    PROVE  Dialogue'
<1> DEFINE on == Effective(m, ctx) = "max"
<1>1. /\ at = "prompt" /\ at' = "prompt" /\ left.commands > 0 /\ mode' = m /\ ctx' = ctx
      /\ ApplyPrefix(on) /\ session' = AfterToggle(session, on)
      /\ left' = [left EXCEPT !.commands = @ - 1] /\ UNCHANGED <<turn, printer>>
    BY DEF SetMode
<1>2. on \in BOOLEAN /\ ctx' \in Nat
    BY <1>1 DEF Dialogue, HTypes
<1>3. prefixLen' = (IF Effective(mode', ctx') = "max" THEN PrefixLen ELSE 0)
    BY <1>1 DEF ApplyPrefix
<1>4. session' \in [open : BOOLEAN, valid : BOOLEAN, tokens : Seq(Token)]
  <2>1. PICK w \in Nat : w = IF on THEN PrefixLen ELSE 0
    BY ChatAssumption
  <2> HIDE DEF on
  <2> QED BY <1>1, <1>2, <2>1, TogglesTo
<1> HIDE DEF on
<1> QED
    BY <1>1, <1>2, <1>3, <1>4, PromptStays

LEMMA ResizingKeeps ==
    ASSUME Dialogue, NEW c \in CtxSizes, SetCtx(c)
    PROVE  Dialogue'
<1> DEFINE on == Effective(mode, c) = "max"
<1>1. CASE /\ session' = [open |-> TRUE, valid |-> FALSE, tokens |-> <<>>]
           /\ ctx' = c /\ ApplyPrefix(on)
           /\ left' = [left EXCEPT !.commands = @ - 1] /\ UNCHANGED at
  <2>1. /\ at = "prompt" /\ at' = "prompt" /\ left.commands > 0 /\ mode' = mode
        /\ UNCHANGED <<turn, printer>>
    BY <1>1 DEF SetCtx
  <2>2. on \in BOOLEAN /\ ctx' \in Nat
    BY <1>1, ChatAssumption
  <2>3. prefixLen' = (IF Effective(mode', ctx') = "max" THEN PrefixLen ELSE 0)
    BY <1>1, <2>1 DEF ApplyPrefix
  <2>4. session' \in [open : BOOLEAN, valid : BOOLEAN, tokens : Seq(Token)] /\ session'.valid = FALSE
    BY <1>1, EmptySeq
  <2> HIDE DEF on
  <2> QED BY <1>1, <2>1, <2>2, <2>3, <2>4, PromptStays
<1>2. CASE /\ left.failures > 0
           /\ session' = [open |-> FALSE, valid |-> FALSE, tokens |-> <<>>]
           /\ at' = "quit" /\ ctx' = 0
           /\ left' = [left EXCEPT !.commands = @ - 1, !.failures = @ - 1]
           /\ UNCHANGED <<transcript, prefixLen>>
  <2>1. left \in [turns : 0..TurnBound, commands : Nat, signals : Nat, failures : 0..FailureBound]
        /\ left.commands > 0 /\ UNCHANGED turn
    BY DEF Dialogue, HTypes, SetCtx
  <2>2. left' \in [turns : 0..TurnBound, commands : Nat, signals : Nat, failures : 0..FailureBound]
    <3>1. left.commands - 1 \in Nat /\ left.failures - 1 \in 0..FailureBound
      BY <1>2, <2>1, ChatAssumption
    <3> QED BY <1>2, <2>1, <3>1
  <2>3. session' \in [open : BOOLEAN, valid : BOOLEAN, tokens : Seq(Token)]
    BY <1>2, EmptySeq
  <2>4. HTypes'
    BY <1>2, <2>1, <2>2, <2>3 DEF Dialogue, HTypes
  <2> QED BY <1>2, <2>4 DEF Dialogue, PrefixInForce, BetweenTurns, InTurn, Evaluates, Replies
<1> QED
    BY <1>1, <1>2 DEF SetCtx

LEMMA QuietKeeps ==
    ASSUME Dialogue, Signal \/ NoLine \/ Quit
    PROVE  Dialogue'
<1>1. CASE Signal \/ NoLine
  <2>1. /\ UNCHANGED <<at, transcript, prefixLen, mode, ctx, session, turn, printer>>
        /\ left' = left \/ (left.signals > 0 /\ left' = [left EXCEPT !.signals = @ - 1])
    BY <1>1 DEF Signal, NoLine
  <2>2. left \in [turns : 0..TurnBound, commands : Nat, signals : Nat, failures : 0..FailureBound]
    BY DEF Dialogue, HTypes
  <2>3. /\ left' \in [turns : 0..TurnBound, commands : Nat, signals : Nat, failures : 0..FailureBound]
        /\ left'.turns = left.turns /\ left'.failures = left.failures
    BY <2>1, <2>2
  <2>4. Failed' = Failed /\ Taken' = Taken
    BY <2>3 DEF Failed, Taken
  <2>5. HTypes'
    BY <2>1, <2>3 DEF Dialogue, HTypes
  <2>6. PrefixInForce' /\ Evaluates' /\ Replies'
    BY <2>1 DEF Dialogue, PrefixInForce, Evaluates, Replies, Kept, ShownWhole
  <2>7. BetweenTurns'
    BY <2>1, <2>4 DEF Dialogue, BetweenTurns, ShownWhole
  <2>8. InTurn'
    BY <2>1, <2>3, <2>4 DEF Dialogue, InTurn, Kept
  <2> QED BY <2>5, <2>6, <2>7, <2>8 DEF Dialogue
<1>2. CASE Quit
  <2>1. session' \in [open : BOOLEAN, valid : BOOLEAN, tokens : Seq(Token)]
    BY <1>2, EmptySeq DEF Quit
  <2>2. HTypes'
    BY <1>2, <2>1 DEF Dialogue, HTypes, Quit
  <2> QED BY <1>2, <2>2 DEF Quit, Dialogue, PrefixInForce, BetweenTurns, InTurn, Evaluates, Replies
<1> QED
    BY <1>1, <1>2

LEMMA MessageIs ==
    ASSUME NEW base \in Seq(Token), NEW m \in Messages, NEW b \in BOOLEAN
    PROVE  LET t == base \o <<User(m), Assistant(b)>>
           IN  /\ t \in Seq(Token) /\ Len(base) \in Nat
               /\ SubSeq(t, 1, Len(base)) = base /\ Speaks(t, Len(base))
<1> DEFINE x == <<User(m), Assistant(b)>>
           t == base \o x
<1>1. x \in Seq(Token) /\ Len(x) = 2 /\ x[1] = User(m) /\ x[2] = Assistant(b)
    BY KindsAre
<1> HIDE DEF x
<1>2. /\ t \in Seq(Token) /\ Len(t) = Len(base) + 2 /\ Len(base) \in Nat
      /\ \A i \in 1..Len(x) : t[Len(base) + i] = x[i]
  <2>1. /\ base \o x \in Seq(Token) /\ Len(base \o x) = Len(base) + Len(x) /\ Len(base) \in Nat
        /\ \A i \in 1..Len(x) : (base \o x)[Len(base) + i] = x[i]
    <3>1. base \in Seq(Token) /\ x \in Seq(Token)
      BY <1>1
    <3> QED BY <3>1, JoinIs
  <2> QED BY <1>1, <2>1
<1>3. t[Len(base) + 1][1] = "user" /\ t[Len(base) + 2][1] = "assistant"
  <2>1. 1 \in 1..2 /\ 2 \in 1..2
    OBVIOUS
  <2> QED BY <1>1, <1>2, <2>1, KindsAre
<1>4. SubSeq(t, 1, Len(base)) = base
  <2>1. Len(base) \in 0..Len(base)
    BY <1>2
  <2>2. SubSeq(t, 1, Len(base)) = SubSeq(base, 1, Len(base)) /\ SubSeq(base, 1, Len(base)) \in Seq(Token)
        /\ Len(SubSeq(base, 1, Len(base))) = Len(base)
        /\ \A i \in 1..Len(base) : SubSeq(base, 1, Len(base))[i] = base[i]
    BY <1>1, <2>1, KeptIs
  <2> QED BY <2>2, SeqEqual
<1> HIDE DEF t
<1>5. Speaks(t, Len(base))
  <2>1. PICK n \in Nat : n = Len(base)
    BY <1>2
  <2>2. n + 3..n + 2 = {} /\ n + 2 <= n + 2
    OBVIOUS
  <2> QED BY <1>2, <1>3, <2>1, <2>2 DEF Speaks
<1> QED
    BY <1>2, <1>4, <1>5 DEF t, x

LEMMA BeginningKeeps ==
    ASSUME Dialogue, NEW m \in Messages, BeginTurn(m)
    PROVE  Dialogue'
<1> DEFINE think == Effective(mode, ctx)
           on == think = "max"
           base == WithPrefix(transcript, on)
<1>1. /\ at = "prompt" /\ left.turns > 0 /\ prefixLen' = (IF on THEN PrefixLen ELSE 0)
      /\ transcript' = base \o <<User(m), Assistant(Thinks(think))>>
      /\ session' = AfterToggle(session, on)
      /\ turn' = [rollback |-> Len(base), generated |-> 0, limit |-> 0, think |-> Thinks(think)]
      /\ left' = [left EXCEPT !.turns = @ - 1] /\ at' = "sync"
      /\ UNCHANGED <<mode, ctx, printer>>
    BY DEF BeginTurn
<1>2. PICK w \in Nat : w = IF on THEN PrefixLen ELSE 0
    BY ChatAssumption
<1>3. Thinks(think) \in BOOLEAN
    BY DEF Thinks
<1>4. prefixLen' = (IF Effective(mode', ctx') = "max" THEN PrefixLen ELSE 0)
    BY <1>1
<1>5. on \in BOOLEAN
    OBVIOUS
<1> HIDE DEF on, think
<1>6. /\ Talk(base, w, Failed, Taken) /\ base \in Seq(Token) /\ ShownWhole(base)
      /\ AfterToggle(session, on) \in [open : BOOLEAN, valid : BOOLEAN, tokens : Seq(Token)]
      /\ AfterToggle(session, on).valid => IsBeginning(AfterToggle(session, on).tokens, base)
    BY <1>1, <1>2, <1>5, TogglesTo
<1> HIDE DEF base
<1>7. /\ transcript' \in Seq(Token) /\ Len(base) \in Nat
      /\ SubSeq(transcript', 1, Len(base)) = base /\ Speaks(transcript', Len(base))
    BY <1>1, <1>3, <1>6, MessageIs
<1>8. left \in [turns : 0..TurnBound, commands : Nat, signals : Nat, failures : 0..FailureBound]
    BY DEF Dialogue, HTypes
<1>9. PICK k \in Nat : k = left.turns /\ k <= TurnBound /\ k > 0
    BY <1>1, <1>8
<1>10. /\ left' \in [turns : 0..TurnBound, commands : Nat, signals : Nat, failures : 0..FailureBound]
       /\ left'.turns = k - 1 /\ left'.failures = left.failures
  <2>1. k - 1 \in 0..TurnBound
    BY <1>9, ChatAssumption
  <2> QED BY <1>1, <1>8, <1>9, <2>1
<1>11. Failed' = Failed /\ Taken' - 1 = Taken /\ left'.turns < TurnBound
  <2>1. TurnBound - (k - 1) - 1 = TurnBound - k /\ k - 1 < TurnBound
    BY <1>9, ChatAssumption
  <2> QED BY <1>9, <1>10, <2>1 DEF Failed, Taken
<1>12. turn'.rollback = Len(base)
       /\ turn' \in [rollback : Nat, generated : Nat, limit : Nat, think : BOOLEAN]
    BY <1>1, <1>3, <1>7
<1>13. HTypes'
    BY <1>1, <1>2, <1>6, <1>10, <1>12 DEF Dialogue, HTypes
<1>14. Kept' = base
    BY <1>7, <1>12 DEF Kept
<1>15. InTurn'
    BY <1>1, <1>2, <1>6, <1>7, <1>11, <1>12, <1>14 DEF InTurn
<1>16. Evaluates'
    BY <1>1, <1>6, <1>14 DEF Evaluates, ShownWhole
<1> QED
    BY <1>1, <1>4, <1>13, <1>15, <1>16 DEF Dialogue, PrefixInForce, BetweenTurns, Replies

LEMMA SyncingKeeps ==
    ASSUME Dialogue, Synced
    PROVE  Dialogue'
<1>1. /\ at = "sync" /\ at' = "decode" /\ printer' = FreshPrinter(turn.think)
      /\ session' = [session EXCEPT !.valid = TRUE, !.tokens = transcript]
      /\ UNCHANGED <<transcript, prefixLen, mode, ctx, left>>
    BY DEF Synced
<1>2. transcript \in Seq(Token)
    BY <1>1 DEF Dialogue, InTurn
<1>3. /\ session \in [open : BOOLEAN, valid : BOOLEAN, tokens : Seq(Token)]
      /\ turn \in [rollback : Nat, generated : Nat, limit : Nat, think : BOOLEAN] /\ ctx \in Nat
    BY DEF Dialogue, HTypes
<1>4. PICK d \in Int : d = ctx - Len(transcript)
  <2>1. PICK L \in Nat : L = Len(transcript)
    BY <1>2, LenProperties
  <2>2. ctx - L \in Int
    BY <1>3, <2>1
  <2> QED BY <2>1, <2>2
<1>5. (IF d <= 1 THEN 0 ELSE Least(Predict, d - 1)) \in Nat
    BY ChatAssumption DEF Least
<1>6. /\ turn' \in [rollback : Nat, generated : Nat, limit : Nat, think : BOOLEAN]
      /\ turn'.rollback = turn.rollback
    BY <1>3, <1>4, <1>5 DEF Synced
<1>7. /\ session' \in [open : BOOLEAN, valid : BOOLEAN, tokens : Seq(Token)]
      /\ session'.valid /\ session'.tokens = transcript
    BY <1>1, <1>2, <1>3
<1>8. HTypes'
    BY <1>1, <1>6, <1>7 DEF Dialogue, HTypes
<1>9. Faithful(printer')
    BY <1>1, <1>3, FreshIs
<1>10. Replies'
    BY <1>1, <1>7, <1>9 DEF Replies
<1>11. InTurn'
  <2>1. Kept' = Kept
    BY <1>1, <1>6 DEF Kept
  <2> QED BY <1>1, <1>6, <2>1 DEF Dialogue, InTurn, Failed, Taken
<1> QED
    BY <1>1, <1>8, <1>10, <1>11 DEF Dialogue, PrefixInForce, BetweenTurns, Evaluates

(* A failure is counted: what was promised holds with one more. *)
LEMMA FailureIs ==
    ASSUME HTypes, left.failures > 0, left' = [left EXCEPT !.failures = @ - 1]
    PROVE  /\ left' \in [turns : 0..TurnBound, commands : Nat, signals : Nat, failures : 0..FailureBound]
           /\ Failed' = Failed + 1 /\ Taken' = Taken
<1>1. left \in [turns : 0..TurnBound, commands : Nat, signals : Nat, failures : 0..FailureBound]
    BY DEF HTypes
<1>2. PICK k \in Nat : k = left.failures /\ k <= FailureBound /\ k > 0
    BY <1>1
<1>3. k - 1 \in 0..FailureBound /\ FailureBound - (k - 1) = FailureBound - k + 1
    BY <1>2, ChatAssumption
<1>4. /\ left' \in [turns : 0..TurnBound, commands : Nat, signals : Nat, failures : 0..FailureBound]
      /\ left'.failures = k - 1 /\ left'.turns = left.turns
    BY <1>1, <1>2, <1>3
<1> QED
    BY <1>2, <1>3, <1>4 DEF Failed, Taken

LEMMA RefusingKeeps ==
    ASSUME Dialogue, SyncFails
    PROVE  Dialogue'
<1>1. /\ at = "sync" /\ at' = "prompt" /\ transcript' = Kept
      /\ UNCHANGED <<prefixLen, mode, ctx, turn, printer>>
    BY DEF SyncFails
<1>2. PICK n \in Nat : n = prefixLen
    BY DEF Dialogue, HTypes
<1>3. /\ Talk(Kept, n, Failed, Taken - 1) /\ left.turns < TurnBound
      /\ session.valid => IsBeginning(session.tokens, Kept)
      /\ ShownWhole(Kept)
    BY <1>1, <1>2 DEF Dialogue, InTurn, Evaluates
<1>4. Failed \in Nat /\ Taken \in Nat /\ Taken - 1 \in Nat /\ Taken - 1 + 1 = Taken
    BY <1>3, CountsAre DEF Dialogue
<1>5. /\ left' \in [turns : 0..TurnBound, commands : Nat, signals : Nat, failures : 0..FailureBound]
      /\ Failed' \in Nat /\ Failed' >= Failed /\ Taken' = Taken
      /\ session' \in [open : BOOLEAN, valid : BOOLEAN, tokens : Seq(Token)]
      /\ session'.valid => session' = session
  <2>1. /\ session \in [open : BOOLEAN, valid : BOOLEAN, tokens : Seq(Token)]
        /\ left \in [turns : 0..TurnBound, commands : Nat, signals : Nat, failures : 0..FailureBound]
    BY DEF Dialogue, HTypes
  <2>2. CASE UNCHANGED <<session, left>>
    BY <1>4, <2>1, <2>2 DEF Failed, Taken
  <2>3. CASE /\ left.failures > 0 /\ session' = [session EXCEPT !.valid = FALSE]
             /\ left' = [left EXCEPT !.failures = @ - 1]
    <3>1. /\ left' \in [turns : 0..TurnBound, commands : Nat, signals : Nat, failures : 0..FailureBound]
          /\ Failed' = Failed + 1 /\ Taken' = Taken
      BY <2>3, FailureIs DEF Dialogue
    <3>2. session' \in [open : BOOLEAN, valid : BOOLEAN, tokens : Seq(Token)] /\ session'.valid = FALSE
      BY <2>1, <2>3
    <3> QED BY <1>4, <3>1, <3>2
  <2> QED BY <2>2, <2>3 DEF SyncFails
<1>6. Talk(Kept, n, Failed', Taken')
  <2>1. Failed <= Failed' /\ Taken - 1 <= Taken' /\ Taken' \in Nat
    BY <1>4, <1>5
  <2> QED BY <1>2, <1>3, <1>4, <1>5, <2>1, Weaker
<1>7. HTypes'
    BY <1>1, <1>5 DEF Dialogue, HTypes
<1>8. BetweenTurns'
    BY <1>1, <1>2, <1>3, <1>5, <1>6 DEF BetweenTurns, ShownWhole
<1> QED
    BY <1>1, <1>7, <1>8 DEF Dialogue, PrefixInForce, InTurn, Evaluates, Replies

(* What a call accepts: one token or two, all of the reply. *)
LEMMA AcceptsIs ==
    ASSUME Dialogue, at = "decode", turn.generated < turn.limit,
           NEW said \in Seq(Token), Len(said) \in 1..2,
           \A i \in 1..Len(said) : \E p \in DOMAIN Pieces : said[i] = Reply(p),
           NEW ended \in BOOLEAN, Accepts(said, ended),
           UNCHANGED <<at, prefixLen, mode, ctx, left>>
    PROVE  Dialogue'
<1>1. /\ transcript' = transcript \o said
      /\ session' = [session EXCEPT !.tokens = @ \o said \o (IF ended THEN <<Eos>> ELSE <<>>)]
      /\ turn' = [turn EXCEPT !.generated = @ + Len(said), !.limit = IF ended THEN 0 ELSE @]
    BY DEF Accepts
<1>2. /\ session \in [open : BOOLEAN, valid : BOOLEAN, tokens : Seq(Token)]
      /\ turn \in [rollback : Nat, generated : Nat, limit : Nat, think : BOOLEAN]
    BY DEF Dialogue, HTypes
<1>3. /\ transcript \in Seq(Token) /\ Speaks(transcript, turn.rollback) /\ left.turns < TurnBound
      /\ Talk(SubSeq(transcript, 1, turn.rollback), prefixLen, Failed, Taken - 1)
    BY DEF Dialogue, InTurn, Kept
<1>4. session.valid /\ Faithful(printer) /\ session.tokens = transcript
  <2>1. turn.limit # 0
    BY <1>2
  <2> QED BY <2>1 DEF Dialogue, Replies
<1>5. transcript \o said \in Seq(Token)
    BY <1>3, ConcatProperties
<1>6. \A i \in 1..Len(said) : said[i][1] = "reply"
    BY KindsAre
<1>7. Speaks(transcript \o said, turn.rollback)
    BY <1>2, <1>3, <1>6, SpeaksOn
<1>8. SubSeq(transcript \o said, 1, turn.rollback) = SubSeq(transcript, 1, turn.rollback)
  <2>1. turn.rollback \in 0..Len(transcript)
    BY <1>2, <1>3, SpeaksIs
  <2> QED BY <1>3, <2>1, KeptIs
<1>9. /\ turn' \in [rollback : Nat, generated : Nat, limit : Nat, think : BOOLEAN]
      /\ turn'.rollback = turn.rollback /\ (ended => turn'.limit = 0)
  <2>1. PICK w \in Nat : w = Len(said)
    OBVIOUS
  <2>2. turn' = [turn EXCEPT !.generated = @ + w, !.limit = IF ended THEN 0 ELSE @]
    BY <1>1, <2>1
  <2>3. turn.generated + w \in Nat
    BY <1>2
  <2>4. CASE ended
    BY <1>2, <2>2, <2>3, <2>4
  <2>5. CASE ~ended
    BY <1>2, <2>2, <2>3, <2>5
  <2> QED BY <2>4, <2>5
<1>10. session'.tokens = (transcript \o said) \o (IF ended THEN <<Eos>> ELSE <<>>)
       /\ session'.valid = session.valid
       /\ session' = [session EXCEPT !.tokens = (transcript \o said) \o (IF ended THEN <<Eos>> ELSE <<>>)]
    BY <1>1, <1>2, <1>4
<1>11. /\ ~ended => session'.tokens = transcript \o said
       /\ ended => session'.tokens = Append(transcript \o said, Eos)
       /\ session'.tokens \in Seq(Token)
  <2>1. CASE ended
    <3>1. Append(transcript \o said, Eos) = (transcript \o said) \o <<Eos>>
          /\ Append(transcript \o said, Eos) \in Seq(Token)
      BY <1>5, KindsAre, AppendIsConcat, AppendProperties
    <3> QED BY <1>10, <2>1, <3>1
  <2>2. CASE ~ended
    BY <1>5, <1>10, <2>2, ConcatEmptySeq
  <2> QED BY <2>1, <2>2
<1>12. session' \in [open : BOOLEAN, valid : BOOLEAN, tokens : Seq(Token)]
  <2>1. (transcript \o said) \o (IF ended THEN <<Eos>> ELSE <<>>) \in Seq(Token)
    BY <1>10, <1>11
  <2> QED BY <1>2, <1>10, <2>1
<1>13. Faithful(printer')
  <2>1. \A i \in 1..Len(said) : Pieces[said[i][2]] \in Chars
    <3> TAKE i \in 1..Len(said)
    <3>1. PICK p \in DOMAIN Pieces : said[i] = Reply(p)
      OBVIOUS
    <3>2. said[i][2] = p /\ Pieces[p] \in Seq(STRING)
      BY <3>1, ChatAssumption DEF Reply
    <3>3. Pieces[p] \in Seq(Char)
      BY <3>2, SeqMonotonic DEF Char
    <3> QED BY <3>2, <3>3 DEF Chars
  <2>2. 1 \in 1..Len(said) /\ (Len(said) # 1 => 2 \in 1..Len(said))
    OBVIOUS
  <2>3. Faithful(Printed(printer, Pieces[said[1][2]]))
    BY <1>4, <2>1, <2>2, PrintedIs
  <2>4. Len(said) # 1 => Faithful(Printed(Printed(printer, Pieces[said[1][2]]), Pieces[said[2][2]]))
    BY <2>1, <2>2, <2>3, PrintedIs
  <2> QED BY <2>3, <2>4 DEF Accepts
<1>14. HTypes'
    BY <1>9, <1>12 DEF Dialogue, HTypes
<1>15. InTurn'
  <2>1. Failed' = Failed /\ Taken' = Taken /\ left'.turns = left.turns
    BY DEF Failed, Taken
  <2>2. Kept' = SubSeq(transcript, 1, turn.rollback)
    BY <1>1, <1>8, <1>9 DEF Kept
  <2> QED BY <1>1, <1>3, <1>5, <1>7, <1>9, <2>1, <2>2 DEF InTurn
<1>16. Replies'
    BY <1>1, <1>4, <1>9, <1>10, <1>11, <1>13 DEF Replies
<1> QED
    BY <1>14, <1>15, <1>16 DEF Dialogue, PrefixInForce, BetweenTurns, Evaluates

LEMMA DecodingKeeps ==
    ASSUME Dialogue, Decode
    PROVE  Dialogue'
<1>1. at = "decode" /\ turn.generated < turn.limit /\ UNCHANGED <<at, prefixLen, mode, ctx, left>>
    BY DEF Decode, MoreWanted
<1>2. ASSUME NEW p \in DOMAIN Pieces, NEW ended \in BOOLEAN, Accepts(<<Reply(p)>>, ended)
      PROVE  Dialogue'
  <2> DEFINE s == <<Reply(p)>>
  <2>1. s \in Seq(Token) /\ Len(s) = 1 /\ s[1] = Reply(p)
    BY KindsAre
  <2>2. Accepts(s, ended)
    BY <1>2
  <2> HIDE DEF s
  <2>3. \A i \in 1..Len(s) : \E r \in DOMAIN Pieces : s[i] = Reply(r)
    BY <2>1
  <2>4. Len(s) \in 1..2
    BY <2>1
  <2> QED BY <1>1, <2>1, <2>2, <2>3, <2>4, AcceptsIs
<1>3. ASSUME NEW p \in DOMAIN Pieces, NEW q \in DOMAIN Pieces, Accepts(<<Reply(p), Reply(q)>>, FALSE)
      PROVE  Dialogue'
  <2> DEFINE s == <<Reply(p), Reply(q)>>
  <2>1. s \in Seq(Token) /\ Len(s) = 2 /\ s[1] = Reply(p) /\ s[2] = Reply(q)
    BY KindsAre
  <2>2. Accepts(s, FALSE)
    BY <1>3
  <2> HIDE DEF s
  <2>3. \A i \in 1..Len(s) : \E r \in DOMAIN Pieces : s[i] = Reply(r)
    BY <2>1
  <2>4. Len(s) \in 1..2
    BY <2>1
  <2> QED BY <1>1, <2>1, <2>2, <2>3, <2>4, AcceptsIs
<1> QED
    BY <1>2, <1>3 DEF Decode

LEMMA FailingKeeps ==
    ASSUME Dialogue, DecodeFails
    PROVE  Dialogue'
<1>1. /\ at = "decode" /\ at' = "prompt" /\ left.failures > 0 /\ session' = [session EXCEPT !.valid = FALSE]
      /\ left' = [left EXCEPT !.failures = @ - 1]
      /\ UNCHANGED <<transcript, prefixLen, mode, ctx, turn, printer>>
    BY DEF DecodeFails
<1>2. PICK n \in Nat : n = prefixLen
    BY DEF Dialogue, HTypes
<1>3. PICK k \in Nat : k = turn.rollback
    BY DEF Dialogue, HTypes
<1>4. /\ transcript \in Seq(Token) /\ Speaks(transcript, k) /\ left.turns < TurnBound
      /\ Talk(SubSeq(transcript, 1, k), n, Failed, Taken - 1)
    BY <1>1, <1>2, <1>3 DEF Dialogue, InTurn, Kept
<1>5. Failed \in Nat /\ Taken \in Nat /\ Taken - 1 \in Nat /\ Taken - 1 + 1 = Taken
    BY <1>4, CountsAre DEF Dialogue
<1>6. Adds(transcript, k) /\ ~Closed(transcript) /\ transcript[Len(transcript)] # Eos
    BY <1>4, SpeaksIs
<1>7. Talk(transcript, n, IF Closed(transcript) THEN Failed ELSE Failed + 1, Taken - 1 + 1)
    BY <1>4, <1>5, <1>6, TurnAdded
<1>8. /\ left' \in [turns : 0..TurnBound, commands : Nat, signals : Nat, failures : 0..FailureBound]
      /\ Failed' = Failed + 1 /\ Taken' = Taken
    BY <1>1, FailureIs DEF Dialogue
<1>9. session' \in [open : BOOLEAN, valid : BOOLEAN, tokens : Seq(Token)] /\ session'.valid = FALSE
    BY <1>1 DEF Dialogue, HTypes
<1>10. HTypes'
    BY <1>1, <1>8, <1>9 DEF Dialogue, HTypes
<1>11. BetweenTurns'
    BY <1>1, <1>2, <1>5, <1>6, <1>7, <1>8, <1>9 DEF BetweenTurns, ShownWhole
<1> QED
    BY <1>1, <1>10, <1>11 DEF Dialogue, PrefixInForce, InTurn, Evaluates, Replies

LEMMA EndingKeeps ==
    ASSUME Dialogue, EndTurn
    PROVE  Dialogue'
<1>1. /\ at = "decode" /\ at' = "prompt" /\ printer' = Finished(printer) /\ EndsTurn
      /\ UNCHANGED <<prefixLen, mode, ctx, turn, left>>
    BY DEF EndTurn
<1>2. PICK n \in Nat : n = prefixLen
    BY DEF Dialogue, HTypes
<1>3. PICK k \in Nat : k = turn.rollback
    BY DEF Dialogue, HTypes
<1>4. /\ transcript \in Seq(Token) /\ Speaks(transcript, k) /\ left.turns < TurnBound
      /\ Talk(SubSeq(transcript, 1, k), n, Failed, Taken - 1)
    BY <1>1, <1>2, <1>3 DEF Dialogue, InTurn, Kept
<1>5. Failed \in Nat /\ Taken \in Nat /\ Taken - 1 \in Nat /\ Taken - 1 + 1 = Taken
    BY <1>4, CountsAre DEF Dialogue
<1>6. Failed' = Failed /\ Taken' = Taken
    BY <1>1 DEF Failed, Taken
<1>7. Done(printer')
    BY <1>1, FinishedIs DEF Dialogue, Replies
<1>8. session \in [open : BOOLEAN, valid : BOOLEAN, tokens : Seq(Token)]
    BY DEF Dialogue, HTypes
<1>9. CASE interrupted /\ turn.generated = 0
  <2>1. transcript' = SubSeq(transcript, 1, k) /\ session' = [session EXCEPT !.valid = FALSE, !.tokens = <<>>]
    BY <1>1, <1>3, <1>9 DEF EndsTurn, Kept, Invalid
  <2>2. session' \in [open : BOOLEAN, valid : BOOLEAN, tokens : Seq(Token)] /\ session'.valid = FALSE
    BY <1>8, <2>1, EmptySeq
  <2>3. Talk(SubSeq(transcript, 1, k), n, Failed, Taken)
    BY <1>4, <1>5, Weaker
  <2>4. HTypes'
    BY <1>1, <2>2 DEF Dialogue, HTypes
  <2>5. BetweenTurns'
    BY <1>1, <1>2, <1>6, <1>7, <2>1, <2>2, <2>3 DEF BetweenTurns, ShownWhole
  <2> QED BY <1>1, <2>4, <2>5 DEF Dialogue, PrefixInForce, InTurn, Evaluates, Replies
<1>10. CASE ~(interrupted /\ turn.generated = 0)
  <2>1. transcript' = Append(transcript, Eos) /\ session' = session
    BY <1>1, <1>10 DEF EndsTurn
  <2>2. /\ Append(transcript, Eos) \in Seq(Token) /\ Adds(Append(transcript, Eos), k)
        /\ Closed(Append(transcript, Eos))
        /\ SubSeq(Append(transcript, Eos), 1, k) = SubSeq(transcript, 1, k)
    BY <1>4, SpeaksIs
  <2>3. Talk(Append(transcript, Eos), n, IF Closed(Append(transcript, Eos)) THEN Failed ELSE Failed + 1, Taken - 1 + 1)
    BY <1>4, <1>5, <2>2, TurnAdded
  <2>4. IsBeginning(session.tokens, Append(transcript, Eos))
    <3>1. session.tokens = transcript \/ session.tokens = Append(transcript, Eos)
      BY <1>1 DEF Dialogue, Replies
    <3>2. /\ Len(Append(transcript, Eos)) = Len(transcript) + 1 /\ Len(transcript) \in Nat
          /\ \A i \in 1..Len(transcript) : Append(transcript, Eos)[i] = transcript[i]
      BY <1>4, KindsAre, AppendProperties, LenProperties
    <3>3. IsBeginning(transcript, Append(transcript, Eos))
      <4>1. Len(transcript) <= Len(Append(transcript, Eos))
        BY <3>2
      <4> QED BY <1>4, <2>2, <3>2, <4>1, BeginsIs
    <3>4. IsBeginning(Append(transcript, Eos), Append(transcript, Eos))
      <4>1. Len(Append(transcript, Eos)) <= Len(Append(transcript, Eos))
        BY <3>2
      <4> QED BY <2>2, <4>1, BeginsIs
    <3> QED BY <3>1, <3>3, <3>4
  <2>5. HTypes'
    BY <1>1, <2>1 DEF Dialogue, HTypes
  <2>6. BetweenTurns'
    BY <1>1, <1>2, <1>5, <1>6, <1>7, <2>1, <2>2, <2>3, <2>4 DEF BetweenTurns, ShownWhole
  <2> QED BY <1>1, <2>5, <2>6 DEF Dialogue, PrefixInForce, InTurn, Evaluates, Replies
<1> QED
    BY <1>9, <1>10

LEMMA DialogueKeeps ==
    ASSUME Dialogue, [HNext]_hvars
    PROVE  Dialogue'
<1>1. CASE \E m \in {"none", "high", "max"} : SetMode(m)
    BY <1>1, SettingKeeps
<1>2. CASE \E c \in CtxSizes : SetCtx(c)
    BY <1>2, ResizingKeeps
<1>3. CASE Signal \/ NoLine \/ Quit
    BY <1>3, QuietKeeps
<1>4. CASE \E m \in Messages : BeginTurn(m)
    BY <1>4, BeginningKeeps
<1>5. CASE Synced \/ SyncFails
    BY <1>5, SyncingKeeps, RefusingKeeps
<1>6. CASE Decode \/ DecodeFails \/ EndTurn
    BY <1>6, DecodingKeeps, FailingKeeps, EndingKeeps
<1>7. CASE UNCHANGED hvars
  <2>1. UNCHANGED <<at, transcript, prefixLen, mode, ctx, session, turn, printer, left>>
    BY <1>7 DEF hvars
  <2>2. HTypes' /\ PrefixInForce' /\ Evaluates' /\ Replies'
    BY <2>1 DEF Dialogue, HTypes, PrefixInForce, Evaluates, Replies, Kept, ShownWhole
  <2>3. BetweenTurns' /\ InTurn'
    BY <2>1 DEF Dialogue, BetweenTurns, InTurn, Kept, ShownWhole, Failed, Taken
  <2> QED BY <2>2, <2>3 DEF Dialogue
<1> QED
    BY <1>1, <1>2, <1>3, <1>4, <1>5, <1>6, <1>7 DEF HNext

(* The prefix is where the transcript says, and the turns behind it. *)
LEMMA TalkIsWhole ==
    ASSUME NEW n \in Nat, n = prefixLen, Talk(transcript, n, Failed, Taken)
    PROVE  /\ SubSeq(transcript, 1, 1 + n) = <<Bos>> \o Repeated(MaxToken, n)
           /\ System => transcript[2 + n] = SystemToken
           /\ WholeTurns(BodyOf(transcript)) /\ OpenTurns(BodyOf(transcript)) <= Failed
           /\ Cardinality({i \in DOMAIN transcript : transcript[i][1] = "user"}) <= Taken
<1>1. Framed(transcript, n)
    BY DEF Talk
<1>2. transcript \in Seq(Token) /\ Len(transcript) \in Nat /\ 1 + n <= Len(transcript)
      /\ transcript[1] = Bos /\ \A i \in 2..n + 1 : transcript[i] = MaxToken
  <2>1. Behead \in 0..1
    BY DEF Behead
  <2>2. Len(transcript) \in Nat
    BY <1>1, LenProperties DEF Framed
  <2> QED BY <1>1, <2>1, <2>2 DEF Framed
<1> DEFINE P == Repeated(MaxToken, n)
           h == <<Bos>> \o P
<1>3. P \in Seq(Token) /\ Len(P) = n /\ \A i \in 1..n : P[i] = MaxToken
  <2>1. P = [i \in 1..n |-> MaxToken]
    BY DEF Repeated
  <2>2. P \in [1..n -> Token]
    BY <2>1, KindsAre
  <2>3. P \in Seq(Token) /\ DOMAIN P = 1..n
    BY <2>1, <2>2, SeqDef
  <2> QED BY <2>1, <2>3, LenProperties
<1> HIDE DEF P
<1>4. /\ h \in Seq(Token) /\ Len(h) = 1 + n /\ h[1] = Bos
      /\ \A i \in 1..n : h[1 + i] = MaxToken
  <2>1. <<Bos>> \in Seq(Token) /\ Len(<<Bos>>) = 1 /\ <<Bos>>[1] = Bos
    BY KindsAre
  <2>2. /\ h \in Seq(Token) /\ Len(h) = Len(<<Bos>>) + Len(P)
        /\ \A i \in 1..Len(<<Bos>>) : h[i] = <<Bos>>[i]
        /\ \A i \in 1..Len(P) : h[Len(<<Bos>>) + i] = P[i]
    BY <1>3, <2>1, JoinIs
  <2>3. 1 \in 1..1
    OBVIOUS
  <2> QED BY <1>3, <2>1, <2>2, <2>3
<1> HIDE DEF h
<1>5. IsBeginning(h, transcript)
  <2>1. ASSUME NEW i \in 1..(1 + n) PROVE h[i] = transcript[i]
    <3>1. CASE i = 1
      BY <1>2, <1>4, <3>1
    <3>2. CASE i \in 2..n + 1
      <4>1. i - 1 \in 1..n /\ 1 + (i - 1) = i
        BY <3>2
      <4>2. h[1 + (i - 1)] = MaxToken
        BY <1>4, <4>1
      <4> QED BY <1>2, <3>2, <4>1, <4>2
    <3>3. i = 1 \/ i \in 2..n + 1
      OBVIOUS
    <3> QED BY <3>1, <3>2, <3>3
  <2> QED BY <1>2, <1>4, <2>1, BeginsIs
<1>6. BodyOf(transcript) = Body(transcript, n)
    BY DEF BodyOf, Body, Behead
<1> QED
    BY <1>1, <1>4, <1>5, <1>6 DEF Talk, Framed, Users, IsBeginning, h, P

LEMMA DialogueGives ==
    ASSUME Dialogue
    PROVE  ContinuesTranscript /\ PrintsAsWhole
<1>1. PICK n \in Nat : n = prefixLen
    BY DEF Dialogue, HTypes
<1>2. ASSUME at = "prompt" PROVE TranscriptWhole
  <2>1. Talk(transcript, n, Failed, Taken)
    BY <1>1, <1>2 DEF Dialogue, BetweenTurns
  <2>2. /\ SubSeq(transcript, 1, 1 + n) = <<Bos>> \o Repeated(MaxToken, n)
        /\ System => transcript[2 + n] = SystemToken
        /\ WholeTurns(BodyOf(transcript)) /\ OpenTurns(BodyOf(transcript)) <= Failed
        /\ Cardinality({i \in DOMAIN transcript : transcript[i][1] = "user"}) <= Taken
    BY <1>1, <2>1, TalkIsWhole
  <2>3. prefixLen = IF Effective(mode, ctx) = "max" THEN PrefixLen ELSE 0
    BY <1>2 DEF Dialogue, PrefixInForce
  <2> QED BY <1>1, <2>2, <2>3 DEF TranscriptWhole, Failed, Taken
<1>3. TranscriptWhole
    BY <1>2 DEF TranscriptWhole
<1>4. ASSUME at = "decode", MoreWanted PROVE session.valid /\ session.tokens = transcript
  <2>1. turn.generated \in Nat /\ turn.limit \in Nat /\ turn.generated < turn.limit
    BY <1>4 DEF Dialogue, HTypes, MoreWanted
  <2>2. turn.limit # 0
    BY <2>1
  <2> QED BY <1>4, <2>2 DEF Dialogue, Replies
<1>5. ASSUME session.valid, at \in {"prompt", "sync"} PROVE IsBeginning(session.tokens, transcript)
  <2>1. CASE at = "prompt"
    BY <1>5, <2>1 DEF Dialogue, BetweenTurns
  <2>2. CASE at = "sync"
    <3>1. PICK k \in Nat : k = turn.rollback
      BY DEF Dialogue, HTypes
    <3>2. /\ transcript \in Seq(Token) /\ Speaks(transcript, k) /\ session.tokens \in Seq(Token)
          /\ IsBeginning(session.tokens, SubSeq(transcript, 1, k))
      BY <1>5, <2>2, <3>1 DEF Dialogue, HTypes, InTurn, Evaluates, Kept
    <3>3. k \in 0..Len(transcript)
      BY <3>2, SpeaksIs
    <3>4. <<>> \in Seq(Token)
      OBVIOUS
    <3>5. /\ SubSeq(transcript, 1, k) \in Seq(Token) /\ Len(SubSeq(transcript, 1, k)) = k
          /\ \A i \in 1..k : SubSeq(transcript, 1, k)[i] = transcript[i]
      BY <3>2, <3>3, <3>4, KeptIs
    <3>6. /\ Len(session.tokens) <= k
          /\ \A i \in 1..Len(session.tokens) : session.tokens[i] = SubSeq(transcript, 1, k)[i]
      BY <3>2, <3>5, BeginsIs
    <3>7. /\ Len(session.tokens) <= Len(transcript) /\ \A i \in 1..Len(session.tokens) : i \in 1..k
      <4>1. Len(session.tokens) \in Nat /\ Len(transcript) \in Nat
        BY <3>2, LenProperties
      <4> QED BY <3>3, <3>6, <4>1
    <3>8. \A i \in 1..Len(session.tokens) : session.tokens[i] = transcript[i]
      BY <3>5, <3>6, <3>7
    <3> QED BY <3>2, <3>7, <3>8, BeginsIs
  <2> QED BY <1>5, <2>1, <2>2
<1>6. PrintsAsWhole
    BY DEF Dialogue, BetweenTurns, ShownWhole, Done, PrintsAsWhole
<1> QED
    BY <1>3, <1>4, <1>5, <1>6 DEF ContinuesTranscript

(* ContinuesTranscript, for any messages, pieces, contexts and bounds: the
   transcript at the prompt is the prefix in force, the system prompt and
   whole turns, and a session that is valid has evaluated the beginning of
   it, and all of it when a token is chosen (run_chat_turn,
   repl_chat_apply_max_prefix).                                             *)
THEOREM ContinuesTranscriptAlways == HSpec => []ContinuesTranscript
<1>1. HInit => Dialogue
    BY DialogueStarts
<1>2. Dialogue /\ [HNext]_hvars => Dialogue'
    BY DialogueKeeps
<1>3. Dialogue => ContinuesTranscript
    BY DialogueGives
<1> QED
    BY <1>1, <1>2, <1>3, PTL DEF HSpec

(* PrintsAsWhole, likewise: a reply is printed as if it had come in one
   piece, however its tokens cut the tags (token_printer_process).         *)
THEOREM PrintsAsWholeAlways == HSpec => []PrintsAsWhole
<1>1. HInit => Dialogue
    BY DialogueStarts
<1>2. Dialogue /\ [HNext]_hvars => Dialogue'
    BY DialogueKeeps
<1>3. Dialogue => PrintsAsWhole
    BY DialogueGives
<1> QED
    BY <1>1, <1>2, <1>3, PTL DEF HSpec

=============================================================================
