------------------------- MODULE ToolReplayProofs -------------------------
(***************************************************************************)
(* Two facts about tool-call replay, for any ids, blocks, texts, limits,   *)
(* buffer size, requests and number of client threads:                     *)
(* the memory holds what was used last, within its limits, and counts what *)
(* it holds; and a replayed block is the one that was sampled for every id *)
(* of its message, unless the worker cuts a map of which a client has read *)
(* a part.                                                                 *)
(***************************************************************************)
EXTENDS ToolReplay, NatProofs, FiniteSetTheorems, SequenceTheorems

(* Lists of ids, each once. *)
Distinct(s) == \A i, j \in 1..Len(s) : s[i] = s[j] => i = j
Lists == {s \in Seq(Ids) : Distinct(s)}

(* s begins with l. *)
Leads(l, s) == Len(l) <= Len(s) /\ \A i \in 1..Len(l) : l[i] = s[i]

(* r is s without its k-th element. *)
Skips(r, s, k) ==
    Len(r) = Len(s) - 1 /\ \A i \in 1..(Len(s) - 1) : r[i] = s[IF i < k THEN i ELSE i + 1]

LEMMA ListIs ==
    ASSUME NEW s \in Lists
    PROVE  /\ s \in Seq(Ids) /\ Len(s) \in Nat /\ DOMAIN s = 1..Len(s)
           /\ \A i \in 1..Len(s) : s[i] \in Ids /\ s[i] \in ToSet(s)
           /\ \A i, j \in 1..Len(s) : s[i] = s[j] => i = j
           /\ \A x \in ToSet(s) : \E i \in 1..Len(s) : s[i] = x
<1>1. s \in Seq(Ids) /\ Distinct(s)
    BY DEF Lists
<1>2. Len(s) \in Nat /\ DOMAIN s = 1..Len(s)
    BY <1>1, LenProperties
<1>3. \A i \in 1..Len(s) : s[i] \in Ids
    BY <1>1, ElementOfSeq
<1>4. ToSet(s) = {s[i] : i \in 1..Len(s)}
    BY <1>2 DEF ToSet
<1> QED
    BY <1>1, <1>2, <1>3, <1>4 DEF Distinct

LEMMA CutAt ==
    ASSUME NEW s \in Seq(Ids), NEW k \in 1..Len(s)
    PROVE  RemoveAt(s, k) \in Seq(Ids) /\ Skips(RemoveAt(s, k), s, k)
<1>1. PICK n : n = Len(s)
    OBVIOUS
<1>2. n \in Nat /\ k \in 1..n
    BY <1>1, LenProperties
<1>3. \A i \in 1..n : s[i] \in Ids
    BY <1>1, ElementOfSeq
<1>4. PICK a : a = SubSeq(s, 1, k - 1)
    OBVIOUS
<1>5. PICK b : b = SubSeq(s, k + 1, n)
    OBVIOUS
<1>6. a \in Seq(Ids) /\ Len(a) = k - 1 /\ \A i \in 1..(k - 1) : a[i] = s[i]
  <2>1. 1 \in Int /\ k - 1 \in Int /\ \A i \in 1..(k - 1) : s[i] \in Ids
    BY <1>2, <1>3
  <2>2. /\ a \in Seq(Ids) /\ Len(a) = IF 1 <= k - 1 THEN (k - 1) - 1 + 1 ELSE 0
        /\ \A i \in 1..((k - 1) - 1 + 1) : a[i] = s[1 + i - 1]
    BY <1>4, <2>1, SubSeqProperties
  <2>3. (k - 1) - 1 + 1 = k - 1 /\ (~(1 <= k - 1) => k - 1 = 0) /\ \A i \in 1..(k - 1) : 1 + i - 1 = i
    BY <1>2
  <2> QED BY <2>2, <2>3
<1>7. b \in Seq(Ids) /\ Len(b) = n - k /\ \A i \in 1..(n - k) : b[i] = s[k + i]
  <2>1. k + 1 \in Int /\ n \in Int /\ \A i \in k + 1..n : s[i] \in Ids
    BY <1>2, <1>3
  <2>2. /\ b \in Seq(Ids) /\ Len(b) = IF k + 1 <= n THEN n - (k + 1) + 1 ELSE 0
        /\ \A i \in 1..(n - (k + 1) + 1) : b[i] = s[(k + 1) + i - 1]
    BY <1>5, <2>1, SubSeqProperties
  <2>3. n - (k + 1) + 1 = n - k /\ (~(k + 1 <= n) => n - k = 0) /\ \A i \in 1..(n - k) : (k + 1) + i - 1 = k + i
    BY <1>2
  <2> QED BY <2>2, <2>3
<1>8. RemoveAt(s, k) = a \o b
    BY <1>1, <1>4, <1>5 DEF RemoveAt
<1>9. /\ a \o b \in Seq(Ids) /\ Len(a \o b) = (k - 1) + (n - k)
      /\ \A i \in 1..((k - 1) + (n - k)) : (a \o b)[i] = IF i <= k - 1 THEN a[i] ELSE b[i - (k - 1)]
  <2>1. /\ a \o b \in Seq(Ids) /\ Len(a \o b) = Len(a) + Len(b)
        /\ \A i \in 1..(Len(a) + Len(b)) : (a \o b)[i] = IF i <= Len(a) THEN a[i] ELSE b[i - Len(a)]
    BY <1>6, <1>7, ConcatProperties
  <2> QED BY <1>6, <1>7, <2>1
<1>10. (k - 1) + (n - k) = n - 1
    BY <1>2
<1>11. ASSUME NEW i \in 1..(n - 1) PROVE (a \o b)[i] = s[IF i < k THEN i ELSE i + 1]
  <2>1. (a \o b)[i] = IF i <= k - 1 THEN a[i] ELSE b[i - (k - 1)]
    BY <1>9, <1>10
  <2>2. CASE i < k
    <3>1. i <= k - 1 /\ i \in 1..(k - 1)
      BY <1>2, <2>2
    <3> QED BY <1>6, <2>1, <2>2, <3>1
  <2>3. CASE ~(i < k)
    <3>1. ~(i <= k - 1) /\ i - (k - 1) \in 1..(n - k) /\ k + (i - (k - 1)) = i + 1
      BY <1>2, <2>3
    <3> QED BY <1>7, <2>1, <2>3, <3>1
  <2> QED BY <2>2, <2>3
<1> QED
    BY <1>1, <1>8, <1>9, <1>10, <1>11 DEF Skips

(* Removing an id from a list: nothing, or its one place. *)
LEMMA RemovedIs ==
    ASSUME NEW s \in Lists, NEW id
    PROVE  /\ id \notin ToSet(s) => RemoveFirst(s, id) = s
           /\ \A k \in 1..Len(s) : s[k] = id => RemoveFirst(s, id) = RemoveAt(s, k)
<1> USE ListIs
<1>1. ASSUME id \notin ToSet(s) PROVE RemoveFirst(s, id) = s
  <2>1. ~\E i \in 1..Len(s) : s[i] = id
    BY <1>1
  <2> QED BY <2>1 DEF RemoveFirst
<1>2. ASSUME NEW k \in 1..Len(s), s[k] = id PROVE RemoveFirst(s, id) = RemoveAt(s, k)
  <2>1. {i \in 1..Len(s) : s[i] = id} = {k}
    BY <1>2
  <2>2. Min({k}) = k
    BY DEF Min
  <2>3. SelectInSeq(s, LAMBDA v : v = id) = k
    BY <2>1, <2>2 DEF SelectInSeq
  <2> QED BY <1>2, <2>3 DEF RemoveFirst
<1> QED
    BY <1>1, <1>2

LEMMA Removed ==
    ASSUME NEW s \in Lists, NEW id
    PROVE  /\ RemoveFirst(s, id) \in Lists /\ ToSet(RemoveFirst(s, id)) = ToSet(s) \ {id}
           /\ Len(RemoveFirst(s, id)) = IF id \in ToSet(s) THEN Len(s) - 1 ELSE Len(s)
<1>1. CASE id \notin ToSet(s)
    BY <1>1, RemovedIs
<1>2. CASE id \in ToSet(s)
  <2>1. PICK k \in 1..Len(s) : s[k] = id
    BY <1>2, ListIs
  <2>2. PICK n : n = Len(s)
    OBVIOUS
  <2>3. n \in Nat /\ k \in 1..n /\ s \in Seq(Ids)
    BY <2>1, <2>2, ListIs
  <2>4. PICK r : r = RemoveAt(s, k)
    OBVIOUS
  <2>5. RemoveFirst(s, id) = r
    BY <2>1, <2>4, RemovedIs
  <2>6. r \in Seq(Ids) /\ Len(r) = n - 1 /\ \A i \in 1..(n - 1) : r[i] = s[IF i < k THEN i ELSE i + 1]
    BY <2>2, <2>3, <2>4, CutAt DEF Skips
  <2>7. \A i, j \in 1..n : s[i] = s[j] => i = j
    BY <2>2, ListIs
  <2>8. \A i, j \in 1..(n - 1) : r[i] = r[j] => i = j
    <3> SUFFICES ASSUME NEW i \in 1..(n - 1), NEW j \in 1..(n - 1), r[i] = r[j] PROVE i = j
      OBVIOUS
    <3>1. PICK a \in 1..n : a = IF i < k THEN i ELSE i + 1
      BY <2>3
    <3>2. PICK b \in 1..n : b = IF j < k THEN j ELSE j + 1
      BY <2>3
    <3>3. a = b
      BY <2>6, <2>7, <3>1, <3>2
    <3> QED BY <2>3, <3>1, <3>2, <3>3
  <2>9. r \in Lists
    BY <2>6, <2>8 DEF Lists, Distinct
  <2>10. ToSet(r) \subseteq ToSet(s) \ {id}
    <3> SUFFICES ASSUME NEW x \in ToSet(r) PROVE x \in ToSet(s) \ {id}
      OBVIOUS
    <3>1. PICK i \in 1..(n - 1) : r[i] = x
      BY <2>6, <2>9, ListIs
    <3>2. PICK a \in 1..n : a = (IF i < k THEN i ELSE i + 1) /\ a # k
      BY <2>3
    <3>3. x = s[a] /\ s[a] # s[k]
      BY <2>3, <2>6, <2>7, <3>1, <3>2
    <3>4. s[a] \in ToSet(s)
      BY <2>2, <3>2, ListIs
    <3> QED BY <2>1, <3>3, <3>4
  <2>11. ToSet(s) \ {id} \subseteq ToSet(r)
    <3> SUFFICES ASSUME NEW x \in ToSet(s), x # id PROVE x \in ToSet(r)
      OBVIOUS
    <3>1. PICK a \in 1..n : s[a] = x
      BY <2>2, ListIs
    <3>2. a # k
      BY <2>1, <3>1
    <3>3. PICK i \in 1..(n - 1) : a = IF i < k THEN i ELSE i + 1
      <4>1. CASE a < k
        <5>1. a \in 1..(n - 1)
          BY <2>3, <4>1
        <5> QED BY <4>1, <5>1
      <4>2. CASE ~(a < k)
        <5>1. a - 1 \in 1..(n - 1) /\ ~(a - 1 < k) /\ a = (a - 1) + 1
          BY <2>3, <3>2, <4>2
        <5> QED BY <5>1
      <4> QED BY <4>1, <4>2
    <3>4. r[i] = x
      BY <2>6, <3>1, <3>3
    <3>5. r[i] \in ToSet(r)
      BY <2>6, <2>9, ListIs
    <3> QED BY <3>4, <3>5
  <2> QED BY <1>2, <2>2, <2>5, <2>6, <2>9, <2>10, <2>11
<1> QED
    BY <1>1, <1>2

(* An id put before a list it is not in. *)
LEMMA Added ==
    ASSUME NEW s \in Lists, NEW id \in Ids, id \notin ToSet(s)
    PROVE  /\ <<id>> \o s \in Lists /\ ToSet(<<id>> \o s) = ToSet(s) \cup {id}
           /\ Len(<<id>> \o s) = Len(s) + 1
           /\ (<<id>> \o s)[1] = id /\ \A i \in 1..Len(s) : (<<id>> \o s)[i + 1] = s[i]
<1>1. PICK r : r = <<id>> \o s
    OBVIOUS
<1>2. PICK n : n = Len(s)
    OBVIOUS
<1>3. n \in Nat /\ s \in Seq(Ids) /\ <<id>> \in Seq(Ids) /\ Len(<<id>>) = 1
    BY <1>2, ListIs
<1>4. /\ r \in Seq(Ids) /\ Len(r) = 1 + n
      /\ \A i \in 1..(1 + n) : r[i] = IF i <= 1 THEN <<id>>[i] ELSE s[i - 1]
  <2>1. /\ r \in Seq(Ids) /\ Len(r) = Len(<<id>>) + Len(s)
        /\ \A i \in 1..(Len(<<id>>) + Len(s)) :
              r[i] = IF i <= Len(<<id>>) THEN <<id>>[i] ELSE s[i - Len(<<id>>)]
    BY <1>1, <1>3, ConcatProperties
  <2> QED BY <1>2, <1>3, <2>1
<1>5. r[1] = id /\ \A i \in 1..n : r[i + 1] = s[i]
  <2>1. 1 \in 1..(1 + n) /\ 1 <= 1 /\ <<id>>[1] = id
    BY <1>3
  <2>2. ASSUME NEW i \in 1..n PROVE r[i + 1] = s[i]
    <3>1. i + 1 \in 1..(1 + n) /\ ~(i + 1 <= 1) /\ (i + 1) - 1 = i
      BY <1>3
    <3> QED BY <1>4, <3>1
  <2> QED BY <1>4, <2>1, <2>2
<1>6. \A i \in 1..(1 + n) : i = 1 \/ \E j \in 1..n : i = j + 1
  <2> SUFFICES ASSUME NEW i \in 1..(1 + n), i # 1 PROVE \E j \in 1..n : i = j + 1
    OBVIOUS
  <2>1. i - 1 \in 1..n /\ i = (i - 1) + 1
    BY <1>3
  <2> QED BY <2>1
<1>7. /\ \A i \in 1..n : s[i] \in ToSet(s) /\ s[i] # id
      /\ \A i, j \in 1..n : s[i] = s[j] => i = j
    BY <1>2, ListIs
<1>8. r \in Lists
  <2>1. \A i, j \in 1..(1 + n) : r[i] = r[j] => i = j
    BY <1>5, <1>6, <1>7
  <2> QED BY <1>4, <2>1 DEF Lists, Distinct
<1>9. ToSet(r) = ToSet(s) \cup {id}
  <2>1. \A x \in ToSet(r) : \E i \in 1..(1 + n) : r[i] = x
    BY <1>4, <1>8, ListIs
  <2>2. \A i \in 1..(1 + n) : r[i] \in ToSet(r)
    BY <1>4, <1>8, ListIs
  <2>3. \A x \in ToSet(s) : \E i \in 1..n : s[i] = x
    BY <1>2, ListIs
  <2>4. 1 \in 1..(1 + n) /\ \A i \in 1..n : i + 1 \in 1..(1 + n)
    BY <1>3
  <2>5. ToSet(r) \subseteq ToSet(s) \cup {id}
    BY <1>5, <1>6, <1>7, <2>1
  <2>6. ToSet(s) \cup {id} \subseteq ToSet(r)
    BY <1>5, <2>2, <2>3, <2>4
  <2> QED BY <2>5, <2>6
<1> QED
    BY <1>1, <1>2, <1>3, <1>4, <1>5, <1>8, <1>9

(* Using an id brings it to the front of a list and of what leads the list. *)
Fronted(s, id) == <<id>> \o RemoveFirst(s, id)

LEMMA FrontedIs ==
    ASSUME NEW s \in Lists, NEW id \in Ids
    PROVE  /\ Fronted(s, id) \in Lists /\ ToSet(Fronted(s, id)) = ToSet(s) \cup {id}
           /\ Len(Fronted(s, id)) = IF id \in ToSet(s) THEN Len(s) ELSE Len(s) + 1
<1>1. PICK r : r = RemoveFirst(s, id)
    OBVIOUS
<1>2. /\ r \in Lists /\ ToSet(r) = ToSet(s) \ {id}
      /\ Len(r) = IF id \in ToSet(s) THEN Len(s) - 1 ELSE Len(s)
    BY <1>1, Removed
<1>3. /\ <<id>> \o r \in Lists /\ ToSet(<<id>> \o r) = ToSet(r) \cup {id}
      /\ Len(<<id>> \o r) = Len(r) + 1
    BY <1>2, Added
<1>4. Len(s) \in Nat
    BY ListIs
<1> QED
    BY <1>1, <1>2, <1>3, <1>4 DEF Fronted

LEMMA RemovedLeads ==
    ASSUME NEW l \in Lists, NEW s \in Lists, Leads(l, s), NEW id
    PROVE  Leads(RemoveFirst(l, id), RemoveFirst(s, id))
<1>1. PICK m, n : m = Len(l) /\ n = Len(s)
    OBVIOUS
<1>2. m \in Nat /\ n \in Nat /\ m <= n /\ \A i \in 1..m : l[i] = s[i]
    BY <1>1, ListIs DEF Leads
<1>3. l \in Seq(Ids) /\ s \in Seq(Ids)
    BY ListIs
<1>4. CASE id \in ToSet(l)
  <2>1. PICK k \in 1..m : l[k] = id
    BY <1>1, <1>4, ListIs
  <2>2. k \in 1..n /\ s[k] = id
    BY <1>2, <2>1
  <2>3. RemoveFirst(l, id) = RemoveAt(l, k) /\ RemoveFirst(s, id) = RemoveAt(s, k)
    BY <1>1, <2>1, <2>2, RemovedIs
  <2>4. PICK a : a = RemoveAt(l, k)
    OBVIOUS
  <2>5. PICK b : b = RemoveAt(s, k)
    OBVIOUS
  <2>6. Len(a) = m - 1 /\ \A i \in 1..(m - 1) : a[i] = l[IF i < k THEN i ELSE i + 1]
    BY <1>1, <1>3, <2>1, <2>4, CutAt DEF Skips
  <2>7. Len(b) = n - 1 /\ \A i \in 1..(n - 1) : b[i] = s[IF i < k THEN i ELSE i + 1]
    BY <1>1, <1>3, <2>2, <2>5, CutAt DEF Skips
  <2>8. \A i \in 1..(m - 1) : i \in 1..(n - 1) /\ (IF i < k THEN i ELSE i + 1) \in 1..m
    BY <1>2
  <2>9. Len(a) <= Len(b) /\ \A i \in 1..Len(a) : a[i] = b[i]
    BY <1>2, <2>6, <2>7, <2>8
  <2> QED BY <2>3, <2>4, <2>5, <2>9 DEF Leads
<1>5. CASE id \notin ToSet(l) /\ id \notin ToSet(s)
    BY <1>5, RemovedIs
<1>6. CASE id \notin ToSet(l) /\ id \in ToSet(s)
  <2>1. PICK k \in 1..n : s[k] = id
    BY <1>1, <1>6, ListIs
  <2>2. \A i \in 1..m : l[i] \in ToSet(l)
    BY <1>1, ListIs
  <2>3. m < k
    BY <1>2, <1>6, <2>1, <2>2
  <2>4. RemoveFirst(l, id) = l /\ RemoveFirst(s, id) = RemoveAt(s, k)
    BY <1>1, <1>6, <2>1, RemovedIs
  <2>5. PICK b : b = RemoveAt(s, k)
    OBVIOUS
  <2>6. Len(b) = n - 1 /\ \A i \in 1..(n - 1) : b[i] = s[IF i < k THEN i ELSE i + 1]
    BY <1>1, <1>3, <2>1, <2>5, CutAt DEF Skips
  <2>7. m <= n - 1 /\ \A i \in 1..m : i \in 1..(n - 1) /\ i < k
    BY <1>2, <2>1, <2>3
  <2>8. m <= Len(b) /\ \A i \in 1..m : l[i] = b[i]
    BY <1>2, <2>6, <2>7
  <2> QED BY <1>1, <2>4, <2>5, <2>8 DEF Leads
<1> QED
    BY <1>4, <1>5, <1>6

LEMMA FrontedLeads ==
    ASSUME NEW l \in Lists, NEW s \in Lists, Leads(l, s), NEW id \in Ids
    PROVE  Leads(Fronted(l, id), Fronted(s, id))
<1>1. PICK a : a = RemoveFirst(l, id)
    OBVIOUS
<1>2. PICK b : b = RemoveFirst(s, id)
    OBVIOUS
<1>3. a \in Lists /\ b \in Lists /\ id \notin ToSet(a) /\ id \notin ToSet(b)
    BY <1>1, <1>2, Removed
<1>4. Len(a) \in Nat /\ Len(b) \in Nat /\ Len(a) <= Len(b) /\ \A i \in 1..Len(a) : a[i] = b[i]
  <2>1. Leads(a, b)
    BY <1>1, <1>2, RemovedLeads
  <2> QED BY <1>3, <2>1, ListIs DEF Leads
<1>5. PICK x : x = <<id>> \o a
    OBVIOUS
<1>6. PICK y : y = <<id>> \o b
    OBVIOUS
<1>7. Len(x) = Len(a) + 1 /\ x[1] = id /\ \A i \in 1..Len(a) : x[i + 1] = a[i]
    BY <1>3, <1>5, Added
<1>8. Len(y) = Len(b) + 1 /\ y[1] = id /\ \A i \in 1..Len(b) : y[i + 1] = b[i]
    BY <1>3, <1>6, Added
<1>9. ASSUME NEW i \in 1..Len(x) PROVE x[i] = y[i]
  <2>1. CASE i = 1
    BY <1>7, <1>8, <2>1
  <2>2. CASE i # 1
    <3>1. PICK j \in 1..Len(a) : i = j + 1
      <4>1. i - 1 \in 1..Len(a) /\ i = (i - 1) + 1
        BY <1>4, <1>7, <2>2
      <4> QED BY <4>1
    <3>2. j \in 1..Len(b)
      BY <1>4
    <3> QED BY <1>4, <1>7, <1>8, <3>1, <3>2
  <2> QED BY <2>1, <2>2
<1>10. Len(x) <= Len(y)
    BY <1>4, <1>7, <1>8
<1> QED
    BY <1>1, <1>2, <1>5, <1>6, <1>9, <1>10 DEF Leads, Fronted


(* Uses(s, more), id by id. *)
UsesUp(f, s, more) ==
    /\ f \in [0..Len(more) -> Lists] /\ f[0] = s
    /\ \A k \in 1..Len(more) : f[k] = Fronted(f[k - 1], more[k])

LEMMA UsesIs ==
    ASSUME NEW s \in Lists, NEW more \in Seq(Ids)
    PROVE  \E f : UsesUp(f, s, more) /\ Uses(s, more) = f[Len(more)]
<1> DEFINE n == Len(more)
           F == [x \in (1..n) \X Lists |-> Fronted(x[2], more[x[1]])]
           used[k \in 0..Len(more)] ==
               IF k = 0 THEN s ELSE <<more[k]>> \o RemoveFirst(used[k - 1], more[k])
<1>1. n \in Nat /\ \A k \in 1..n : more[k] \in Ids
    BY LenProperties, ElementOfSeq
<1>2. F \in [(1..n) \X Lists -> Lists]
    BY <1>1, FrontedIs
<1>3. \A k \in 1..n, x \in Lists : F[<<k, x>>] = Fronted(x, more[k])
    OBVIOUS
<1> HIDE DEF F
<1>4. PICK f \in [0..n -> Lists] : Iterates(f, n, s, F)
    BY <1>1, <1>2, Iterate
<1>5. ASSUME NEW k \in 1..n PROVE f[k] = Fronted(f[k - 1], more[k])
  <2>1. k - 1 \in 0..n
    BY <1>1
  <2>2. f[k - 1] \in Lists
    BY <1>4, <2>1
  <2> QED BY <1>3, <1>4, <2>2 DEF Iterates
<1>6. f[0] = s
    BY <1>4 DEF Iterates
<1>7. f = [k \in 0..Len(more) |->
             IF k = 0 THEN s ELSE <<more[k]>> \o RemoveFirst(f[k - 1], more[k])]
  <2>1. \A k \in 0..n :
            f[k] = IF k = 0 THEN s ELSE <<more[k]>> \o RemoveFirst(f[k - 1], more[k])
    <3> TAKE k \in 0..n
    <3>1. k # 0 => k \in 1..n
      BY <1>1
    <3> QED BY <1>5, <1>6, <3>1, Zenon DEF Fronted
  <2> QED BY <1>4, <2>1
<1>8. used = [k \in 0..Len(more) |->
                IF k = 0 THEN s ELSE <<more[k]>> \o RemoveFirst(used[k - 1], more[k])]
  <2>1. \E g : g = [k \in 0..Len(more) |->
                      IF k = 0 THEN s ELSE <<more[k]>> \o RemoveFirst(g[k - 1], more[k])]
    BY <1>7
  <2> QED BY <2>1
<1>9. Uses(s, more) = used[Len(more)]
    BY DEF Uses
<1> HIDE DEF used
<1>10. \A k \in 0..n : used[k] = f[k]
  <2> DEFINE T == {k \in 0..n : used[k] = f[k]}
  <2>1. 0 \in T
    BY <1>1, <1>6, <1>8
  <2>2. ASSUME NEW k \in 0..n - 1, k \in T PROVE k + 1 \in T
    <3>1. k + 1 \in 1..n /\ (k + 1) - 1 = k /\ k + 1 # 0 /\ k + 1 \in 0..n
      BY <1>1
    <3>2. used[k + 1] = <<more[k + 1]>> \o RemoveFirst(used[k], more[k + 1])
      BY <1>8, <3>1
    <3>3. f[k + 1] = Fronted(f[k], more[k + 1])
      BY <1>5, <3>1
    <3> QED BY <2>2, <3>1, <3>2, <3>3 DEF Fronted
  <2> HIDE DEF T
  <2>3. \A k \in 0..n : k \in T
    BY <1>1, <2>1, <2>2, InductUpTo, Zenon
  <2> QED BY <2>3 DEF T
<1> QED
  <2>1. n \in 0..n
    BY <1>1
  <2>2. Uses(s, more) = f[n]
    BY <1>9, <1>10, <2>1
  <2> QED BY <1>4, <1>5, <1>6, <2>2 DEF UsesUp

(* Using ids keeps a list a list, and what leads it in front of it. *)
LEMMA UsedList ==
    ASSUME NEW s \in Lists, NEW more \in Seq(Ids)
    PROVE  Uses(s, more) \in Lists
<1>1. PICK f : UsesUp(f, s, more) /\ Uses(s, more) = f[Len(more)]
    BY UsesIs
<1>2. Len(more) \in 0..Len(more)
    BY LenProperties
<1> QED
    BY <1>1, <1>2 DEF UsesUp

LEMMA UsedLeads ==
    ASSUME NEW l \in Lists, NEW s \in Lists, Leads(l, s), NEW more \in Seq(Ids)
    PROVE  Leads(Uses(l, more), Uses(s, more))
<1>1. PICK f : UsesUp(f, l, more) /\ Uses(l, more) = f[Len(more)]
    BY UsesIs
<1>2. PICK g : UsesUp(g, s, more) /\ Uses(s, more) = g[Len(more)]
    BY UsesIs
<1>3. PICK n : n = Len(more)
    OBVIOUS
<1>4. n \in Nat /\ \A k \in 1..n : more[k] \in Ids
    BY <1>3, LenProperties, ElementOfSeq
<1> DEFINE T == {k \in 0..n : Leads(f[k], g[k])}
<1>5. 0 \in T
    BY <1>1, <1>2, <1>4 DEF UsesUp
<1>6. ASSUME NEW k \in 0..n - 1, k \in T PROVE k + 1 \in T
  <2>1. k + 1 \in 1..n /\ (k + 1) - 1 = k /\ k + 1 \in 0..n /\ k \in 0..n
    BY <1>4
  <2>2. f[k] \in Lists /\ g[k] \in Lists /\ Leads(f[k], g[k]) /\ more[k + 1] \in Ids
    BY <1>1, <1>2, <1>3, <1>4, <1>6, <2>1 DEF UsesUp
  <2>3. Leads(Fronted(f[k], more[k + 1]), Fronted(g[k], more[k + 1]))
    BY <2>2, FrontedLeads
  <2>4. f[k + 1] = Fronted(f[k], more[k + 1]) /\ g[k + 1] = Fronted(g[k], more[k + 1])
    BY <1>1, <1>2, <1>3, <2>1 DEF UsesUp
  <2> QED BY <2>1, <2>3, <2>4
<1> HIDE DEF T
<1>7. \A k \in 0..n : k \in T
    BY <1>4, <1>5, <1>6, InductUpTo, Zenon
<1>8. n \in T
    BY <1>4, <1>7
<1> QED
    BY <1>1, <1>2, <1>3, <1>8 DEF T

(* Using only ids of a list leaves the same ids in it. *)
LEMMA UsedAmong ==
    ASSUME NEW s \in Lists, NEW more \in Seq(Ids), \A k \in 1..Len(more) : more[k] \in ToSet(s)
    PROVE  ToSet(Uses(s, more)) = ToSet(s) /\ Len(Uses(s, more)) = Len(s)
<1>1. PICK f : UsesUp(f, s, more) /\ Uses(s, more) = f[Len(more)]
    BY UsesIs
<1>2. PICK n : n = Len(more)
    OBVIOUS
<1>3. n \in Nat /\ \A k \in 1..n : more[k] \in Ids /\ more[k] \in ToSet(s)
    BY <1>2, LenProperties, ElementOfSeq
<1> DEFINE T == {k \in 0..n : ToSet(f[k]) = ToSet(s) /\ Len(f[k]) = Len(s)}
<1>4. 0 \in T
    BY <1>1, <1>3 DEF UsesUp
<1>5. ASSUME NEW k \in 0..n - 1, k \in T PROVE k + 1 \in T
  <2>1. k + 1 \in 1..n /\ (k + 1) - 1 = k /\ k + 1 \in 0..n /\ k \in 0..n
    BY <1>3
  <2>2. f[k] \in Lists /\ more[k + 1] \in Ids /\ more[k + 1] \in ToSet(f[k])
    BY <1>1, <1>2, <1>3, <1>5, <2>1 DEF UsesUp
  <2>3. /\ ToSet(Fronted(f[k], more[k + 1])) = ToSet(f[k]) \cup {more[k + 1]}
        /\ Len(Fronted(f[k], more[k + 1])) = Len(f[k])
    BY <2>2, FrontedIs
  <2>4. f[k + 1] = Fronted(f[k], more[k + 1])
    BY <1>1, <1>2, <2>1 DEF UsesUp
  <2> QED BY <1>5, <2>1, <2>2, <2>3, <2>4
<1> HIDE DEF T
<1>6. \A k \in 0..n : k \in T
    BY <1>3, <1>4, <1>5, InductUpTo, Zenon
<1>7. n \in T
    BY <1>3, <1>6
<1> QED
    BY <1>1, <1>2, <1>7 DEF T

LEMMA UsesOne ==
    ASSUME NEW s \in Lists, NEW id \in Ids
    PROVE  Uses(s, <<id>>) = Fronted(s, id)
<1>1. <<id>> \in Seq(Ids) /\ Len(<<id>>) = 1 /\ <<id>>[1] = id
    OBVIOUS
<1>2. PICK f : UsesUp(f, s, <<id>>) /\ Uses(s, <<id>>) = f[Len(<<id>>)]
    BY <1>1, UsesIs
<1>3. 1 \in 1..1 /\ 1 - 1 = 0
    OBVIOUS
<1> QED
    BY <1>1, <1>2, <1>3 DEF UsesUp


-----------------------------------------------------------------------------
(* Memories: what the lists and the map say of the same ids, and an exact
   count.  R is a set of <<id, block>> pairs that the entries are among.    *)
Held(m) == {m.entry[i] : i \in Known(m)}
Exact(m) == m.bytes = IdBytes * Cardinality(Known(m)) + BlockBytes * Cardinality(Held(m))

Values(R) == {x[2] : x \in R}
Entries(R) ==
    {e \in UNION {[D -> Values(R)] : D \in SUBSET Ids} : \A i \in DOMAIN e : <<i, e[i]>> \in R}
Records(R) == [lru : Lists, chain : Lists, entry : Entries(R), bytes : Nat]
Memories(R) ==
    {m \in Records(R) : ToSet(m.lru) = Known(m) /\ ToSet(m.chain) = Known(m) /\ Exact(m)}

LEMMA ImageFinite ==
    ASSUME NEW S, IsFiniteSet(S), NEW f, f \in [S -> {f[x] : x \in S}]
    PROVE  IsFiniteSet({f[x] : x \in S})
<1>1. f \in Surjection(S, {f[x] : x \in S})
    BY DEF Surjection
<1> QED
    BY <1>1, FS_Surjection

LEMMA MemoryIs ==
    ASSUME NEW R, NEW m \in Memories(R)
    PROVE  /\ m.lru \in Lists /\ m.chain \in Lists /\ m.entry \in [Known(m) -> Values(R)] /\ m.bytes \in Nat
           /\ Known(m) \subseteq Ids /\ ToSet(m.lru) = Known(m) /\ ToSet(m.chain) = Known(m)
           /\ IsFiniteSet(Known(m)) /\ IsFiniteSet(Held(m))
           /\ \A i \in Known(m) : <<i, m.entry[i]>> \in R
           /\ Cardinality(Known(m)) \in Nat /\ Cardinality(Held(m)) \in Nat
           /\ m.bytes = IdBytes * Cardinality(Known(m)) + BlockBytes * Cardinality(Held(m))
<1>1. /\ m \in Records(R) /\ ToSet(m.lru) = Known(m) /\ ToSet(m.chain) = Known(m) /\ Exact(m)
    BY DEF Memories
<1>2. /\ m.lru \in Lists /\ m.chain \in Lists /\ m.bytes \in Nat
      /\ m.entry \in Entries(R)
    BY <1>1 DEF Records
<1>3. /\ Known(m) \subseteq Ids /\ m.entry \in [Known(m) -> Values(R)]
      /\ \A i \in Known(m) : <<i, m.entry[i]>> \in R
    BY <1>2 DEF Known, Entries
<1>4. IsFiniteSet(Known(m))
  <2>1. m.lru \in [1..Len(m.lru) -> Ids] /\ Len(m.lru) \in Nat /\ DOMAIN m.lru = 1..Len(m.lru)
    BY <1>2, ListIs, LenProperties
  <2>2. IsFiniteSet(1..Len(m.lru))
    BY <2>1, FS_Interval
  <2>3. m.lru \in [1..Len(m.lru) -> {m.lru[x] : x \in 1..Len(m.lru)}]
    BY <2>1
  <2>4. IsFiniteSet({m.lru[x] : x \in 1..Len(m.lru)})
    BY <2>2, <2>3, ImageFinite
  <2> QED BY <1>1, <2>1, <2>4 DEF ToSet
<1>5. IsFiniteSet(Held(m))
  <2>1. m.entry \in [Known(m) -> {m.entry[x] : x \in Known(m)}]
    BY <1>3
  <2>2. IsFiniteSet({m.entry[x] : x \in Known(m)})
    BY <1>4, <2>1, ImageFinite
  <2> QED BY <1>3, <2>2 DEF Held
<1> QED
    BY <1>1, <1>2, <1>3, <1>4, <1>5, FS_CardinalityType DEF Exact

LEMMA Sizes == IdBytes \in Nat /\ BlockBytes \in Nat /\ MaxBytes \in Nat /\ MaxEntries \in Nat
    BY MemoryAssumption

(* Taking one from n, n * a falls by a, and adding one raises it by a. *)
LEMMA OneMore ==
    ASSUME NEW a \in Nat, NEW n \in Nat
    PROVE  a * (n + 1) = a * n + a /\ a * n \in Nat
    OBVIOUS

LEMMA EntryRemoved ==
    ASSUME NEW R, NEW m \in Memories(R), NEW id \in Known(m)
    PROVE  /\ RemoveEntry(m, id) \in Memories(R)
           /\ Known(RemoveEntry(m, id)) = Known(m) \ {id}
           /\ RemoveEntry(m, id).lru = RemoveFirst(m.lru, id)
<1>1. PICK r : r = RemoveEntry(m, id)
    OBVIOUS
<1>2. PICK d : d = m.entry[id]
    OBVIOUS
<1>3. PICK l : l = RemoveFirst(m.lru, id)
    OBVIOUS
<1>4. PICK c : c = RemoveFirst(m.chain, id)
    OBVIOUS
<1>5. PICK e : e = [i \in Known(m) \ {id} |-> m.entry[i]]
    OBVIOUS
<1>6. PICK b : b = Less(Less(m.bytes, IdBytes), IF Users(m, d) = {id} THEN BlockBytes ELSE 0)
    OBVIOUS
<1>7. r = [lru |-> l, chain |-> c, entry |-> e, bytes |-> b]
    BY <1>1, <1>2, <1>3, <1>4, <1>5, <1>6 DEF RemoveEntry
<1>8. /\ m.lru \in Lists /\ m.chain \in Lists /\ m.entry \in [Known(m) -> Values(R)] /\ m.bytes \in Nat
      /\ Known(m) \subseteq Ids /\ ToSet(m.lru) = Known(m) /\ ToSet(m.chain) = Known(m)
      /\ IsFiniteSet(Known(m)) /\ IsFiniteSet(Held(m))
      /\ \A i \in Known(m) : <<i, m.entry[i]>> \in R
      /\ Cardinality(Known(m)) \in Nat /\ Cardinality(Held(m)) \in Nat
      /\ m.bytes = IdBytes * Cardinality(Known(m)) + BlockBytes * Cardinality(Held(m))
    BY MemoryIs
<1>9. /\ l \in Lists /\ ToSet(l) = Known(m) \ {id} /\ c \in Lists /\ ToSet(c) = Known(m) \ {id}
    BY <1>3, <1>4, <1>8, Removed
<1>10. /\ DOMAIN e = Known(m) \ {id} /\ e \in [Known(m) \ {id} -> Values(R)]
       /\ \A i \in Known(m) \ {id} : e[i] = m.entry[i]
    BY <1>5, <1>8
<1>11. Known(r) = Known(m) \ {id}
    BY <1>7, <1>10 DEF Known
<1>12. Held(r) = {m.entry[i] : i \in Known(m) \ {id}}
    BY <1>7, <1>10, <1>11 DEF Held
<1>13. Users(m, d) = {i \in Known(m) : m.entry[i] = d} /\ id \in Users(m, d) /\ d \in Held(m)
    BY <1>2 DEF Users, Held
<1>14. Held(r) = IF Users(m, d) = {id} THEN Held(m) \ {d} ELSE Held(m)
  <2>1. CASE Users(m, d) = {id}
    <3>1. \A i \in Known(m) \ {id} : m.entry[i] # d
      BY <1>13, <2>1
    <3> QED BY <1>2, <1>12, <2>1, <3>1 DEF Held
  <2>2. CASE Users(m, d) # {id}
    <3>1. PICK j \in Known(m) \ {id} : m.entry[j] = d
      BY <1>13, <2>2
    <3> QED BY <1>2, <1>12, <2>2, <3>1 DEF Held
  <2> QED BY <2>1, <2>2
<1>15. PICK n : n \in Nat /\ Cardinality(Known(m)) = n + 1 /\ Cardinality(Known(r)) = n
  <2>1. Cardinality(Known(r)) = Cardinality(Known(m)) - 1
    BY <1>8, <1>11, FS_RemoveElement
  <2>2. Cardinality(Known(m)) # 0
    BY <1>8, FS_EmptySet
  <2>3. Cardinality(Known(m)) - 1 \in Nat /\ Cardinality(Known(m)) = (Cardinality(Known(m)) - 1) + 1
    BY <1>8, <2>2
  <2> QED BY <2>1, <2>3
<1>16. PICK h : h \in Nat /\ Cardinality(Held(m)) = h + 1 /\ Cardinality(Held(m) \ {d}) = h
  <2>1. Cardinality(Held(m) \ {d}) = Cardinality(Held(m)) - 1
    BY <1>8, <1>13, FS_RemoveElement
  <2>2. Cardinality(Held(m)) # 0
    BY <1>8, <1>13, FS_EmptySet
  <2>3. Cardinality(Held(m)) - 1 \in Nat /\ Cardinality(Held(m)) = (Cardinality(Held(m)) - 1) + 1
    BY <1>8, <2>2
  <2> QED BY <2>1, <2>3
<1>17. PICK x, y : /\ x \in Nat /\ y \in Nat /\ x = IdBytes * n /\ y = BlockBytes * h
                   /\ IdBytes * (n + 1) = x + IdBytes /\ BlockBytes * (h + 1) = y + BlockBytes
    BY <1>15, <1>16, Sizes, OneMore
<1>18. m.bytes = (x + IdBytes) + (y + BlockBytes)
    BY <1>8, <1>15, <1>16, <1>17
<1>19. Less(m.bytes, IdBytes) = x + (y + BlockBytes)
    BY <1>17, <1>18, Sizes DEF Less
<1>20. b \in Nat /\ Exact(r)
  <2>1. CASE Users(m, d) = {id}
    <3>1. b = x + y
      BY <1>6, <1>17, <1>19, <2>1, Sizes DEF Less
    <3>2. Cardinality(Held(r)) = h
      BY <1>14, <1>16, <2>1
    <3> QED BY <1>7, <1>15, <1>17, <3>1, <3>2 DEF Exact
  <2>2. CASE Users(m, d) # {id}
    <3>1. b = x + (y + BlockBytes)
      BY <1>6, <1>17, <1>19, <2>2, Sizes DEF Less
    <3>2. Cardinality(Held(r)) = h + 1
      BY <1>14, <1>16, <2>2
    <3> QED BY <1>7, <1>15, <1>17, <3>1, <3>2, Sizes DEF Exact
  <2> QED BY <2>1, <2>2
<1>21. r \in Records(R)
  <2>1. e \in Entries(R)
    BY <1>8, <1>10 DEF Entries
  <2> QED BY <1>7, <1>9, <1>20, <2>1 DEF Records
<1>22. r \in Memories(R)
    BY <1>7, <1>9, <1>11, <1>20, <1>21 DEF Memories
<1> QED
    BY <1>1, <1>3, <1>7, <1>11, <1>22


LEMMA EntryAdded ==
    ASSUME NEW R, NEW m \in Memories(R), NEW id \in Ids \ Known(m), NEW d, <<id, d>> \in R
    PROVE  AddEntry(m, id, d) \in Memories(R) /\ AddEntry(m, id, d).lru = <<id>> \o m.lru
<1>1. PICK r : r = AddEntry(m, id, d)
    OBVIOUS
<1>2. PICK l : l = <<id>> \o m.lru
    OBVIOUS
<1>3. PICK c : c = <<id>> \o m.chain
    OBVIOUS
<1>4. PICK e : e = [i \in Known(m) \cup {id} |-> IF i = id THEN d ELSE m.entry[i]]
    OBVIOUS
<1>5. PICK b : b = m.bytes + IdBytes + (IF Users(m, d) = {} THEN BlockBytes ELSE 0)
    OBVIOUS
<1>6. r = [lru |-> l, chain |-> c, entry |-> e, bytes |-> b]
    BY <1>1, <1>2, <1>3, <1>4, <1>5 DEF AddEntry
<1>7. /\ m.lru \in Lists /\ m.chain \in Lists /\ m.entry \in [Known(m) -> Values(R)] /\ m.bytes \in Nat
      /\ Known(m) \subseteq Ids /\ ToSet(m.lru) = Known(m) /\ ToSet(m.chain) = Known(m)
      /\ IsFiniteSet(Known(m)) /\ IsFiniteSet(Held(m))
      /\ \A i \in Known(m) : <<i, m.entry[i]>> \in R
      /\ Cardinality(Known(m)) \in Nat /\ Cardinality(Held(m)) \in Nat
      /\ m.bytes = IdBytes * Cardinality(Known(m)) + BlockBytes * Cardinality(Held(m))
    BY MemoryIs
<1>8. /\ l \in Lists /\ ToSet(l) = Known(m) \cup {id} /\ c \in Lists /\ ToSet(c) = Known(m) \cup {id}
    BY <1>2, <1>3, <1>7, Added
<1>9. /\ DOMAIN e = Known(m) \cup {id} /\ e \in [Known(m) \cup {id} -> Values(R)]
      /\ e[id] = d /\ \A i \in Known(m) : e[i] = m.entry[i]
  <2>1. d \in Values(R)
    BY DEF Values
  <2> QED BY <1>4, <1>7, <2>1
<1>10. Known(r) = Known(m) \cup {id}
    BY <1>6, <1>9 DEF Known
<1>11. Held(r) = Held(m) \cup {d}
    BY <1>6, <1>9, <1>10 DEF Held
<1>12. Users(m, d) = {} <=> d \notin Held(m)
    BY DEF Users, Held
<1>13. Cardinality(Known(r)) = Cardinality(Known(m)) + 1
    BY <1>7, <1>10, FS_AddElement
<1>14. Cardinality(Held(r)) = IF d \in Held(m) THEN Cardinality(Held(m)) ELSE Cardinality(Held(m)) + 1
    BY <1>7, <1>11, FS_AddElement
<1>15. PICK n, h : n \in Nat /\ n = Cardinality(Known(m)) /\ h \in Nat /\ h = Cardinality(Held(m))
    BY <1>7
<1>16. PICK x, y : /\ x \in Nat /\ y \in Nat /\ x = IdBytes * n /\ y = BlockBytes * h
                   /\ IdBytes * (n + 1) = x + IdBytes /\ BlockBytes * (h + 1) = y + BlockBytes
    BY <1>15, Sizes, OneMore
<1>17. b \in Nat /\ Exact(r)
  <2>1. CASE d \in Held(m)
    <3>1. b = (x + IdBytes) + y
      BY <1>5, <1>7, <1>12, <1>15, <1>16, <2>1, Sizes
    <3> QED BY <1>6, <1>13, <1>14, <1>15, <1>16, <2>1, <3>1, Sizes DEF Exact
  <2>2. CASE d \notin Held(m)
    <3>1. b = (x + IdBytes) + (y + BlockBytes)
      BY <1>5, <1>7, <1>12, <1>15, <1>16, <2>2, Sizes
    <3> QED BY <1>6, <1>13, <1>14, <1>15, <1>16, <2>2, <3>1, Sizes DEF Exact
  <2> QED BY <2>1, <2>2
<1>18. r \in Records(R)
  <2>1. e \in Entries(R)
    BY <1>7, <1>9 DEF Entries
  <2> QED BY <1>6, <1>8, <1>17, <2>1 DEF Records
<1>19. r \in Memories(R)
    BY <1>6, <1>8, <1>10, <1>17, <1>18 DEF Memories
<1> QED
    BY <1>1, <1>2, <1>6, <1>19

(* Another order of the same ids. *)
LEMMA Reordered ==
    ASSUME NEW R, NEW m \in Memories(R), NEW l \in Lists, ToSet(l) = Known(m)
    PROVE  [m EXCEPT !.lru = l] \in Memories(R) /\ [m EXCEPT !.lru = l].lru = l
           /\ [m EXCEPT !.lru = l].bytes = m.bytes
<1>1. PICK r : r = [m EXCEPT !.lru = l]
    OBVIOUS
<1>2. /\ m \in Records(R) /\ ToSet(m.chain) = Known(m)
      /\ m.bytes = IdBytes * Cardinality(Known(m)) + BlockBytes * Cardinality(Held(m))
    BY MemoryIs DEF Memories
<1>3. r \in Records(R) /\ r.lru = l /\ r.chain = m.chain /\ r.entry = m.entry /\ r.bytes = m.bytes
    BY <1>1, <1>2 DEF Records
<1>4. Known(r) = Known(m) /\ Held(r) = Held(m)
    BY <1>3 DEF Known, Held
<1> QED
    BY <1>1, <1>2, <1>3, <1>4 DEF Memories, Exact

(* Pruning keeps the front of the list and ends within the limits. *)
LEMMA LastRemoved ==
    ASSUME NEW l \in Lists, l # <<>>
    PROVE  /\ l[Len(l)] \in ToSet(l) /\ Leads(RemoveFirst(l, l[Len(l)]), l)
           /\ Len(RemoveFirst(l, l[Len(l)])) = Len(l) - 1 /\ Len(l) \in Nat \ {0}
<1>1. PICK n : n = Len(l)
    OBVIOUS
<1>2. l \in Seq(Ids) /\ n \in Nat \ {0} /\ n \in 1..n
    BY <1>1, ListIs, EmptySeq
<1>3. l[n] \in ToSet(l)
    BY <1>1, <1>2, ListIs
<1>4. PICK r : r = RemoveAt(l, n)
    OBVIOUS
<1>5. RemoveFirst(l, l[n]) = r
    BY <1>1, <1>2, <1>4, RemovedIs
<1>6. Len(r) = n - 1 /\ \A i \in 1..(n - 1) : r[i] = l[IF i < n THEN i ELSE i + 1]
    BY <1>1, <1>2, <1>4, CutAt DEF Skips
<1>7. \A i \in 1..(n - 1) : i < n
    BY <1>2
<1>8. Len(r) <= n /\ \A i \in 1..Len(r) : r[i] = l[i]
    BY <1>2, <1>6, <1>7
<1> QED
    BY <1>1, <1>2, <1>3, <1>5, <1>6, <1>8 DEF Leads

LEMMA LeadsOn ==
    ASSUME NEW a \in Lists, NEW b \in Lists, NEW c \in Lists, Leads(a, b), Leads(b, c)
    PROVE  Leads(a, c)
<1>1. Len(a) \in Nat /\ Len(b) \in Nat /\ Len(c) \in Nat
    BY ListIs
<1>2. \A i \in 1..Len(a) : i \in 1..Len(b)
    BY <1>1 DEF Leads
<1> QED
    BY <1>1, <1>2 DEF Leads

LEMMA FitsEmpty ==
    ASSUME NEW R, NEW m \in Memories(R), m.lru = <<>>
    PROVE  Fits(m)
<1>1. m.lru \in Lists /\ ToSet(m.lru) = Known(m) /\ Len(m.lru) = 0
    BY MemoryIs, EmptySeq
<1>2. Known(m) = {}
    BY <1>1, ListIs
<1>3. Held(m) = {}
    BY <1>2 DEF Held
<1>4. m.bytes = IdBytes * 0 + BlockBytes * 0
    BY <1>2, <1>3, MemoryIs, FS_EmptySet
<1>5. m.bytes = 0
    BY <1>4, Sizes
<1> QED
    BY <1>1, <1>5, Sizes DEF Fits

Shorter(m) == IF Fits(m) THEN m ELSE RemoveEntry(m, m.lru[Len(m.lru)])

LEMMA ShorterIs ==
    ASSUME NEW R, NEW m \in Memories(R)
    PROVE  /\ Shorter(m) \in Memories(R) /\ Leads(Shorter(m).lru, m.lru)
           /\ Fits(Shorter(m)) \/ (m.lru # <<>> /\ Len(Shorter(m).lru) = Len(m.lru) - 1)
<1>1. m.lru \in Lists /\ ToSet(m.lru) = Known(m)
    BY MemoryIs
<1>2. CASE Fits(m)
  <2>1. Leads(m.lru, m.lru)
    BY <1>1, ListIs DEF Leads
  <2> QED BY <1>2, <2>1 DEF Shorter
<1>3. CASE ~Fits(m)
  <2>1. m.lru # <<>>
    BY <1>3, FitsEmpty
  <2>2. PICK id : id = m.lru[Len(m.lru)]
    OBVIOUS
  <2>3. id \in Known(m) /\ Leads(RemoveFirst(m.lru, id), m.lru) /\ Len(RemoveFirst(m.lru, id)) = Len(m.lru) - 1
    BY <1>1, <2>1, <2>2, LastRemoved
  <2>4. RemoveEntry(m, id) \in Memories(R) /\ RemoveEntry(m, id).lru = RemoveFirst(m.lru, id)
    BY <2>3, EntryRemoved
  <2> QED BY <1>3, <2>1, <2>2, <2>3, <2>4 DEF Shorter
<1> QED
    BY <1>2, <1>3


LEMMA Pruned ==
    ASSUME NEW R, NEW m \in Memories(R)
    PROVE  Prune(m) \in Memories(R) /\ Fits(Prune(m)) /\ Leads(Prune(m).lru, m.lru)
<1> DEFINE n == Len(m.lru)
           S == Memories(R)
           F == [x \in (1..n) \X S |-> Shorter(x[2])]
           left[k \in 0..Len(m.lru)] ==
               IF k = 0 THEN m
               ELSE IF Fits(left[k - 1]) THEN left[k - 1]
               ELSE RemoveEntry(left[k - 1], left[k - 1].lru[Len(left[k - 1].lru)])
<1>1. n \in Nat /\ m.lru \in Lists /\ m \in S
    BY MemoryIs, ListIs
<1>2. F \in [(1..n) \X S -> S]
    BY ShorterIs
<1>3. \A k \in 1..n, x \in S : F[<<k, x>>] = Shorter(x)
    OBVIOUS
<1> HIDE DEF F, S
<1>4. PICK f \in [0..n -> S] : Iterates(f, n, m, F)
    BY <1>1, <1>2, Iterate
<1>5. ASSUME NEW k \in 1..n PROVE f[k] = Shorter(f[k - 1])
  <2>1. k - 1 \in 0..n
    BY <1>1
  <2>2. f[k - 1] \in S
    BY <1>4, <2>1
  <2> QED BY <1>3, <1>4, <2>2 DEF Iterates
<1>6. f[0] = m
    BY <1>4 DEF Iterates
<1>7. f = [k \in 0..Len(m.lru) |->
             IF k = 0 THEN m
             ELSE IF Fits(f[k - 1]) THEN f[k - 1]
             ELSE RemoveEntry(f[k - 1], f[k - 1].lru[Len(f[k - 1].lru)])]
  <2>1. \A k \in 0..n :
            f[k] = IF k = 0 THEN m
                   ELSE IF Fits(f[k - 1]) THEN f[k - 1]
                   ELSE RemoveEntry(f[k - 1], f[k - 1].lru[Len(f[k - 1].lru)])
    <3> TAKE k \in 0..n
    <3>1. k # 0 => k \in 1..n
      BY <1>1
    <3> QED BY <1>5, <1>6, <3>1, Zenon DEF Shorter
  <2> QED BY <1>4, <2>1, Zenon
<1>8. left = [k \in 0..Len(m.lru) |->
                IF k = 0 THEN m
                ELSE IF Fits(left[k - 1]) THEN left[k - 1]
                ELSE RemoveEntry(left[k - 1], left[k - 1].lru[Len(left[k - 1].lru)])]
  <2>1. \E g : g = [k \in 0..Len(m.lru) |->
                      IF k = 0 THEN m
                      ELSE IF Fits(g[k - 1]) THEN g[k - 1]
                      ELSE RemoveEntry(g[k - 1], g[k - 1].lru[Len(g[k - 1].lru)])]
    BY <1>7, Zenon
  <2> QED BY <2>1, Zenon
<1>9. Prune(m) = left[n]
    BY Zenon DEF Prune
<1> HIDE DEF left
<1>10. \A k \in 0..n : left[k] = f[k]
  <2> DEFINE T == {k \in 0..n : left[k] = f[k]}
  <2>1. 0 \in T
    BY <1>1, <1>6, <1>8
  <2>2. ASSUME NEW k \in 0..n - 1, k \in T PROVE k + 1 \in T
    <3>1. k + 1 \in 1..n /\ (k + 1) - 1 = k /\ k + 1 # 0 /\ k + 1 \in 0..n
      BY <1>1
    <3>2. left[k + 1] = Shorter(left[k])
      BY <1>8, <3>1 DEF Shorter
    <3>3. f[k + 1] = Shorter(f[k])
      BY <1>5, <3>1
    <3> QED BY <2>2, <3>1, <3>2, <3>3
  <2> HIDE DEF T
  <2>3. \A k \in 0..n : k \in T
    BY <1>1, <2>1, <2>2, InductUpTo, Zenon
  <2> QED BY <2>3 DEF T
<1>11. \A k \in 0..n : f[k] \in Memories(R)
    BY <1>4 DEF S
<1> DEFINE T == {k \in 0..n : Leads(f[k].lru, m.lru) /\ (Fits(f[k]) \/ Len(f[k].lru) = n - k)}
<1>12. 0 \in T
    BY <1>1, <1>6, ListIs DEF Leads
<1>13. ASSUME NEW k \in 0..n - 1, k \in T PROVE k + 1 \in T
  <2>1. k + 1 \in 1..n /\ (k + 1) - 1 = k /\ k + 1 \in 0..n /\ k \in 0..n
    BY <1>1
  <2>2. PICK x \in Memories(R) : x = f[k]
    BY <1>11, <2>1
  <2>3. /\ Shorter(x) \in Memories(R) /\ Leads(Shorter(x).lru, x.lru)
        /\ Fits(Shorter(x)) \/ Len(Shorter(x).lru) = Len(x.lru) - 1
    BY ShorterIs
  <2>4. f[k + 1] = Shorter(x)
    BY <1>5, <2>1, <2>2
  <2>5. Leads(x.lru, m.lru) /\ (Fits(x) \/ Len(x.lru) = n - k)
    BY <1>13, <2>2
  <2>6. Leads(f[k + 1].lru, m.lru)
    BY <1>1, <2>3, <2>4, <2>5, LeadsOn, MemoryIs
  <2>7. Fits(f[k + 1]) \/ Len(f[k + 1].lru) = n - (k + 1)
    <3>1. CASE Fits(x)
      BY <2>4, <3>1 DEF Shorter
    <3>2. CASE Len(x.lru) = n - k
      <4>1. (n - k) - 1 = n - (k + 1)
        BY <1>1
      <4> QED BY <2>3, <2>4, <3>2, <4>1
    <3> QED BY <2>5, <3>1, <3>2
  <2> QED BY <2>1, <2>6, <2>7
<1> HIDE DEF T
<1>14. \A k \in 0..n : k \in T
    BY <1>1, <1>12, <1>13, InductUpTo, Zenon
<1>15. n \in 0..n /\ n - n = 0
    BY <1>1
<1>16. PICK r \in Memories(R) : r = f[n] /\ Prune(m) = r
    BY <1>9, <1>10, <1>11, <1>15
<1>17. Leads(r.lru, m.lru) /\ (Fits(r) \/ Len(r.lru) = 0)
    BY <1>14, <1>15, <1>16 DEF T
<1>18. CASE Len(r.lru) = 0
  <2>1. r.lru \in Lists /\ ToSet(r.lru) = Known(r)
    BY MemoryIs
  <2>2. r.lru = <<>>
    <3>1. \A l \in Seq(Ids) : l # <<>> => Len(l) # 0
      BY EmptySeq
    <3> QED BY <1>18, <2>1, <3>1, ListIs
  <2>3. Fits(r)
    BY <2>2, FitsEmpty
  <2> QED BY <1>16, <1>17, <2>3
<1> QED
    BY <1>16, <1>17, <1>18


(* Putting an entry uses its id. *)
LEMMA PutIs ==
    ASSUME NEW R, NEW m \in Memories(R), NEW id \in Ids, NEW d, <<id, d>> \in R
    PROVE  /\ Put(m, id, d) \in Memories(R) /\ Fits(Put(m, id, d))
           /\ Leads(Put(m, id, d).lru, Fronted(m.lru, id))
<1>1. /\ m.lru \in Lists /\ ToSet(m.lru) = Known(m) /\ Known(m) \subseteq Ids
    BY MemoryIs
<1>2. PICK l : l = Fronted(m.lru, id)
    OBVIOUS
<1>3. l \in Lists /\ ToSet(l) = Known(m) \cup {id}
    BY <1>1, <1>2, FrontedIs
<1>4. PICK x : x = IF id \in Known(m) /\ m.entry[id] = d THEN Touch(m, id)
                   ELSE AddEntry(IF id \in Known(m) THEN RemoveEntry(m, id) ELSE m, id, d)
    OBVIOUS
<1>5. Put(m, id, d) = Prune(x)
    BY <1>4 DEF Put
<1>6. x \in Memories(R) /\ x.lru = l
  <2>1. CASE id \in Known(m) /\ m.entry[id] = d
    <3>1. x = [m EXCEPT !.lru = l]
      BY <1>2, <1>4, <2>1 DEF Touch, Fronted
    <3>2. ToSet(l) = Known(m)
      BY <1>3, <2>1
    <3> QED BY <1>3, <3>1, <3>2, Reordered
  <2>2. CASE id \in Known(m) /\ m.entry[id] # d
    <3>1. PICK r : r = RemoveEntry(m, id)
      OBVIOUS
    <3>2. r \in Memories(R) /\ Known(r) = Known(m) \ {id} /\ r.lru = RemoveFirst(m.lru, id)
      BY <2>2, <3>1, EntryRemoved
    <3>3. AddEntry(r, id, d) \in Memories(R) /\ AddEntry(r, id, d).lru = <<id>> \o r.lru
      BY <3>2, EntryAdded
    <3> QED BY <1>2, <1>4, <2>2, <3>1, <3>2, <3>3 DEF Fronted
  <2>3. CASE id \notin Known(m)
    <3>1. RemoveFirst(m.lru, id) = m.lru
      BY <1>1, <2>3, RemovedIs
    <3>2. AddEntry(m, id, d) \in Memories(R) /\ AddEntry(m, id, d).lru = <<id>> \o m.lru
      BY <2>3, EntryAdded
    <3> QED BY <1>2, <1>4, <2>3, <3>1, <3>2 DEF Fronted
  <2> QED BY <2>1, <2>2, <2>3
<1>7. Prune(x) \in Memories(R) /\ Fits(Prune(x)) /\ Leads(Prune(x).lru, x.lru)
    BY <1>6, Pruned
<1> QED
    BY <1>2, <1>5, <1>6, <1>7

(* What a list of uses and a memory have in common while the memory is used. *)
Follows(m, s) == Fits(m) /\ s \in Lists /\ Leads(m.lru, s)

LEMMA PutFollows ==
    ASSUME NEW R, NEW m \in Memories(R), NEW s, Follows(m, s), NEW id \in Ids, NEW d, <<id, d>> \in R
    PROVE  Put(m, id, d) \in Memories(R) /\ Follows(Put(m, id, d), Fronted(s, id))
<1>1. m.lru \in Lists /\ s \in Lists /\ Leads(m.lru, s)
    BY MemoryIs DEF Follows
<1>2. PICK a : a = Fronted(m.lru, id)
    OBVIOUS
<1>3. PICK b : b = Fronted(s, id)
    OBVIOUS
<1>4. a \in Lists /\ b \in Lists /\ Leads(a, b)
    BY <1>1, <1>2, <1>3, FrontedIs, FrontedLeads
<1>5. PICK x : x = Put(m, id, d)
    OBVIOUS
<1>6. x \in Memories(R) /\ Fits(x) /\ Leads(x.lru, a)
    BY <1>2, <1>5, PutIs
<1>7. x.lru \in Lists
    BY <1>6, MemoryIs
<1>8. Leads(x.lru, b)
    BY <1>4, <1>6, <1>7, LeadsOn
<1> QED
    BY <1>3, <1>4, <1>5, <1>6, <1>8 DEF Follows

(* The calls of a turn. *)
LEMMA PutAllFollows ==
    ASSUME NEW R, NEW m \in Memories(R), NEW s, Follows(m, s), NEW ids \in Seq(Ids), NEW d,
           \A k \in 1..Len(ids) : <<ids[k], d>> \in R
    PROVE  PutAll(m, ids, d) \in Memories(R) /\ Follows(PutAll(m, ids, d), Uses(s, ids))
<1> DEFINE n == Len(ids)
           S == Memories(R)
           F == [x \in (1..n) \X S |-> Put(x[2], ids[x[1]], d)]
           put[k \in 0..Len(ids)] == IF k = 0 THEN m ELSE Put(put[k - 1], ids[k], d)
<1>1. n \in Nat /\ m \in S /\ \A k \in 1..n : ids[k] \in Ids
    BY LenProperties, ElementOfSeq
<1>2. F \in [(1..n) \X S -> S]
    BY <1>1, PutIs
<1>3. \A k \in 1..n, x \in S : F[<<k, x>>] = Put(x, ids[k], d)
    OBVIOUS
<1> HIDE DEF F, S
<1>4. PICK f \in [0..n -> S] : Iterates(f, n, m, F)
    BY <1>1, <1>2, Iterate
<1>5. ASSUME NEW k \in 1..n PROVE f[k] = Put(f[k - 1], ids[k], d)
  <2>1. k - 1 \in 0..n
    BY <1>1
  <2>2. f[k - 1] \in S
    BY <1>4, <2>1
  <2> QED BY <1>3, <1>4, <2>2 DEF Iterates
<1>6. f[0] = m
    BY <1>4 DEF Iterates
<1>7. f = [k \in 0..Len(ids) |-> IF k = 0 THEN m ELSE Put(f[k - 1], ids[k], d)]
  <2>1. \A k \in 0..n : f[k] = IF k = 0 THEN m ELSE Put(f[k - 1], ids[k], d)
    <3> TAKE k \in 0..n
    <3>1. k # 0 => k \in 1..n
      BY <1>1
    <3> QED BY <1>5, <1>6, <3>1, Zenon
  <2> QED BY <1>4, <2>1
<1>8. put = [k \in 0..Len(ids) |-> IF k = 0 THEN m ELSE Put(put[k - 1], ids[k], d)]
  <2>1. \E g : g = [k \in 0..Len(ids) |-> IF k = 0 THEN m ELSE Put(g[k - 1], ids[k], d)]
    BY <1>7
  <2> QED BY <2>1
<1>9. PutAll(m, ids, d) = put[n]
    BY DEF PutAll
<1> HIDE DEF put
<1>10. \A k \in 0..n : put[k] = f[k]
  <2> DEFINE T == {k \in 0..n : put[k] = f[k]}
  <2>1. 0 \in T
    BY <1>1, <1>6, <1>8
  <2>2. ASSUME NEW k \in 0..n - 1, k \in T PROVE k + 1 \in T
    <3>1. k + 1 \in 1..n /\ (k + 1) - 1 = k /\ k + 1 # 0 /\ k + 1 \in 0..n
      BY <1>1
    <3>2. put[k + 1] = Put(put[k], ids[k + 1], d)
      BY <1>8, <3>1
    <3>3. f[k + 1] = Put(f[k], ids[k + 1], d)
      BY <1>5, <3>1
    <3> QED BY <2>2, <3>1, <3>2, <3>3
  <2> HIDE DEF T
  <2>3. \A k \in 0..n : k \in T
    BY <1>1, <2>1, <2>2, InductUpTo, Zenon
  <2> QED BY <2>3 DEF T
<1>11. PICK g : UsesUp(g, s, ids) /\ Uses(s, ids) = g[n]
    BY UsesIs DEF Follows
<1> DEFINE T == {k \in 0..n : Follows(f[k], g[k])}
<1>12. 0 \in T
    BY <1>1, <1>6, <1>11 DEF UsesUp
<1>13. ASSUME NEW k \in 0..n - 1, k \in T PROVE k + 1 \in T
  <2>1. k + 1 \in 1..n /\ (k + 1) - 1 = k /\ k + 1 \in 0..n /\ k \in 0..n
    BY <1>1
  <2>2. PICK x \in Memories(R) : x = f[k]
    BY <1>4, <2>1 DEF S
  <2>3. PICK t : t = g[k]
    OBVIOUS
  <2>4. ids[k + 1] \in Ids /\ Follows(x, t)
    BY <1>1, <1>13, <2>1, <2>2, <2>3
  <2>5. Follows(Put(x, ids[k + 1], d), Fronted(t, ids[k + 1]))
    BY <2>4, PutFollows
  <2>6. f[k + 1] = Put(x, ids[k + 1], d)
    BY <1>5, <2>1, <2>2
  <2>7. g[k + 1] = Fronted(t, ids[k + 1])
    BY <1>11, <2>1, <2>3 DEF UsesUp
  <2> QED BY <2>1, <2>5, <2>6, <2>7
<1> HIDE DEF T
<1>14. \A k \in 0..n : k \in T
    BY <1>1, <1>12, <1>13, InductUpTo, Zenon
<1>15. n \in 0..n
    BY <1>1
<1> QED
    BY <1>4, <1>9, <1>10, <1>11, <1>14, <1>15 DEF T, S

(* What Kept keeps. *)
LEMMA KeptIs ==
    ASSUME NEW T, NEW s \in Seq(T), NEW S
    PROVE  Kept(s, S) \in Seq(T \cap S)
<1> DEFINE n == Len(s)
           Q == Seq(T \cap S)
           F == [x \in (1..n) \X Q |-> IF s[x[1]] \in S THEN Append(x[2], s[x[1]]) ELSE x[2]]
           kept[k \in 0..Len(s)] ==
               IF k = 0 THEN <<>>
               ELSE IF s[k] \in S THEN Append(kept[k - 1], s[k]) ELSE kept[k - 1]
<1>1. n \in Nat /\ <<>> \in Q /\ \A k \in 1..n : s[k] \in T
    BY LenProperties, ElementOfSeq, EmptySeq
<1>2. F \in [(1..n) \X Q -> Q]
    BY <1>1, AppendProperties
<1>3. \A k \in 1..n, x \in Q : F[<<k, x>>] = IF s[k] \in S THEN Append(x, s[k]) ELSE x
    OBVIOUS
<1> HIDE DEF F, Q
<1>4. PICK f \in [0..n -> Q] : Iterates(f, n, <<>>, F)
    BY <1>1, <1>2, Iterate
<1>5. ASSUME NEW k \in 1..n PROVE f[k] = IF s[k] \in S THEN Append(f[k - 1], s[k]) ELSE f[k - 1]
  <2>1. k - 1 \in 0..n
    BY <1>1
  <2>2. f[k - 1] \in Q
    BY <1>4, <2>1
  <2> QED BY <1>3, <1>4, <2>2 DEF Iterates
<1>6. f[0] = <<>>
    BY <1>4 DEF Iterates
<1>7. f = [k \in 0..Len(s) |->
             IF k = 0 THEN <<>> ELSE IF s[k] \in S THEN Append(f[k - 1], s[k]) ELSE f[k - 1]]
  <2>1. \A k \in 0..n :
            f[k] = IF k = 0 THEN <<>> ELSE IF s[k] \in S THEN Append(f[k - 1], s[k]) ELSE f[k - 1]
    <3> TAKE k \in 0..n
    <3>1. k # 0 => k \in 1..n
      BY <1>1
    <3> QED BY <1>5, <1>6, <3>1, Zenon
  <2> QED BY <1>4, <2>1, Zenon
<1>8. kept = [k \in 0..Len(s) |->
                IF k = 0 THEN <<>>
                ELSE IF s[k] \in S THEN Append(kept[k - 1], s[k]) ELSE kept[k - 1]]
  <2>1. \E g : g = [k \in 0..Len(s) |->
                      IF k = 0 THEN <<>>
                      ELSE IF s[k] \in S THEN Append(g[k - 1], s[k]) ELSE g[k - 1]]
    BY <1>7, Zenon
  <2> QED BY <2>1, Zenon
<1>9. Kept(s, S) = kept[n]
    BY Zenon DEF Kept
<1> HIDE DEF kept
<1>10. \A k \in 0..n : kept[k] = f[k]
  <2> DEFINE R == {k \in 0..n : kept[k] = f[k]}
  <2>1. 0 \in R
    BY <1>1, <1>6, <1>8
  <2>2. ASSUME NEW k \in 0..n - 1, k \in R PROVE k + 1 \in R
    <3>1. k + 1 \in 1..n /\ (k + 1) - 1 = k /\ k + 1 # 0 /\ k + 1 \in 0..n
      BY <1>1
    <3>2. kept[k + 1] = IF s[k + 1] \in S THEN Append(kept[k], s[k + 1]) ELSE kept[k]
      BY <1>8, <3>1
    <3>3. f[k + 1] = IF s[k + 1] \in S THEN Append(f[k], s[k + 1]) ELSE f[k]
      BY <1>5, <3>1
    <3> QED BY <2>2, <3>1, <3>2, <3>3
  <2> HIDE DEF R
  <2>3. \A k \in 0..n : k \in R
    BY <1>1, <2>1, <2>2, InductUpTo, Zenon
  <2> QED BY <2>3 DEF R
<1> QED
  <2>1. n \in 0..n
    BY <1>1
  <2> QED BY <1>4, <1>9, <1>10, <2>1 DEF Q


LEMMA LookUpFollows ==
    ASSUME NEW R, NEW m \in Memories(R), NEW s, Follows(m, s), NEW ids \in Seq(Ids)
    PROVE  /\ Found(m, ids) \in Seq(Ids)
           /\ LookUp(m, ids) \in Memories(R) /\ Follows(LookUp(m, ids), Uses(s, Found(m, ids)))
<1>1. /\ m.lru \in Lists /\ ToSet(m.lru) = Known(m) /\ s \in Lists /\ Leads(m.lru, s) /\ Fits(m)
    BY MemoryIs DEF Follows
<1>2. PICK found : found = Found(m, ids)
    OBVIOUS
<1>3. found \in Seq(Ids \cap Known(m))
    BY <1>2, KeptIs DEF Found
<1>4. found \in Seq(Ids)
    BY <1>3, SeqMonotonic
<1>5. \A k \in 1..Len(found) : found[k] \in ToSet(m.lru)
    BY <1>1, <1>3, ElementOfSeq
<1>6. PICK l : l = Uses(m.lru, found)
    OBVIOUS
<1>7. l \in Lists /\ ToSet(l) = Known(m) /\ Len(l) = Len(m.lru)
    BY <1>1, <1>4, <1>5, <1>6, UsedList, UsedAmong
<1>8. PICK x : x = [m EXCEPT !.lru = l]
    OBVIOUS
<1>9. LookUp(m, ids) = x
    BY <1>2, <1>6, <1>8 DEF LookUp
<1>10. x \in Memories(R) /\ x.lru = l /\ x.bytes = m.bytes
    BY <1>7, <1>8, Reordered
<1>11. Uses(s, found) \in Lists /\ Leads(l, Uses(s, found))
    BY <1>1, <1>4, <1>6, UsedList, UsedLeads
<1>12. Follows(x, Uses(s, found))
    BY <1>1, <1>7, <1>10, <1>11 DEF Follows, Fits
<1> QED
    BY <1>2, <1>4, <1>9, <1>10, <1>12

(* A sequence of sequences, put end to end one by one. *)
EndToEnd(f, ss, T) ==
    /\ f \in [0..Len(ss) -> Seq(T)] /\ f[0] = <<>>
    /\ \A i \in 1..Len(ss) : f[i] = f[i - 1] \o ss[i]

LEMMA FlattenUp ==
    ASSUME NEW T, NEW ss \in Seq(Seq(T))
    PROVE  \E f : EndToEnd(f, ss, T) /\ FlattenSeq(ss) = f[Len(ss)]
<1> DEFINE n == Len(ss)
           Q == Seq(T)
           F == [x \in (1..n) \X Q |-> x[2] \o ss[x[1]]]
           flatten[i \in 1..Len(ss)] == IF i = 1 THEN ss[i] ELSE flatten[i - 1] \o ss[i]
<1>1. n \in Nat /\ <<>> \in Q /\ \A i \in 1..n : ss[i] \in Q
    BY LenProperties, ElementOfSeq, EmptySeq
<1>2. F \in [(1..n) \X Q -> Q]
    BY <1>1, ConcatProperties
<1>3. \A i \in 1..n, x \in Q : F[<<i, x>>] = x \o ss[i]
    OBVIOUS
<1> HIDE DEF F, Q
<1>4. PICK f \in [0..n -> Q] : Iterates(f, n, <<>>, F)
    BY <1>1, <1>2, Iterate
<1>5. ASSUME NEW i \in 1..n PROVE f[i] = f[i - 1] \o ss[i]
  <2>1. i - 1 \in 0..n
    BY <1>1
  <2>2. f[i - 1] \in Q
    BY <1>4, <2>1
  <2> QED BY <1>3, <1>4, <2>2 DEF Iterates
<1>6. f[0] = <<>>
    BY <1>4 DEF Iterates
<1>7. EndToEnd(f, ss, T)
    BY <1>4, <1>5, <1>6 DEF EndToEnd, Q
<1>8. CASE n = 0
  <2>1. ss = <<>>
    BY <1>8, EmptySeq
  <2> QED BY <1>6, <1>7, <1>8, <2>1 DEF FlattenSeq
<1>9. CASE n # 0
  <2>1. 1 \in 1..n => f[1] = ss[1]
    <3> SUFFICES ASSUME 1 \in 1..n PROVE f[1] = ss[1]
      OBVIOUS
    <3>1. ss[1] \in Seq(T)
      BY <1>1 DEF Q
    <3>2. <<>> \o ss[1] = ss[1]
      BY <3>1, ConcatEmptySeq
    <3>3. PICK i \in 1..n : i = 1
      OBVIOUS
    <3>4. i - 1 = 0
      BY <3>3
    <3>5. f[i] = f[i - 1] \o ss[i]
      BY <1>5, Zenon
    <3>6. f[i] = f[0] \o ss[i]
      BY <3>4, <3>5, Zenon
    <3> QED BY <1>6, <3>2, <3>3, <3>6, Zenon
  <2>2. PICK g : g = [i \in 1..n |-> f[i]]
    OBVIOUS
  <2>3. g = [i \in 1..Len(ss) |-> IF i = 1 THEN ss[i] ELSE g[i - 1] \o ss[i]]
    <3>1. \A i \in 1..n : g[i] = IF i = 1 THEN ss[i] ELSE g[i - 1] \o ss[i]
      <4> TAKE i \in 1..n
      <4>1. i # 1 => i - 1 \in 1..n
        BY <1>1
      <4> QED BY <1>5, <2>1, <2>2, <4>1
    <3> QED BY <2>2, <3>1
  <2>4. flatten = [i \in 1..Len(ss) |-> IF i = 1 THEN ss[i] ELSE flatten[i - 1] \o ss[i]]
    <3>1. \E h : h = [i \in 1..Len(ss) |-> IF i = 1 THEN ss[i] ELSE h[i - 1] \o ss[i]]
      BY <2>3
    <3> QED BY <3>1
  <2>5. FlattenSeq(ss) = flatten[n]
    BY <1>9 DEF FlattenSeq
  <2> HIDE DEF flatten
  <2>6. \A i \in 0..n : i = 0 \/ flatten[i] = f[i]
    <3> DEFINE R == {i \in 0..n : i = 0 \/ flatten[i] = f[i]}
    <3>1. 0 \in R
      BY <1>1
    <3>2. ASSUME NEW i \in 0..n - 1, i \in R PROVE i + 1 \in R
      <4>1. i + 1 \in 1..n /\ (i + 1) - 1 = i /\ i + 1 \in 0..n
        BY <1>1
      <4>2. CASE i = 0
        BY <2>1, <2>4, <4>1, <4>2
      <4>3. CASE i # 0
        <5>1. i + 1 # 1
          BY <1>1, <4>3
        <5>2. flatten[i + 1] = flatten[i] \o ss[i + 1]
          BY <2>4, <4>1, <5>1
        <5>3. f[i + 1] = f[i] \o ss[i + 1]
          BY <1>5, <4>1
        <5> QED BY <3>2, <4>1, <4>3, <5>2, <5>3
      <4> QED BY <4>2, <4>3
    <3> HIDE DEF R
    <3>3. \A i \in 0..n : i \in R
      BY <1>1, <3>1, <3>2, InductUpTo, Zenon
    <3> QED BY <3>3 DEF R
  <2> QED
    <3>1. n \in 0..n
      BY <1>1
    <3> QED BY <1>7, <1>9, <2>5, <2>6, <3>1
<1> QED
    BY <1>8, <1>9

LEMMA FlattenIs ==
    ASSUME NEW T, NEW ss \in Seq(Seq(T))
    PROVE  FlattenSeq(ss) \in Seq(T)
<1>1. PICK f : EndToEnd(f, ss, T) /\ FlattenSeq(ss) = f[Len(ss)]
    BY FlattenUp
<1>2. Len(ss) \in 0..Len(ss)
    BY LenProperties
<1> QED
    BY <1>1, <1>2 DEF EndToEnd

-----------------------------------------------------------------------------
(* The invariant: the memory is one, fits, and follows the uses; the requests
   in hand name ids only.                                                   *)
Messages == [Clients -> Seq(Seq(Ids))]

MemoryInv == msgs \in Messages /\ \E R : mem \in Memories(R) /\ Follows(mem, recent)

LEMMA MorePairs ==
    ASSUME NEW R, NEW W, R \subseteq W
    PROVE  Memories(R) \subseteq Memories(W)
<1>1. Values(R) \subseteq Values(W)
    BY DEF Values
<1>2. \A D : [D -> Values(R)] \subseteq [D -> Values(W)]
    BY <1>1
<1>3. Entries(R) \subseteq Entries(W)
    BY <1>2 DEF Entries
<1>4. Records(R) \subseteq Records(W)
    BY <1>3 DEF Records
<1> QED
    BY <1>4 DEF Memories

LEMMA EmptyIs == \A R : Empty \in Memories(R) /\ Follows(Empty, <<>>)
<1> SUFFICES ASSUME NEW R PROVE Empty \in Memories(R) /\ Follows(Empty, <<>>)
    OBVIOUS
<1>1. <<>> \in Lists /\ Len(<<>>) = 0 /\ ToSet(<<>>) = {} /\ DOMAIN <<>> = {}
  <2>1. <<>> \in Seq(Ids) /\ Len(<<>>) = 0
    BY EmptySeq
  <2>2. DOMAIN <<>> = 1..0
    BY <2>1, LenProperties
  <2> QED BY <2>1, <2>2 DEF Lists, Distinct, ToSet
<1>2. <<>> \in Entries(R)
  <2>1. <<>> \in [{} -> Values(R)]
    <3>1. <<>> \in Seq(Values(R)) /\ Len(<<>>) = 0
      BY EmptySeq
    <3>2. <<>> \in [1..0 -> Values(R)]
      BY <3>1, LenProperties
    <3> QED BY <3>2
  <2>2. <<>> \in UNION {[D -> Values(R)] : D \in SUBSET Ids}
    BY <2>1
  <2> QED BY <1>1, <2>2 DEF Entries
<1>3. Empty \in Records(R)
    BY <1>1, <1>2 DEF Empty, Records
<1>4. Known(Empty) = {} /\ Held(Empty) = {}
    BY <1>1 DEF Empty, Known, Held
<1>5. Exact(Empty)
  <2>1. Cardinality({}) = 0 /\ Empty.bytes = 0
    BY FS_EmptySet DEF Empty
  <2> QED BY <1>4, <2>1, Sizes DEF Exact
<1>6. Empty \in Memories(R)
    BY <1>1, <1>3, <1>4, <1>5 DEF Memories, Empty
<1>7. Fits(Empty)
    BY <1>1, Sizes DEF Fits, Empty
<1>8. Leads(Empty.lru, <<>>)
    BY <1>1 DEF Empty, Leads
<1> QED
    BY <1>1, <1>6, <1>7, <1>8 DEF Follows

LEMMA MemoryInit == Init => MemoryInv
<1> SUFFICES ASSUME Init PROVE MemoryInv
    OBVIOUS
<1>1. msgs \in Messages
  <2>1. <<>> \in Seq(Seq(Ids))
    BY EmptySeq
  <2> QED BY <2>1 DEF Init, NoRequest, Messages
<1>2. mem = Empty /\ recent = <<>>
    BY DEF Init
<1>3. mem \in Memories({}) /\ Follows(mem, recent)
    BY <1>2, EmptyIs
<1> QED
    BY <1>1, <1>3 DEF MemoryInv

LEMMA MemoryStand ==
    ASSUME MemoryInv, UNCHANGED <<mem, recent>>, msgs' \in Messages
    PROVE  MemoryInv'
    BY DEF MemoryInv

LEMMA MemoryStands ==
    ASSUME MemoryInv, UNCHANGED <<mem, recent, msgs>>
    PROVE  MemoryInv'
    BY MemoryStand DEF MemoryInv

(* The ids a thread looks for in a map are ids. *)
LEMMA WantedIds ==
    ASSUME msgs \in Messages, NEW p \in Procs
    PROVE  Wanted(p) \subseteq Ids
<1> SUFFICES ASSUME NEW id \in Wanted(p) PROVE id \in Ids
    OBVIOUS
<1>1. CASE p = Worker
    BY <1>1 DEF Wanted
<1>2. CASE p # Worker
  <2>1. p \in Clients
    BY <1>2 DEF Procs
  <2>2. msgs[p] \in Seq(Seq(Ids))
    BY <2>1 DEF Messages
  <2>3. PICK k \in DOMAIN msgs[p] : id \in ToSet(msgs[p][k])
    BY <1>2 DEF Wanted
  <2>4. msgs[p][k] \in Seq(Ids)
    BY <2>2, <2>3, LenProperties, ElementOfSeq
  <2>5. PICK s \in Seq(Ids) : s = msgs[p][k]
    BY <2>4
  <2>6. DOMAIN s = 1..Len(s) /\ \A i \in 1..Len(s) : s[i] \in Ids
    BY LenProperties, ElementOfSeq
  <2> QED BY <2>3, <2>5, <2>6 DEF ToSet
<1> QED
    BY <1>1, <1>2

LEMMA MemoryLoad ==
    ASSUME MemoryInv, NEW p \in Procs, LoadEntry(p)
    PROVE  MemoryInv'
<1>1. PICK id : id = Cell(stream[p], 1)[2]
    OBVIOUS
<1>2. PICK d : d = <<Cell(stream[p], 2)[2], Cell(stream[p], 3)[2]>>
    OBVIOUS
<1>3. msgs' = msgs /\ msgs \in Messages
    BY DEF LoadEntry, Take, MemoryInv
<1>4. CASE id \notin Wanted(p)
  <2>1. UNCHANGED <<mem, recent>>
    BY <1>1, <1>4 DEF LoadEntry
  <2> QED BY <1>3, <2>1, MemoryStands
<1>5. CASE id \in Wanted(p)
  <2>1. id \in Ids
    BY <1>3, <1>5, WantedIds
  <2>2. mem' = Put(mem, id, d) /\ recent' = Uses(recent, <<id>>)
    BY <1>1, <1>2, <1>5 DEF LoadEntry, Used
  <2>3. PICK R : mem \in Memories(R) /\ Follows(mem, recent)
    BY DEF MemoryInv
  <2>4. PICK W : W = R \cup {<<id, d>>}
    OBVIOUS
  <2>5. mem \in Memories(W) /\ <<id, d>> \in W
    BY <2>3, <2>4, MorePairs
  <2>6. Put(mem, id, d) \in Memories(W) /\ Follows(Put(mem, id, d), Fronted(recent, id))
    BY <2>1, <2>3, <2>5, PutFollows
  <2>7. Uses(recent, <<id>>) = Fronted(recent, id)
    BY <2>1, <2>3, UsesOne DEF Follows
  <2> QED BY <1>3, <2>2, <2>6, <2>7 DEF MemoryInv
<1> QED
    BY <1>4, <1>5

LEMMA MemoryAttach ==
    ASSUME MemoryInv, NEW c \in Clients, Attach(c)
    PROVE  MemoryInv'
<1>1. PICK calls : calls = FlattenSeq(msgs[c])
    OBVIOUS
<1>2. msgs[c] \in Seq(Seq(Ids)) /\ msgs \in Messages
    BY DEF MemoryInv, Messages
<1>3. calls \in Seq(Ids)
    BY <1>1, <1>2, FlattenIs
<1>4. mem' = LookUp(mem, calls) /\ recent' = Uses(recent, Found(mem, calls))
    BY <1>1 DEF Attach, Used
<1>5. msgs' \in Messages
  <2>1. msgs' = [msgs EXCEPT ![c] = <<>>]
    BY DEF Attach, Answer
  <2>2. <<>> \in Seq(Seq(Ids))
    BY EmptySeq
  <2> QED BY <1>2, <2>1, <2>2 DEF Messages
<1>6. PICK R : mem \in Memories(R) /\ Follows(mem, recent)
    BY DEF MemoryInv
<1>7. LookUp(mem, calls) \in Memories(R) /\ Follows(LookUp(mem, calls), Uses(recent, Found(mem, calls)))
    BY <1>3, <1>6, LookUpFollows
<1> QED
    BY <1>4, <1>5, <1>7 DEF MemoryInv

LEMMA MemoryRemember ==
    ASSUME MemoryInv, Remember
    PROVE  MemoryInv'
<1>1. PICK ids \in Calls, b \in Blocks :
          mem' = PutAll(mem, ids, Whole(b)) /\ recent' = Uses(recent, ids)
    BY DEF Remember, Used
<1>2. ids \in Seq(Ids)
    BY <1>1, ReplayAssumption
<1>3. PICK R : mem \in Memories(R) /\ Follows(mem, recent)
    BY DEF MemoryInv
<1>4. PICK W : W = R \cup (Ids \X {Whole(b)})
    OBVIOUS
<1>5. mem \in Memories(W) /\ \A k \in 1..Len(ids) : <<ids[k], Whole(b)>> \in W
    BY <1>2, <1>3, <1>4, MorePairs, ElementOfSeq
<1>6. /\ PutAll(mem, ids, Whole(b)) \in Memories(W)
      /\ Follows(PutAll(mem, ids, Whole(b)), Uses(recent, ids))
    BY <1>2, <1>3, <1>5, PutAllFollows
<1>7. msgs' = msgs
    BY DEF Remember
<1> QED
    BY <1>1, <1>6, <1>7 DEF MemoryInv

LEMMA MemoryStep == MemoryInv /\ [Next]_vars => MemoryInv'
<1> SUFFICES ASSUME MemoryInv, [Next]_vars PROVE MemoryInv'
    OBVIOUS
<1>1. ASSUME NEW c \in Clients, Parse(c) PROVE MemoryInv'
  <2>1. PICK r \in Requests : msgs' = [msgs EXCEPT ![c] = r]
    BY <1>1 DEF Parse
  <2>2. msgs' \in Messages
    BY <2>1, ReplayAssumption DEF MemoryInv, Messages
  <2>3. UNCHANGED <<mem, recent>>
    BY <1>1 DEF Parse
  <2> QED BY <2>2, <2>3, MemoryStand
<1>2. ASSUME NEW p \in Procs, Loading(p) PROVE MemoryInv'
  <2>1. CASE LoadEntry(p)
    BY <2>1, MemoryLoad
  <2>2. CASE ReadMore(p) \/ CloseMap(p)
    BY <2>2, MemoryStands DEF ReadMore, CloseMap
  <2> QED BY <1>2, <2>1, <2>2 DEF Loading
<1>3. ASSUME NEW c \in Clients, Parsing(c) PROVE MemoryInv'
  <2>1. CASE Loading(c)
    BY <1>2, <2>1 DEF Procs
  <2>2. CASE Attach(c)
    BY <2>2, MemoryAttach
  <2>3. CASE Visit(c) \/ ScanDone(c)
    BY <2>3, MemoryStands DEF Visit, ScanDone
  <2> QED BY <1>3, <2>1, <2>2, <2>3 DEF Parsing
<1>4. CASE Storing
    BY <1>4, MemoryStands
       DEF Storing, StoreMap, Rename, StoreFails, Truncate, Lock, WriteChunk, Unlock, Flush, Mark
<1>5. CASE Remember
    BY <1>5, MemoryRemember
<1>6. CASE Resume \/ StoreHeader \/ BeginRewrite \/ Evict
    BY <1>6, MemoryStands DEF Resume, StoreHeader, BeginRewrite, Evict
<1>7. CASE Restart
  <2>1. mem' = Empty /\ recent' = <<>> /\ msgs' = NoRequest
    BY <1>7 DEF Restart
  <2>2. <<>> \in Seq(Seq(Ids))
    BY EmptySeq
  <2>3. msgs' \in Messages
    BY <2>1, <2>2 DEF NoRequest, Messages
  <2>4. mem' \in Memories({}) /\ Follows(mem', recent')
    BY <2>1, EmptyIs
  <2> QED BY <2>3, <2>4 DEF MemoryInv
<1>8. CASE UNCHANGED vars
    BY <1>8, MemoryStands DEF vars
<1> QED
    BY <1>1, <1>2, <1>3, <1>4, <1>5, <1>6, <1>7, <1>8 DEF Next, Procs

LEMMA MemoryShows == MemoryInv => KeepsMostRecent
<1> SUFFICES ASSUME MemoryInv PROVE KeepsMostRecent
    OBVIOUS
<1>1. PICK R : mem \in Memories(R) /\ Follows(mem, recent)
    BY DEF MemoryInv
<1>2. /\ mem.lru \in Lists /\ recent \in Lists /\ Leads(mem.lru, recent) /\ Fits(mem)
      /\ ToSet(mem.lru) = Known(mem) /\ ToSet(mem.chain) = Known(mem)
      /\ mem.bytes = IdBytes * Cardinality(Known(mem)) + BlockBytes * Cardinality(Held(mem))
    BY <1>1, MemoryIs DEF Follows
<1>3. PICK n : n = Len(mem.lru)
    OBVIOUS
<1>4. /\ n \in Nat /\ Len(recent) \in Nat /\ n <= Len(recent)
      /\ mem.lru \in Seq(Ids) /\ recent \in Seq(Ids)
      /\ \A i \in 1..n : mem.lru[i] = recent[i]
    BY <1>2, <1>3, ListIs DEF Leads
<1>5. PICK s : s = SubSeq(recent, 1, n)
    OBVIOUS
<1>6. s \in Seq(Ids) /\ Len(s) = n /\ \A i \in 1..n : s[i] = recent[i]
  <2>1. 1 \in Int /\ n \in Int /\ \A i \in 1..n : recent[i] \in Ids
    BY <1>4, ElementOfSeq
  <2>2. /\ s \in Seq(Ids) /\ Len(s) = IF 1 <= n THEN n - 1 + 1 ELSE 0
        /\ \A i \in 1..(n - 1 + 1) : s[i] = recent[1 + i - 1]
    BY <1>5, <2>1, SubSeqProperties
  <2>3. n - 1 + 1 = n /\ (~(1 <= n) => n = 0) /\ \A i \in 1..n : 1 + i - 1 = i
    BY <1>4
  <2> QED BY <2>2, <2>3
<1>7. mem.lru = s
    BY <1>3, <1>4, <1>6, SeqEqual
<1> QED
    BY <1>2, <1>3, <1>5, <1>7 DEF KeepsMostRecent, BytesExact, Fits, Held

(* For any ids, limits, requests and clients: the memory holds the ids used
   last, whoever used them and whatever files they came from, within its
   limits, and its running count is the size of what it holds.             *)
THEOREM KeepsRecent == Spec => []KeepsMostRecent
<1>1. Init => MemoryInv
    BY MemoryInit
<1>2. MemoryInv /\ [Next]_vars => MemoryInv'
    BY MemoryStep
<1>3. MemoryInv => KeepsMostRecent
    BY MemoryShows
<1> QED
    BY <1>1, <1>2, <1>3, PTL DEF Spec


-----------------------------------------------------------------------------
(* Maps, whole or as far as they were written or read: a count, then entries
   of an id and the two halves of its block, which are pairs of R.           *)
Cells == ({"count"} \X Nat) \cup ({"id"} \X Ids) \cup ({"part"} \X Blocks)
Entry(s, k) == <<s[3 * k - 1][2], <<s[3 * k][2], s[3 * k + 1][2]>>>>
Counted(s) == s # <<>> => s[1][2] \in Nat
Paired(s, R) == \A k \in 1..Len(s) : 3 * k + 1 <= Len(s) => Entry(s, k) \in R
Maps(R) == {s \in Seq(Cells) : Counted(s) /\ Paired(s, R)}
Wholes == {Whole(b) : b \in Blocks}

LEMMA MapsMore ==
    ASSUME NEW R, NEW W, R \subseteq W
    PROVE  Maps(R) \subseteq Maps(W)
BY DEF Maps, Paired

LEMMA MapIs ==
    ASSUME NEW R, NEW s \in Maps(R)
    PROVE  s \in Seq(Cells) /\ Len(s) \in Nat /\ Counted(s) /\ Paired(s, R)
BY LenProperties DEF Maps

(* The beginning of a map is one. *)
LEMMA MapStart ==
    ASSUME NEW R, NEW s \in Maps(R), NEW l \in Seq(Cells), Leads(l, s)
    PROVE  l \in Maps(R)
<1>1. /\ s \in Seq(Cells) /\ Len(s) \in Nat /\ Counted(s) /\ Paired(s, R)
      /\ Len(l) \in Nat /\ Len(l) <= Len(s) /\ \A i \in 1..Len(l) : l[i] = s[i]
    BY MapIs, LenProperties DEF Leads
<1>2. Counted(l)
  <2> SUFFICES ASSUME l # <<>> PROVE l[1][2] \in Nat
      BY DEF Counted
  <2>1. Len(l) # 0
    BY EmptySeq
  <2>2. 1 \in 1..Len(l)
    BY <1>1, <2>1
  <2>3. l[1] = s[1]
    BY <1>1, <2>2
  <2>4. s # <<>>
    BY <1>1, <2>1, EmptySeq
  <2> QED BY <1>1, <2>3, <2>4 DEF Counted
<1>3. Paired(l, R)
  <2> SUFFICES ASSUME NEW k \in 1..Len(l), 3 * k + 1 <= Len(l) PROVE Entry(l, k) \in R
      BY DEF Paired
  <2>1. /\ 3 * k - 1 \in 1..Len(l) /\ 3 * k \in 1..Len(l) /\ 3 * k + 1 \in 1..Len(l)
        /\ k \in 1..Len(s) /\ 3 * k + 1 <= Len(s)
    BY <1>1
  <2>2. l[3 * k - 1] = s[3 * k - 1] /\ l[3 * k] = s[3 * k] /\ l[3 * k + 1] = s[3 * k + 1]
    BY <1>1, <2>1
  <2>3. Entry(l, k) = Entry(s, k)
    BY <2>2 DEF Entry
  <2> QED BY <1>1, <2>1, <2>3 DEF Paired
<1> QED
    BY <1>2, <1>3 DEF Maps

(* A read continues what was read, as far as the file reaches. *)
LEMMA ReadOn ==
    ASSUME NEW R, NEW s \in Maps(R), NEW got \in Seq(Cells), Leads(got, s),
           NEW u \in Nat, Len(got) < u, u <= Len(s)
    PROVE  LET more == got \o SubSeq(s, Len(got) + 1, u)
           IN  more \in Maps(R) /\ Leads(more, s)
<1>1. PICK n : n = Len(got)
    OBVIOUS
<1>2. PICK tail : tail = SubSeq(s, n + 1, u)
    OBVIOUS
<1>3. PICK more : more = got \o tail
    OBVIOUS
<1>4. n \in Nat /\ n < u /\ s \in Seq(Cells) /\ Len(s) \in Nat /\ \A i \in 1..n : got[i] = s[i]
    BY <1>1, MapIs, LenProperties DEF Leads
<1>5. tail \in Seq(Cells) /\ Len(tail) = u - n /\ \A i \in 1..u - n : tail[i] = s[n + i]
  <2>1. n + 1 \in Int /\ u \in Int /\ \A i \in n + 1..u : s[i] \in Cells
    BY <1>4, ElementOfSeq
  <2>2. /\ tail \in Seq(Cells) /\ Len(tail) = IF n + 1 <= u THEN u - (n + 1) + 1 ELSE 0
        /\ \A i \in 1..(u - (n + 1) + 1) : tail[i] = s[(n + 1) + i - 1]
    BY <1>2, <2>1, SubSeqProperties
  <2>3. n + 1 <= u /\ u - (n + 1) + 1 = u - n /\ \A i \in 1..u - n : (n + 1) + i - 1 = n + i
    BY <1>4
  <2> QED BY <2>2, <2>3
<1>6. /\ more \in Seq(Cells) /\ Len(more) = n + (u - n)
      /\ \A i \in 1..n + (u - n) : more[i] = IF i <= n THEN got[i] ELSE tail[i - n]
    BY <1>1, <1>3, <1>5, ConcatProperties
<1>7. n + (u - n) = u
    BY <1>4
<1>8. ASSUME NEW i \in 1..u PROVE more[i] = s[i]
  <2>1. CASE i <= n
    BY <1>4, <1>6, <1>7, <2>1
  <2>2. CASE ~(i <= n)
    <3>1. i - n \in 1..u - n /\ n + (i - n) = i
      BY <1>4, <2>2
    <3> QED BY <1>5, <1>6, <1>7, <2>2, <3>1
  <2> QED BY <2>1, <2>2
<1>9. Leads(more, s)
    BY <1>6, <1>7, <1>8 DEF Leads
<1> QED
    BY <1>1, <1>2, <1>3, <1>6, <1>9, MapStart

(* A write moves cells from what is to be written to the end of the file. *)
MovesCells(R, c, o, n) ==
    /\ c \o SubSeq(o, 1, n) \in Maps(R) /\ Leads(c, c \o SubSeq(o, 1, n))
    /\ SubSeq(o, n + 1, Len(o)) \in Seq(Cells)
    /\ (c \o SubSeq(o, 1, n)) \o SubSeq(o, n + 1, Len(o)) = c \o o

LEMMA Emitted ==
    ASSUME NEW R, NEW c \in Seq(Cells), NEW o \in Seq(Cells), c \o o \in Maps(R), NEW n \in 0..Len(o)
    PROVE  MovesCells(R, c, o, n)
<1>1. PICK a : a = SubSeq(o, 1, n)
    OBVIOUS
<1>2. PICK r : r = SubSeq(o, n + 1, Len(o))
    OBVIOUS
<1>3. PICK d : d = c \o a
    OBVIOUS
<1>4. Len(o) \in Nat /\ Len(c) \in Nat /\ n \in Nat /\ n <= Len(o) /\ \A i \in 1..Len(o) : o[i] \in Cells
    BY LenProperties, ElementOfSeq
<1>5. a \in Seq(Cells) /\ r \in Seq(Cells)
  <2>1. 1 \in Int /\ n \in Int /\ n + 1 \in Int /\ Len(o) \in Int
    BY <1>4
  <2>2. (\A i \in 1..n : o[i] \in Cells) /\ \A i \in n + 1..Len(o) : o[i] \in Cells
    BY <1>4
  <2> QED BY <1>1, <1>2, <2>1, <2>2, SubSeqProperties
<1>6. a \o r = o
  <2>1. 1 \in 1..Len(o) + 1 /\ n \in 1 - 1..Len(o) /\ Len(o) \in n..Len(o)
    BY <1>4
  <2>2. a \o r = SubSeq(o, 1, Len(o))
    BY <1>1, <1>2, <2>1, ConcatAdjacentSubSeq
  <2> QED BY <2>2, SubSeqFull
<1>7. d \in Seq(Cells) /\ d \o r = c \o o
  <2>1. d \in Seq(Cells)
    BY <1>3, <1>5, ConcatProperties
  <2>2. (c \o a) \o r = c \o (a \o r)
    BY <1>5, ConcatAssociative
  <2> QED BY <1>3, <1>6, <2>1, <2>2
<1>8. Leads(c, d)
  <2>1. Len(a) \in Nat
    BY <1>5, LenProperties
  <2>2. Len(d) = Len(c) + Len(a) /\ \A i \in 1..Len(c) + Len(a) : d[i] = IF i <= Len(c) THEN c[i] ELSE a[i - Len(c)]
    BY <1>3, <1>5, ConcatProperties
  <2> QED BY <1>4, <2>1, <2>2 DEF Leads
<1>9. Leads(d, c \o o)
  <2>1. Len(r) \in Nat /\ Len(d) \in Nat
    BY <1>5, <1>7, LenProperties
  <2>2. Len(d \o r) = Len(d) + Len(r) /\ \A i \in 1..Len(d) + Len(r) : (d \o r)[i] = IF i <= Len(d) THEN d[i] ELSE r[i - Len(d)]
    BY <1>5, <1>7, ConcatProperties
  <2> QED BY <1>7, <2>1, <2>2 DEF Leads
<1>10. d \in Maps(R)
    BY <1>7, <1>9, MapStart
<1> QED
    BY <1>1, <1>2, <1>3, <1>5, <1>7, <1>8, <1>10 DEF MovesCells


(* The cells of one entry. *)
LEMMA EntryIs ==
    ASSUME NEW i \in Ids, NEW d \in Wholes
    PROVE  /\ EntryCells(i, d) \in Seq(Cells) /\ Len(EntryCells(i, d)) = 3
           /\ EntryCells(i, d)[1][2] = i
           /\ <<EntryCells(i, d)[2][2], EntryCells(i, d)[3][2]>> = d
<1>1. PICK b \in Blocks : d = <<b, b>>
    BY DEF Wholes, Whole
<1>2. EntryCells(i, d) = << <<"id", i>>, <<"part", b>>, <<"part", b>> >>
    BY <1>1 DEF EntryCells
<1>3. PICK x \in Cells : x = <<"id", i>>
    BY DEF Cells
<1>4. PICK y \in Cells : y = <<"part", b>>
    BY DEF Cells
<1>5. EntryCells(i, d) = <<x, y, y>>
    BY <1>2, <1>3, <1>4
<1>6. x[2] = i /\ y[2] = b
    BY <1>3, <1>4
<1>7. <<x, y, y>> \in Seq(Cells) /\ Len(<<x, y, y>>) = 3
    OBVIOUS
<1>8. <<x, y, y>>[1] = x /\ <<x, y, y>>[2] = y /\ <<x, y, y>>[3] = y
    OBVIOUS
<1> QED
    BY <1>1, <1>5, <1>6, <1>7, <1>8

(* Three cells each, end to end: the entries keep their place. *)
Threes(f, ss, n) ==
    /\ Len(f[n]) = 3 * n
    /\ \A k \in 1..n : \A j \in 1..3 : f[n][3 * (k - 1) + j] = ss[k][j]

LEMMA ThreesUp ==
    ASSUME NEW T, NEW ss \in Seq(Seq(T)), NEW f, EndToEnd(f, ss, T),
           \A k \in 1..Len(ss) : Len(ss[k]) = 3
    PROVE  Threes(f, ss, Len(ss))
<1>1. PICK N : N = Len(ss)
    OBVIOUS
<1>2. /\ N \in Nat /\ f \in [0..N -> Seq(T)] /\ f[0] = <<>>
      /\ \A i \in 1..N : f[i] = f[i - 1] \o ss[i] /\ ss[i] \in Seq(T) /\ Len(ss[i]) = 3
    BY <1>1, LenProperties, ElementOfSeq DEF EndToEnd
<1> DEFINE Q == {n \in 0..N : Threes(f, ss, n)}
<1>3. 0 \in Q
  <2>1. Len(f[0]) = 0
    BY <1>2, EmptySeq
  <2> QED BY <1>2, <2>1 DEF Threes
<1>4. ASSUME NEW n \in 0..N - 1, n \in Q PROVE n + 1 \in Q
  <2>1. n \in Nat /\ n \in 0..N /\ n + 1 \in 1..N /\ n + 1 \in 0..N /\ (n + 1) - 1 = n
    BY <1>2
  <2>2. PICK a \in Seq(T) : a = f[n]
    BY <1>2, <2>1
  <2>3. PICK s \in Seq(T) : s = ss[n + 1]
    BY <1>2, <2>1
  <2>4. f[n + 1] = a \o s /\ Len(s) = 3
    BY <1>2, <2>1, <2>2, <2>3
  <2>5. Len(a) = 3 * n /\ \A k \in 1..n : \A j \in 1..3 : a[3 * (k - 1) + j] = ss[k][j]
    BY <1>4, <2>2 DEF Threes
  <2>6. PICK b : b = a \o s
    OBVIOUS
  <2>7. Len(b) = 3 * n + 3 /\ \A i \in 1..3 * n + 3 : b[i] = IF i <= 3 * n THEN a[i] ELSE s[i - 3 * n]
    <3>1. /\ Len(b) = Len(a) + Len(s)
          /\ \A i \in 1..Len(a) + Len(s) : b[i] = IF i <= Len(a) THEN a[i] ELSE s[i - Len(a)]
      BY <2>6, ConcatProperties
    <3> QED BY <2>4, <2>5, <3>1
  <2>8. ASSUME NEW k \in 1..n + 1, NEW j \in 1..3 PROVE b[3 * (k - 1) + j] = ss[k][j]
    <3>1. CASE k \in 1..n
      <4>1. 3 * (k - 1) + j \in 1..3 * n + 3 /\ 3 * (k - 1) + j <= 3 * n
        BY <2>1, <3>1
      <4> QED BY <2>5, <2>7, <3>1, <4>1
    <3>2. CASE k = n + 1
      <4>1. /\ 3 * (k - 1) + j \in 1..3 * n + 3 /\ ~(3 * (k - 1) + j <= 3 * n)
            /\ (3 * (k - 1) + j) - 3 * n = j
        BY <2>1, <3>2
      <4>2. b[3 * (k - 1) + j] = s[j]
        BY <2>7, <4>1
      <4> QED BY <2>3, <3>2, <4>2
    <3> QED BY <2>1, <3>1, <3>2
  <2>9. Len(b) = 3 * (n + 1)
    BY <2>1, <2>7
  <2>10. Threes(f, ss, n + 1)
    BY <2>4, <2>6, <2>8, <2>9 DEF Threes
  <2> QED BY <2>1, <2>10
<1> HIDE DEF Q
<1>5. \A n \in 0..N : n \in Q
    BY <1>2, <1>3, <1>4, InductUpTo, Zenon
<1> QED
    BY <1>1, <1>2, <1>5 DEF Q

(* The ids of a text's blocks are in the memory. *)
LEMMA AllHoldersKnown ==
    ASSUME NEW R, NEW m \in Memories(R), NEW text \in Seq(Blocks)
    PROVE  AllHolders(m, text) \in Seq(Known(m))
<1>1. PICK K : K = Known(m)
    OBVIOUS
<1>2. \A d : Holders(m, d) \in Seq(K)
  <2> SUFFICES ASSUME NEW d PROVE Holders(m, d) \in Seq(K)
      OBVIOUS
  <2>1. m.chain \in Seq(Ids)
    BY MemoryIs, ListIs
  <2>2. Holders(m, d) \in Seq(Ids \cap Users(m, d))
    BY <2>1, KeptIs DEF Holders
  <2>3. Ids \cap Users(m, d) \subseteq K
    BY <1>1 DEF Users
  <2> QED BY <2>2, <2>3, SeqMonotonic
<1>3. Len(text) \in Nat /\ DOMAIN text = 1..Len(text)
    BY LenProperties
<1>4. PICK ss : ss = [k \in DOMAIN text |-> Holders(m, Whole(text[k]))]
    OBVIOUS
<1>5. ss \in Seq(Seq(K))
    BY <1>2, <1>3, <1>4
<1>6. FlattenSeq(ss) \in Seq(K)
    BY <1>5, FlattenIs
<1> QED
    BY <1>1, <1>4, <1>6 DEF AllHolders


(* What the worker writes is a map of what the memory holds. *)
LEMMA MapOfIs ==
    ASSUME NEW R, R \subseteq Ids \X Wholes, NEW m \in Memories(R), NEW text \in Seq(Blocks)
    PROVE  MapOf(m, text) \in Maps(R)
<1>1. PICK ids : ids = AllHolders(m, text)
    OBVIOUS
<1>2. ids \in Seq(Known(m)) /\ Known(m) \subseteq Ids
    BY <1>1, AllHoldersKnown, MemoryIs
<1>3. PICK n : n = Len(ids)
    OBVIOUS
<1>4. n \in Nat /\ DOMAIN ids = 1..n /\ \A k \in 1..n : ids[k] \in Known(m)
    BY <1>2, <1>3, LenProperties, ElementOfSeq
<1>5. CASE ids = <<>>
  <2>1. MapOf(m, text) = <<>>
    BY <1>1, <1>5 DEF MapOf
  <2>2. <<>> \in Seq(Cells) /\ Len(<<>>) = 0
    BY EmptySeq
  <2> QED BY <2>1, <2>2 DEF Maps, Counted, Paired
<1>6. CASE ids # <<>>
  <2>1. PICK ss : ss = [k \in DOMAIN ids |-> EntryCells(ids[k], m.entry[ids[k]])]
    OBVIOUS
  <2>2. PICK flat : flat = FlattenSeq(ss)
    OBVIOUS
  <2>3. PICK head : head = << <<"count", n>> >>
    OBVIOUS
  <2>4. MapOf(m, text) = head \o flat
    BY <1>1, <1>3, <1>6, <2>1, <2>2, <2>3 DEF MapOf
  <2>5. ASSUME NEW k \in 1..n
        PROVE  /\ ss[k] \in Seq(Cells) /\ Len(ss[k]) = 3
               /\ <<ss[k][1][2], <<ss[k][2][2], ss[k][3][2]>>>> \in R
    <3>1. PICK i \in Known(m) : i = ids[k]
      BY <1>4
    <3>2. PICK d : d = m.entry[i]
      OBVIOUS
    <3>3. <<i, d>> \in R
      BY <3>2, MemoryIs
    <3>4. i \in Ids /\ d \in Wholes
      BY <3>3
    <3>5. ss[k] = EntryCells(i, d)
      BY <1>4, <2>1, <3>1, <3>2
    <3>6. /\ EntryCells(i, d) \in Seq(Cells) /\ Len(EntryCells(i, d)) = 3
          /\ EntryCells(i, d)[1][2] = i
          /\ <<EntryCells(i, d)[2][2], EntryCells(i, d)[3][2]>> = d
      BY <3>4, EntryIs
    <3> QED BY <3>3, <3>5, <3>6
  <2>6. ss \in Seq(Seq(Cells)) /\ Len(ss) = n
    <3>1. PICK C : C = Seq(Cells)
      OBVIOUS
    <3>2. DOMAIN ss = 1..n /\ \A k \in 1..n : ss[k] \in C
      BY <1>4, <2>1, <2>5, <3>1
    <3>3. ss \in [1..n -> C]
      BY <2>1, <3>2
    <3> QED BY <1>4, <3>1, <3>3
  <2>7. PICK f : EndToEnd(f, ss, Cells) /\ flat = f[Len(ss)]
    BY <2>2, <2>6, FlattenUp
  <2>8. \A k \in 1..Len(ss) : Len(ss[k]) = 3
    BY <2>5, <2>6
  <2>9. Threes(f, ss, Len(ss))
    BY <2>6, <2>7, <2>8, ThreesUp
  <2>10. Len(flat) = 3 * n /\ \A k \in 1..n : \A j \in 1..3 : flat[3 * (k - 1) + j] = ss[k][j]
    BY <2>6, <2>7, <2>9 DEF Threes
  <2>11. flat \in Seq(Cells)
    BY <2>2, <2>6, FlattenIs
  <2>12. head \in Seq(Cells) /\ Len(head) = 1 /\ head[1] = <<"count", n>>
    <3>1. PICK x \in Cells : x = <<"count", n>>
      BY <1>4 DEF Cells
    <3> QED BY <2>3, <3>1
  <2>13. PICK s : s = head \o flat
    OBVIOUS
  <2>14. /\ s \in Seq(Cells) /\ Len(s) = 1 + 3 * n
         /\ \A i \in 1..1 + 3 * n : s[i] = IF i <= 1 THEN head[i] ELSE flat[i - 1]
    <3>1. /\ s \in Seq(Cells) /\ Len(s) = Len(head) + Len(flat)
          /\ \A i \in 1..Len(head) + Len(flat) :
               s[i] = IF i <= Len(head) THEN head[i] ELSE flat[i - Len(head)]
      BY <2>11, <2>12, <2>13, ConcatProperties
    <3> QED BY <2>10, <2>12, <3>1
  <2>15. Counted(s)
    <3>1. 1 \in 1..1 + 3 * n
      BY <1>4
    <3>2. s[1] = <<"count", n>>
      BY <2>12, <2>14, <3>1
    <3> QED BY <1>4, <3>2 DEF Counted
  <2>16. Paired(s, R)
    <3> SUFFICES ASSUME NEW k \in 1..Len(s), 3 * k + 1 <= Len(s) PROVE Entry(s, k) \in R
        BY DEF Paired
    <3>1. k \in 1..n
      BY <1>4, <2>14
    <3>2. /\ 3 * k - 1 \in 1..1 + 3 * n /\ ~(3 * k - 1 <= 1) /\ (3 * k - 1) - 1 = 3 * (k - 1) + 1
          /\ 3 * k \in 1..1 + 3 * n /\ ~(3 * k <= 1) /\ 3 * k - 1 = 3 * (k - 1) + 2
          /\ 3 * k + 1 \in 1..1 + 3 * n /\ ~(3 * k + 1 <= 1) /\ (3 * k + 1) - 1 = 3 * (k - 1) + 3
      BY <1>4, <3>1
    <3>3. /\ s[3 * k - 1] = flat[(3 * k - 1) - 1] /\ s[3 * k] = flat[3 * k - 1]
          /\ s[3 * k + 1] = flat[(3 * k + 1) - 1]
      BY <2>14, <3>2
    <3>4. /\ s[3 * k - 1] = flat[3 * (k - 1) + 1] /\ s[3 * k] = flat[3 * (k - 1) + 2]
          /\ s[3 * k + 1] = flat[3 * (k - 1) + 3]
      BY <3>2, <3>3, Zenon
    <3>5. 1 \in 1..3 /\ 2 \in 1..3 /\ 3 \in 1..3
      OBVIOUS
    <3>6. s[3 * k - 1] = ss[k][1] /\ s[3 * k] = ss[k][2] /\ s[3 * k + 1] = ss[k][3]
      BY <2>10, <3>1, <3>4, <3>5, Zenon
    <3> QED BY <2>5, <3>1, <3>6, Zenon DEF Entry
  <2> QED BY <2>4, <2>13, <2>14, <2>15, <2>16 DEF Maps
<1> QED
    BY <1>5, <1>6

(* An exact block is the one the memory has for every id of the message. *)
LEMMA ReplayIs ==
    ASSUME NEW R, NEW m \in Memories(R), NEW ids \in Seq(Ids), Replay(m, ids) # Canonical
    PROVE  \A i \in ToSet(ids) : <<i, Replay(m, ids)>> \in R
<1>1. PICK d : d = Replay(m, ids)
    OBVIOUS
<1>2. /\ Found(m, ids) = ids /\ d = m.entry[ids[1]]
      /\ \A k \in DOMAIN ids : m.entry[ids[k]] = m.entry[ids[1]]
    BY <1>1 DEF Replay
<1>3. Found(m, ids) \in Seq(Ids \cap Known(m))
    BY KeptIs DEF Found
<1>4. \A k \in DOMAIN ids : ids[k] \in Known(m)
    BY <1>2, <1>3, LenProperties, ElementOfSeq
<1>5. \A k \in DOMAIN ids : <<ids[k], d>> \in R
  <2> SUFFICES ASSUME NEW k \in DOMAIN ids PROVE <<ids[k], d>> \in R
      OBVIOUS
  <2>1. <<ids[k], m.entry[ids[k]]>> \in R
    BY <1>4, MemoryIs
  <2> QED BY <1>2, <2>1
<1> QED
    BY <1>1, <1>5 DEF ToSet


-----------------------------------------------------------------------------
(* The worker cuts a map that a client has read in part, and not to the end. *)
HalfRead(s) == s.got # <<>> /\ Len(s.got) < 3 * Count(s) + 1
CutUnderReader ==
    /\ Truncate
    /\ \E c \in Clients : pc[c] = "load" /\ stream[c].file = out.file /\ HalfRead(stream[c])

(* While that does not happen: the memory holds pairs that were sampled. *)
Given == {<<i, sampled[i]>> : i \in DOMAIN sampled}
GivenInv == Given \subseteq Ids \X Wholes /\ mem \in Memories(Given)

(* So does every file, also when it was cut or is being written. *)
Files == [flag : BOOLEAN, cells : Maps(Given)]
FilesInv == inode \in Seq(Files) /\ dir \in [Texts -> 0..Len(inode)]

(* What a thread has read of a map is its beginning, unless it has all. *)
Streams == [file : Nat, got : Maps(Given), next : Nat \ {0}]
Labels == {"idle", "load", "scan", "attach", "map", "rename", "truncate", "lock", "write", "flush",
           "mark"}
ReadingInv(p) ==
    pc[p] = "load" =>
        /\ stream[p].file \in 1..Len(inode)
        /\ HalfRead(stream[p]) => Leads(stream[p].got, inode[stream[p].file].cells)
ReadersInv ==
    pc \in [Procs -> Labels] /\ stream \in [Procs -> Streams] /\ \A p \in Procs : ReadingInv(p)

(* What the worker has written and what it has yet to write are one map. *)
Stores == [text : Texts \cup {NoStore.text}, file : Nat, flag : BOOLEAN, cells : Seq(Cells)]
WriterInv ==
    /\ out \in Stores
    /\ pc[Worker] \in {"map", "rename", "truncate", "lock"} => out.text \in Texts
    /\ pc[Worker] = "rename" => out.cells \in Maps(Given)
    /\ pc[Worker] \in {"truncate", "lock", "write", "flush", "mark"} => out.file \in 1..Len(inode)
    /\ pc[Worker] = "lock" => inode[out.file].cells = <<>>
    /\ pc[Worker] \in {"write", "flush"} => inode[out.file].cells \o out.cells \in Maps(Given)

ScanInv == todo \in [Clients -> SUBSET Texts]
AnswersInv == answers \in Seq(ToSet(answers)) /\ ReplaysSampled

LEMMA FilesStand ==
    ASSUME FilesInv, Given \subseteq Given', UNCHANGED inode, dir' \in [Texts -> 0..Len(inode)]
    PROVE  FilesInv'
<1>1. Maps(Given) \subseteq Maps(Given')
    BY MapsMore
<1>2. Files \subseteq Files'
    BY <1>1 DEF Files
<1>3. inode \in Seq(Files')
    BY <1>2, SeqMonotonic DEF FilesInv
<1> QED
    BY <1>3 DEF FilesInv

LEMMA ReadersStand ==
    ASSUME ReadersInv, Given \subseteq Given', UNCHANGED <<inode, stream>>,
           pc' \in [Procs -> Labels], \A p \in Procs : pc'[p] = "load" => pc[p] = "load"
    PROVE  ReadersInv'
<1>1. Maps(Given) \subseteq Maps(Given')
    BY MapsMore
<1>2. Streams \subseteq Streams'
    BY <1>1 DEF Streams
<1>3. stream' \in [Procs -> Streams']
    BY <1>2 DEF ReadersInv
<1>4. \A p \in Procs : ReadingInv(p)'
    BY DEF ReadersInv, ReadingInv
<1> QED
    BY <1>3, <1>4 DEF ReadersInv

LEMMA WriterStand ==
    ASSUME WriterInv, Given \subseteq Given', UNCHANGED <<inode, out>>,
           pc'[Worker] = pc[Worker] \/ pc'[Worker] \in {"idle", "load"}
    PROVE  WriterInv'
<1>1. Maps(Given) \subseteq Maps(Given')
    BY MapsMore
<1> QED
    BY <1>1 DEF WriterInv

LEMMA AnswersStand ==
    ASSUME AnswersInv, UNCHANGED <<answers, sampled>>
    PROVE  AnswersInv'
BY DEF AnswersInv, ReplaysSampled


FileSide == FilesInv /\ ReadersInv /\ WriterInv

LEMMA EmptyMap == (\A R : <<>> \in Maps(R)) /\ \A s \in Seq(Cells) : Leads(<<>>, s)
<1>1. <<>> \in Seq(Cells) /\ Len(<<>>) = 0
    BY EmptySeq
<1>2. \A R : <<>> \in Maps(R)
    BY <1>1 DEF Maps, Counted, Paired
<1>3. \A s \in Seq(Cells) : Leads(<<>>, s)
    BY <1>1, LenProperties DEF Leads
<1> QED
    BY <1>2, <1>3

LEMMA NoStreamIs == NoStream \in Streams /\ ~HalfRead(NoStream) /\ NoStream.got = <<>>
BY EmptyMap DEF NoStream, Streams, HalfRead

(* A thread moves on in its file, or leaves it, or opens one. *)
LEMMA ThreadMoves ==
    ASSUME FileSide, NEW p \in Procs, NEW x \in Streams, NEW l \in Labels,
           stream' = [stream EXCEPT ![p] = x], pc' = [pc EXCEPT ![p] = l],
           UNCHANGED <<inode, dir, out, sampled>>, p = Worker => l \in {"idle", "load"},
           l = "load" => /\ x.file \in 1..Len(inode)
                         /\ HalfRead(x) => Leads(x.got, inode[x.file].cells)
    PROVE  FileSide'
<1>1. Given' = Given
    BY DEF Given
<1>2. pc \in [Procs -> Labels] /\ stream \in [Procs -> Streams] /\ \A q \in Procs : ReadingInv(q)
    BY DEF FileSide, ReadersInv
<1>3. FilesInv'
    BY <1>1, FilesStand DEF FileSide, FilesInv
<1>4. WriterInv'
  <2>1. Worker \in Procs
    BY DEF Procs
  <2>2. pc'[Worker] = pc[Worker] \/ pc'[Worker] \in {"idle", "load"}
    BY <1>2, <2>1
  <2> QED BY <1>1, <2>2, WriterStand DEF FileSide
<1>5. ReadersInv'
  <2>1. Streams' = Streams
    BY <1>1 DEF Streams
  <2>2. pc' \in [Procs -> Labels] /\ stream' \in [Procs -> Streams']
    BY <1>2, <2>1
  <2>3. ASSUME NEW q \in Procs PROVE ReadingInv(q)'
    <3>1. CASE q = p
      <4>1. pc'[q] = l /\ stream'[q] = x
        BY <1>2, <3>1
      <4> QED BY <4>1 DEF ReadingInv
    <3>2. CASE q # p
      <4>1. pc'[q] = pc[q] /\ stream'[q] = stream[q]
        BY <1>2, <3>2
      <4> QED BY <1>2, <4>1 DEF ReadingInv
    <3> QED BY <3>1, <3>2
  <2> QED BY <2>2, <2>3 DEF ReadersInv
<1> QED
    BY <1>3, <1>4, <1>5 DEF FileSide

(* A thread that is not loading a map goes on, and does not begin to. *)
LEMMA ThreadGoes ==
    ASSUME FileSide, NEW p \in Procs, NEW l \in Labels, l # "load", pc' = [pc EXCEPT ![p] = l],
           UNCHANGED <<stream, inode, dir, out, sampled>>, p = Worker => l = "idle"
    PROVE  FileSide'
<1>1. stream \in [Procs -> Streams]
    BY DEF FileSide, ReadersInv
<1>2. PICK x \in Streams : x = stream[p]
    BY <1>1
<1>3. stream' = [stream EXCEPT ![p] = x]
    BY <1>1, <1>2
<1> QED
    BY <1>2, <1>3, ThreadMoves

LEMMA LoadingIs ==
    ASSUME FileSide, NEW p \in Procs, pc[p] = "load"
    PROVE  /\ stream[p] \in Streams /\ stream[p].got \in Maps(Given) /\ stream[p].next \in Nat \ {0}
           /\ stream[p].file \in 1..Len(inode)
           /\ inode[stream[p].file].cells \in Maps(Given)
           /\ HalfRead(stream[p]) => Leads(stream[p].got, inode[stream[p].file].cells)
<1>1. stream[p] \in Streams /\ ReadingInv(p)
    BY DEF FileSide, ReadersInv
<1>2. stream[p].file \in 1..Len(inode)
    BY <1>1 DEF ReadingInv
<1>3. inode[stream[p].file] \in Files
    BY <1>2, ElementOfSeq DEF FileSide, FilesInv
<1> QED
    BY <1>1, <1>2, <1>3 DEF Streams, Files, ReadingInv

LEMMA FilesReadMore ==
    ASSUME FileSide, NEW p \in Procs, ReadMore(p)
    PROVE  FileSide'
<1>1. PICK s : s = stream[p]
    OBVIOUS
<1>2. PICK cells : cells = inode[s.file].cells
    OBVIOUS
<1>3. PICK u : u = IF Len(s.got) + Buffer < Len(cells) THEN Len(s.got) + Buffer ELSE Len(cells)
    OBVIOUS
<1>4. /\ pc[p] = "load" /\ ~Exhausted(s) /\ ~Buffered(s)
      /\ UNCHANGED <<inode, dir, out, sampled>>
      /\ IF u > Len(s.got)
         THEN /\ stream' = [stream EXCEPT ![p].got = @ \o SubSeq(cells, Len(@) + 1, u)]
              /\ UNCHANGED pc
         ELSE /\ Goto(p, IF p = Worker THEN "idle" ELSE "scan")
              /\ stream' = [stream EXCEPT ![p] = NoStream]
    BY <1>1, <1>2, <1>3 DEF ReadMore, files, history
<1>5. /\ s \in Streams /\ s.got \in Maps(Given) /\ s.next \in Nat \ {0} /\ s.file \in 1..Len(inode)
      /\ cells \in Maps(Given)
      /\ HalfRead(s) => Leads(s.got, cells)
    BY <1>1, <1>2, <1>4, LoadingIs
<1>6. /\ Len(s.got) \in Nat /\ Counted(s.got) /\ s.got \in Seq(Cells)
      /\ Len(cells) \in Nat /\ cells \in Seq(Cells)
    BY <1>5, MapIs
<1>7. Leads(s.got, cells)
  <2>1. CASE s.got = <<>>
    BY <1>6, <2>1, EmptyMap
  <2>2. CASE s.got # <<>>
    <3>1. Count(s) \in Nat
      BY <1>6, <2>2 DEF Counted, Count
    <3>2. s.next <= Count(s) /\ Len(s.got) < 3 * s.next + 1
      BY <1>4, <1>5, <1>6, <2>2, <3>1 DEF Exhausted, Buffered
    <3>3. Len(s.got) < 3 * Count(s) + 1
      BY <1>5, <1>6, <3>1, <3>2
    <3>4. HalfRead(s)
      BY <2>2, <3>3 DEF HalfRead
    <3> QED BY <1>5, <3>4
  <2> QED BY <2>1, <2>2
<1>8. CASE u > Len(s.got)
  <2>1. PICK more : more = s.got \o SubSeq(cells, Len(s.got) + 1, u)
    OBVIOUS
  <2>2. u \in Nat /\ Len(s.got) < u /\ u <= Len(cells)
    BY <1>3, <1>6, <1>8, ReplayAssumption
  <2>3. more \in Maps(Given) /\ Leads(more, cells)
    BY <1>5, <1>6, <1>7, <2>1, <2>2, ReadOn, Zenon
  <2>4. PICK x : x = [s EXCEPT !.got = more]
    OBVIOUS
  <2>5. x \in Streams /\ x.file = s.file /\ x.got = more
    BY <1>5, <2>3, <2>4 DEF Streams
  <2>6. stream \in [Procs -> Streams] /\ pc \in [Procs -> Labels]
    BY DEF FileSide, ReadersInv
  <2>7. stream' = [stream EXCEPT ![p] = x] /\ pc' = [pc EXCEPT ![p] = "load"]
    BY <1>1, <1>4, <1>8, <2>1, <2>4, <2>6
  <2>8. /\ x.file \in 1..Len(inode)
        /\ HalfRead(x) => Leads(x.got, inode[x.file].cells)
    BY <1>2, <1>5, <2>3, <2>5
  <2>9. UNCHANGED <<inode, dir, out, sampled>>
    BY <1>4
  <2>10. "load" \in Labels /\ (p = Worker => "load" \in {"idle", "load"})
    BY DEF Labels
  <2> QED BY <2>5, <2>7, <2>8, <2>9, <2>10, ThreadMoves, Zenon
<1>9. CASE ~(u > Len(s.got))
  <2>1. PICK l \in Labels : l = (IF p = Worker THEN "idle" ELSE "scan") /\ l # "load"
    <3>1. CASE p = Worker
      BY <3>1 DEF Labels
    <3>2. CASE p # Worker
      BY <3>2 DEF Labels
    <3> QED BY <3>1, <3>2
  <2>2. stream' = [stream EXCEPT ![p] = NoStream] /\ pc' = [pc EXCEPT ![p] = l]
    BY <1>4, <1>9, <2>1 DEF Goto
  <2> QED BY <1>4, <2>1, <2>2, NoStreamIs, ThreadMoves
<1> QED
    BY <1>8, <1>9


LEMMA FilesLoadEntry ==
    ASSUME FileSide, GivenInv, NEW p \in Procs, LoadEntry(p), Wanted(p) \subseteq Ids
    PROVE  FileSide' /\ GivenInv'
<1>1. PICK s : s = stream[p]
    OBVIOUS
<1>2. PICK id : id = Cell(s, 1)[2]
    OBVIOUS
<1>3. PICK d : d = <<Cell(s, 2)[2], Cell(s, 3)[2]>>
    OBVIOUS
<1>4. /\ pc[p] = "load" /\ Buffered(s)
      /\ stream' = [stream EXCEPT ![p].next = @ + 1]
      /\ UNCHANGED <<pc, inode, dir, out, sampled>>
      /\ IF id \in Wanted(p) THEN mem' = Put(mem, id, d) ELSE UNCHANGED mem
    BY <1>1, <1>2, <1>3 DEF LoadEntry, Take, files, history
<1>5. /\ s \in Streams /\ s.got \in Maps(Given) /\ s.next \in Nat \ {0} /\ s.file \in 1..Len(inode)
      /\ inode[s.file].cells \in Maps(Given)
      /\ HalfRead(s) => Leads(s.got, inode[s.file].cells)
    BY <1>1, <1>4, LoadingIs
<1>6. FileSide'
  <2>1. PICK x : x = [s EXCEPT !.next = @ + 1]
    OBVIOUS
  <2>2. x \in Streams /\ x.file = s.file /\ x.got = s.got
    BY <1>5, <2>1 DEF Streams
  <2>3. HalfRead(x) => HalfRead(s)
    BY <2>2 DEF HalfRead, Count
  <2>4. /\ x.file \in 1..Len(inode)
        /\ HalfRead(x) => Leads(x.got, inode[x.file].cells)
    BY <1>5, <2>2, <2>3
  <2>5. stream \in [Procs -> Streams] /\ pc \in [Procs -> Labels]
    BY DEF FileSide, ReadersInv
  <2>6. stream' = [stream EXCEPT ![p] = x] /\ pc' = [pc EXCEPT ![p] = "load"]
    BY <1>1, <1>4, <2>1, <2>5
  <2>7. UNCHANGED <<inode, dir, out, sampled>>
    BY <1>4
  <2>8. "load" \in Labels /\ (p = Worker => "load" \in {"idle", "load"})
    BY DEF Labels
  <2> QED BY <2>2, <2>4, <2>6, <2>7, <2>8, ThreadMoves, Zenon
<1>7. GivenInv'
  <2>1. Given' = Given
    BY <1>4 DEF Given
  <2>2. ASSUME id \in Wanted(p) PROVE Put(mem, id, d) \in Memories(Given)
    <3>1. Len(s.got) \in Nat /\ Paired(s.got, Given)
      BY <1>5, MapIs
    <3>2. s.next \in 1..Len(s.got) /\ 3 * s.next + 1 <= Len(s.got)
      BY <1>4, <1>5, <3>1 DEF Buffered
    <3>3. Entry(s.got, s.next) \in Given
      BY <3>1, <3>2 DEF Paired
    <3>4. 3 * s.next - 2 + 1 = 3 * s.next - 1 /\ 3 * s.next - 2 + 2 = 3 * s.next /\ 3 * s.next - 2 + 3 = 3 * s.next + 1
      BY <1>5
    <3>5. Entry(s.got, s.next) = <<id, d>>
      BY <1>2, <1>3, <3>4 DEF Entry, Cell
    <3>6. id \in Ids
      BY <2>2
    <3> QED BY <3>3, <3>5, <3>6, PutIs DEF GivenInv
  <2> QED BY <1>4, <2>1, <2>2 DEF GivenInv
<1> QED
    BY <1>6, <1>7

LEMMA FilesCloseMap ==
    ASSUME FileSide, NEW p \in Procs, CloseMap(p)
    PROVE  FileSide'
<1>1. PICK l \in Labels : l = (IF p = Worker THEN "idle" ELSE "scan") /\ l # "load"
  <2>1. CASE p = Worker
    BY <2>1 DEF Labels
  <2>2. CASE p # Worker
    BY <2>2 DEF Labels
  <2> QED BY <2>1, <2>2
<1>2. stream' = [stream EXCEPT ![p] = NoStream] /\ pc' = [pc EXCEPT ![p] = l]
    BY <1>1 DEF CloseMap, Goto
<1>3. UNCHANGED <<inode, dir, out, sampled>>
    BY DEF CloseMap, files, history
<1> QED
    BY <1>1, <1>2, <1>3, NoStreamIs, ThreadMoves

(* A file that has a name is one that was created. *)
LEMMA FilesOpenMap ==
    ASSUME FileSide, NEW p \in Procs, NEW t \in Texts, dir[t] # 0, OpenMap(p, dir[t]),
           UNCHANGED <<inode, dir, out, sampled>>
    PROVE  FileSide'
<1>1. dir[t] \in 1..Len(inode) /\ dir[t] \in Nat
  <2>1. dir[t] \in 0..Len(inode) /\ Len(inode) \in Nat
    BY LenProperties DEF FileSide, FilesInv
  <2> QED BY <2>1
<1>2. PICK x : x = [NoStream EXCEPT !.file = dir[t]]
    OBVIOUS
<1>3. x \in Streams /\ x.file = dir[t] /\ x.got = <<>>
    BY <1>1, <1>2, NoStreamIs DEF Streams
<1>4. ~HalfRead(x)
    BY <1>3 DEF HalfRead
<1>5. stream' = [stream EXCEPT ![p] = x] /\ pc' = [pc EXCEPT ![p] = "load"]
    BY <1>2 DEF OpenMap, Goto
<1>6. "load" \in Labels /\ (p = Worker => "load" \in {"idle", "load"})
    BY DEF Labels
<1> QED
    BY <1>1, <1>3, <1>4, <1>5, <1>6, ThreadMoves

LEMMA FilesParsing ==
    ASSUME FileSide, ScanInv, NEW c \in Clients, Parse(c) \/ Visit(c) \/ ScanDone(c) \/ Attach(c)
    PROVE  FileSide'
<1>1. c \in Procs /\ c # Worker /\ UNCHANGED <<inode, dir, out, sampled>>
    BY ReplayAssumption DEF Procs, Parse, Visit, ScanDone, Attach, Answer, files, history
<1>2. {"idle", "scan", "attach"} \subseteq Labels
    BY DEF Labels
<1>3. CASE Parse(c)
  <2>1. UNCHANGED stream /\ (Goto(c, "attach") \/ Goto(c, "scan"))
    BY <1>3 DEF Parse
  <2> QED BY <1>1, <1>2, <2>1, ThreadGoes DEF Goto
<1>4. CASE Visit(c)
  <2>1. PICK t \in Texts :
            IF dir[t] # 0 /\ inode[dir[t]].flag THEN OpenMap(c, dir[t]) ELSE UNCHANGED <<pc, stream>>
    <3>1. PICK t \in todo[c] :
              IF dir[t] # 0 /\ inode[dir[t]].flag THEN OpenMap(c, dir[t]) ELSE UNCHANGED <<pc, stream>>
      BY <1>4 DEF Visit
    <3> QED BY <3>1 DEF ScanInv
  <2>2. CASE dir[t] # 0 /\ inode[dir[t]].flag
    BY <1>1, <2>1, <2>2, FilesOpenMap
  <2>3. CASE ~(dir[t] # 0 /\ inode[dir[t]].flag)
    <3>1. pc[c] = "scan" /\ UNCHANGED <<pc, stream>> /\ pc \in [Procs -> Labels]
      BY <1>4, <2>1, <2>3 DEF Visit, FileSide, ReadersInv
    <3>2. pc' = [pc EXCEPT ![c] = "scan"]
      BY <1>1, <3>1
    <3> QED BY <1>1, <1>2, <3>1, <3>2, ThreadGoes
  <2> QED BY <2>2, <2>3
<1>5. CASE ScanDone(c)
  <2>1. UNCHANGED stream /\ Goto(c, "attach")
    BY <1>5 DEF ScanDone
  <2> QED BY <1>1, <1>2, <2>1, ThreadGoes DEF Goto
<1>6. CASE Attach(c)
  <2>1. UNCHANGED stream /\ Goto(c, "idle")
    BY <1>6 DEF Attach, Answer
  <2> QED BY <1>1, <1>2, <2>1, ThreadGoes DEF Goto
<1> QED
    BY <1>3, <1>4, <1>5, <1>6


(* The worker: a new file. *)
LEMMA WorkerGoes ==
    ASSUME FileSide, NEW l \in Labels, l # "load", Goto(Worker, l), UNCHANGED <<stream, sampled, inode, dir>>
    PROVE  /\ FilesInv' /\ ReadersInv' /\ pc'[Worker] = l
           /\ Given' = Given
<1>1. Given' = Given
    BY DEF Given
<1>2. pc \in [Procs -> Labels] /\ Worker \in Procs
    BY DEF FileSide, ReadersInv, Procs
<1>3. pc' \in [Procs -> Labels] /\ pc'[Worker] = l /\ \A p \in Procs : pc'[p] = "load" => pc[p] = "load"
    BY <1>2 DEF Goto
<1>4. ReadersInv'
    BY <1>1, <1>3, ReadersStand DEF FileSide
<1>5. FilesInv'
    BY <1>1, FilesStand DEF FileSide, FilesInv
<1> QED
    BY <1>1, <1>3, <1>4, <1>5

LEMMA StoresAre ==
    /\ NoStore \in Stores
    /\ \A t \in Texts, b \in BOOLEAN :
         [NoStore EXCEPT !.text = t, !.flag = b] \in Stores /\ [NoStore EXCEPT !.text = t, !.flag = b].text = t
    /\ \A t \in Texts, k \in Nat :
         /\ [NoStore EXCEPT !.text = t, !.file = k] \in Stores
         /\ [NoStore EXCEPT !.text = t, !.file = k].text = t /\ [NoStore EXCEPT !.text = t, !.file = k].file = k
<1>1. PICK none : none = CHOOSE t \in Texts : TRUE
    OBVIOUS
<1>2. NoStore = [text |-> none, file |-> 0, flag |-> FALSE, cells |-> <<>>]
    BY <1>1 DEF NoStore
<1>3. NoStore.text = none
    BY <1>2
<1>4. <<>> \in Seq(Cells)
    BY EmptySeq
<1>5. PICK names : names = Texts \cup {none}
    OBVIOUS
<1>6. Stores = [text : names, file : Nat, flag : BOOLEAN, cells : Seq(Cells)]
    BY <1>3, <1>5 DEF Stores
<1>7. NoStore \in Stores
    BY <1>2, <1>4, <1>5, <1>6
<1>8. \A t \in Texts, b \in BOOLEAN :
          [NoStore EXCEPT !.text = t, !.flag = b] = [text |-> t, file |-> 0, flag |-> b, cells |-> <<>>]
  <2> TAKE t \in Texts, b \in BOOLEAN
  <2>1. PICK x : x = [NoStore EXCEPT !.text = t]
      OBVIOUS
  <2>2. x = [text |-> t, file |-> 0, flag |-> FALSE, cells |-> <<>>]
      BY <1>2, <2>1
  <2>3. [x EXCEPT !.flag = b] = [text |-> t, file |-> 0, flag |-> b, cells |-> <<>>]
      BY <2>2
  <2> QED BY <2>1, <2>3
<1>9. \A t \in Texts, k \in Nat :
          /\ [NoStore EXCEPT !.text = t, !.file = k] \in Stores
          /\ [NoStore EXCEPT !.text = t, !.file = k].text = t /\ [NoStore EXCEPT !.text = t, !.file = k].file = k
  <2> TAKE t \in Texts, k \in Nat
  <2>1. PICK x : x = [NoStore EXCEPT !.text = t]
      OBVIOUS
  <2>2. PICK y : y = [x EXCEPT !.file = k]
      OBVIOUS
  <2>3. y \in Stores /\ y.text = t /\ y.file = k
    <3>1. x \in Stores /\ x.text = t
      BY <1>5, <1>6, <1>7, <2>1
    <3> QED BY <1>6, <2>2, <3>1
  <2>4. y = [NoStore EXCEPT !.text = t, !.file = k]
      BY <2>1, <2>2
  <2> QED BY <2>3, <2>4
<1> QED
    BY <1>4, <1>5, <1>6, <1>7, <1>8, <1>9

LEMMA FilesStoring ==
    ASSUME FileSide, GivenInv, StoreHeader \/ StoreMap \/ Rename \/ StoreFails
    PROVE  FileSide'
<1>1. {"idle", "map", "rename"} \subseteq Labels
    BY DEF Labels
<1>2. CASE StoreHeader
  <2>1. PICK t \in Texts : out' = [NoStore EXCEPT !.text = t, !.flag = AllHolders(mem, BlocksIn(t)) # <<>>]
    BY <1>2, Zenon DEF StoreHeader
  <2>2. Goto(Worker, "map") /\ UNCHANGED <<stream, sampled, inode, dir>>
    BY <1>2, Zenon DEF StoreHeader, files, history
  <2>3. FilesInv' /\ ReadersInv' /\ pc'[Worker] = "map"
    BY <1>1, <2>2, WorkerGoes
  <2>4. PICK b \in BOOLEAN : b = (AllHolders(mem, BlocksIn(t)) # <<>>)
    OBVIOUS
  <2>5. out' = [NoStore EXCEPT !.text = t, !.flag = b] /\ out'.text = t /\ out' \in Stores
    BY <2>1, <2>4, StoresAre
  <2>6. WriterInv'
    BY <2>3, <2>5 DEF WriterInv, Stores
  <2> QED BY <2>3, <2>6 DEF FileSide
<1>3. CASE StoreMap
  <2>1. PICK cells : cells = MapOf(mem, BlocksIn(out.text))
    OBVIOUS
  <2>2. /\ pc[Worker] = "map" /\ out' = [out EXCEPT !.cells = cells]
        /\ Goto(Worker, "rename") /\ UNCHANGED <<stream, sampled, inode, dir>>
    BY <1>3, <2>1 DEF StoreMap, files, history
  <2>3. FilesInv' /\ ReadersInv' /\ pc'[Worker] = "rename" /\ Given' = Given
    BY <1>1, <2>2, WorkerGoes
  <2>4. out.text \in Texts
    BY <2>2 DEF FileSide, WriterInv
  <2>5. cells \in Maps(Given)
    BY <2>1, <2>4, MapOfIs, ReplayAssumption DEF GivenInv
  <2>6. cells \in Seq(Cells)
    BY <2>5, MapIs
  <2>7. WriterInv'
    BY <2>2, <2>3, <2>4, <2>5, <2>6 DEF FileSide, WriterInv, Stores
  <2> QED BY <2>3, <2>7 DEF FileSide
<1>4. CASE StoreFails
  <2>1. Goto(Worker, "idle") /\ out' = NoStore /\ UNCHANGED <<stream, sampled, inode, dir>>
    BY <1>4 DEF StoreFails, files, history
  <2>2. FilesInv' /\ ReadersInv' /\ pc'[Worker] = "idle"
    BY <1>1, <2>1, WorkerGoes
  <2>3. WriterInv'
    BY <2>1, <2>2, StoresAre DEF WriterInv
  <2> QED BY <2>2, <2>3 DEF FileSide
<1>5. CASE Rename
  <2>1. PICK new : new = [flag |-> out.flag, cells |-> out.cells]
    OBVIOUS
  <2>2. /\ pc[Worker] = "rename" /\ inode' = Append(inode, new) /\ dir' = [dir EXCEPT ![out.text] = Len(inode) + 1]
        /\ Goto(Worker, "idle") /\ out' = NoStore /\ UNCHANGED <<stream, sampled>>
    BY <1>5, <2>1 DEF Rename
  <2>3. Given' = Given
    BY <2>2 DEF Given
  <2>4. new \in Files /\ out.text \in Texts
    BY <2>1, <2>2 DEF FileSide, WriterInv, Files, Stores
  <2>5. inode \in Seq(Files) /\ dir \in [Texts -> 0..Len(inode)] /\ Len(inode) \in Nat
    BY LenProperties DEF FileSide, FilesInv
  <2>6. /\ inode' \in Seq(Files) /\ Len(inode') = Len(inode) + 1
        /\ \A i \in 1..Len(inode) : inode'[i] = inode[i]
    BY <2>2, <2>4, <2>5, AppendProperties
  <2>7. dir' \in [Texts -> 0..Len(inode')]
    BY <2>2, <2>4, <2>5, <2>6
  <2>8. FilesInv'
    BY <2>3, <2>6, <2>7 DEF FilesInv, Files
  <2>9. pc \in [Procs -> Labels] /\ stream \in [Procs -> Streams] /\ Worker \in Procs
    BY DEF FileSide, ReadersInv, Procs
  <2>10. pc' \in [Procs -> Labels] /\ pc'[Worker] = "idle" /\ \A p \in Procs : pc'[p] = "load" => pc[p] = "load"
    BY <1>1, <2>2, <2>9 DEF Goto
  <2>11. ASSUME NEW p \in Procs PROVE ReadingInv(p)'
    <3>1. ReadingInv(p)
      BY DEF FileSide, ReadersInv
    <3> QED BY <2>2, <2>5, <2>6, <2>10, <3>1 DEF ReadingInv
  <2>12. Streams' = Streams
    BY <2>3 DEF Streams
  <2>13. ReadersInv'
    BY <2>2, <2>9, <2>10, <2>11, <2>12 DEF ReadersInv
  <2>14. WriterInv'
    BY <2>2, <2>10, StoresAre DEF WriterInv
  <2> QED BY <2>8, <2>13, <2>14 DEF FileSide
<1> QED
    BY <1>2, <1>3, <1>4, <1>5


(* The worker: a file rewritten in place. *)
ReadersFollow(f, cells) ==
    \A p \in Procs : pc[p] = "load" /\ stream[p].file = f /\ HalfRead(stream[p])
                         => Leads(stream[p].got, cells)
NobodyOpens == pc' \in [Procs -> Labels] /\ \A p \in Procs : pc'[p] = "load" => pc[p] = "load"

LEMMA FileRewritten ==
    ASSUME FileSide, NEW f \in 1..Len(inode), NEW new \in Files, inode' = [inode EXCEPT ![f] = new],
           ReadersFollow(f, new.cells), UNCHANGED <<dir, stream, sampled>>, NobodyOpens
    PROVE  FilesInv' /\ ReadersInv' /\ Given' = Given /\ Len(inode') = Len(inode) /\ inode'[f] = new
<1>1. Given' = Given
    BY DEF Given
<1>2. inode \in Seq(Files) /\ dir \in [Texts -> 0..Len(inode)]
    BY DEF FileSide, FilesInv
<1>3. /\ inode' \in Seq(Files) /\ Len(inode') = Len(inode)
      /\ \A i \in 1..Len(inode) : inode'[i] = IF i = f THEN new ELSE inode[i]
    BY <1>2, ExceptSeq
<1>4. FilesInv'
    BY <1>1, <1>2, <1>3 DEF FilesInv, Files
<1>5. ASSUME NEW p \in Procs PROVE ReadingInv(p)'
  <2>1. ReadingInv(p) /\ (pc'[p] = "load" => pc[p] = "load") /\ stream'[p] = stream[p]
    BY DEF FileSide, ReadersInv, NobodyOpens
  <2>2. CASE stream[p].file = f
    BY <1>3, <2>1, <2>2 DEF ReadingInv, ReadersFollow
  <2>3. CASE stream[p].file # f
    BY <1>3, <2>1, <2>3 DEF ReadingInv
  <2> QED BY <2>2, <2>3
<1>6. Streams' = Streams
    BY <1>1 DEF Streams
<1>7. ReadersInv'
    BY <1>5, <1>6 DEF FileSide, ReadersInv, NobodyOpens
<1> QED
    BY <1>1, <1>3, <1>4, <1>7

LEMMA WorkerAt ==
    ASSUME FileSide, NEW l \in Labels, l # "load", Goto(Worker, l)
    PROVE  NobodyOpens /\ pc'[Worker] = l
<1>1. pc \in [Procs -> Labels] /\ Worker \in Procs
    BY DEF FileSide, ReadersInv, Procs
<1> QED
    BY <1>1 DEF Goto, NobodyOpens

LEMMA FilesTruncate ==
    ASSUME FileSide, Truncate, ~CutUnderReader
    PROVE  FileSide'
<1>1. /\ pc[Worker] = "truncate" /\ inode' = [inode EXCEPT ![out.file].cells = <<>>]
      /\ Goto(Worker, "lock") /\ UNCHANGED <<dir, stream, out, sampled>>
    BY DEF Truncate, history
<1>2. out \in Stores /\ out.text \in Texts /\ out.file \in 1..Len(inode)
    BY <1>1 DEF FileSide, WriterInv
<1>3. PICK f \in 1..Len(inode) : f = out.file
    BY <1>2
<1>4. inode[f] \in Files
    BY ElementOfSeq DEF FileSide, FilesInv
<1>5. PICK new : new = [inode[f] EXCEPT !.cells = <<>>]
    OBVIOUS
<1>6. new \in Files /\ new.cells = <<>>
    BY <1>4, <1>5, EmptyMap DEF Files
<1>7. inode \in Seq(Files) /\ DOMAIN inode = 1..Len(inode)
    BY LenProperties DEF FileSide, FilesInv
<1>8. inode' = [inode EXCEPT ![f] = new]
    BY <1>1, <1>3, <1>5, <1>7
<1>9. ASSUME NEW p \in Procs, pc[p] = "load", stream[p].file = f, HalfRead(stream[p]) PROVE FALSE
  <2>1. p \in Clients
    BY <1>1, <1>9 DEF Procs
  <2> QED BY <1>3, <1>9, <2>1 DEF CutUnderReader
<1>10. "lock" \in Labels
    BY DEF Labels
<1>11. NobodyOpens /\ pc'[Worker] = "lock"
    BY <1>1, <1>10, WorkerAt
<1>12. FilesInv' /\ ReadersInv' /\ Given' = Given /\ Len(inode') = Len(inode) /\ inode'[f] = new
  <2>1. ReadersFollow(f, new.cells)
    BY <1>9 DEF ReadersFollow
  <2>2. UNCHANGED <<dir, stream, sampled>>
    BY <1>1
  <2> QED BY <1>6, <1>8, <1>11, <2>1, <2>2, FileRewritten
<1>13. WriterInv'
    BY <1>1, <1>2, <1>3, <1>6, <1>11, <1>12 DEF WriterInv
<1> QED
    BY <1>12, <1>13 DEF FileSide

LEMMA FilesEmit ==
    ASSUME FileSide, pc[Worker] \in {"write", "flush"}, NEW n \in 0..Len(out.cells), Emit(n),
           UNCHANGED <<dir, stream, sampled>>, NEW l \in {"write", "mark"}, Goto(Worker, l)
    PROVE  FileSide'
<1>1. PICK o : o = out.cells
    OBVIOUS
<1>2. /\ out \in Stores /\ out.file \in 1..Len(inode) /\ o \in Seq(Cells)
      /\ inode[out.file].cells \o o \in Maps(Given)
    BY <1>1 DEF FileSide, WriterInv, Stores
<1>3. PICK f \in 1..Len(inode) : f = out.file
    BY <1>2
<1>4. inode[f] \in Files
    BY ElementOfSeq DEF FileSide, FilesInv
<1>5. PICK c : c = inode[f].cells
    OBVIOUS
<1>6. c \in Maps(Given) /\ c \in Seq(Cells) /\ c \o o \in Maps(Given)
    BY <1>2, <1>3, <1>4, <1>5, MapIs DEF Files
<1>7. PICK d : d = c \o SubSeq(o, 1, n)
    OBVIOUS
<1>8. PICK r : r = SubSeq(o, n + 1, Len(o))
    OBVIOUS
<1>9. d \in Maps(Given) /\ Leads(c, d) /\ r \in Seq(Cells) /\ d \o r = c \o o
  <2>1. n \in 0..Len(o)
    BY <1>1
  <2>2. o \in Seq(Cells) /\ c \in Seq(Cells) /\ c \o o \in Maps(Given)
    BY <1>2, <1>6
  <2>3. MovesCells(Given, c, o, n)
    BY <2>1, <2>2, Emitted
  <2> QED BY <1>7, <1>8, <2>3 DEF MovesCells
<1>10. PICK new : new = [inode[f] EXCEPT !.cells = d]
    OBVIOUS
<1>11. new \in Files /\ new.cells = d
    BY <1>4, <1>9, <1>10 DEF Files
<1>12. inode \in Seq(Files) /\ DOMAIN inode = 1..Len(inode)
    BY LenProperties DEF FileSide, FilesInv
<1>13. inode' = [inode EXCEPT ![f] = new]
    BY <1>1, <1>3, <1>5, <1>7, <1>10, <1>12 DEF Emit
<1>14. out' = [out EXCEPT !.cells = r]
    BY <1>1, <1>8 DEF Emit
<1>15. out' \in Stores /\ out'.file = f /\ out'.cells = r
    BY <1>2, <1>3, <1>9, <1>14 DEF Stores
<1>16. ASSUME NEW p \in Procs, pc[p] = "load", stream[p].file = f, HalfRead(stream[p])
       PROVE  Leads(stream[p].got, d)
  <2>1. Leads(stream[p].got, c) /\ stream[p].got \in Maps(Given)
    BY <1>5, <1>16, LoadingIs
  <2>2. stream[p].got \in Seq(Cells) /\ d \in Seq(Cells)
    BY <1>9, <2>1, MapIs
  <2>3. Len(stream[p].got) \in Nat /\ Len(c) \in Nat /\ Len(d) \in Nat
    BY <1>6, <2>2, LenProperties
  <2> QED BY <1>9, <2>1, <2>3 DEF Leads
<1>17. l \in Labels /\ l # "load"
    BY DEF Labels
<1>18. NobodyOpens /\ pc'[Worker] = l
    BY <1>17, WorkerAt
<1>19. FilesInv' /\ ReadersInv' /\ Given' = Given /\ Len(inode') = Len(inode) /\ inode'[f] = new
  <2>1. ReadersFollow(f, new.cells)
    BY <1>11, <1>16 DEF ReadersFollow
  <2> QED BY <1>11, <1>13, <1>18, <2>1, FileRewritten
<1>20. WriterInv'
    BY <1>6, <1>9, <1>11, <1>15, <1>18, <1>19 DEF WriterInv
<1> QED
    BY <1>19, <1>20 DEF FileSide


LEMMA FilesRewriting ==
    ASSUME FileSide, GivenInv, BeginRewrite \/ Lock \/ WriteChunk \/ Unlock \/ Flush \/ Mark
    PROVE  FileSide'
<1>1. {"idle", "truncate", "lock", "write", "flush", "mark"} \subseteq Labels
    BY DEF Labels
<1>2. CASE BeginRewrite
  <2>1. PICK t \in Texts : dir[t] # 0 /\ out' = [NoStore EXCEPT !.text = t, !.file = dir[t]]
    BY <1>2 DEF BeginRewrite
  <2>2. Goto(Worker, "truncate") /\ UNCHANGED <<stream, sampled, inode, dir>>
    BY <1>2 DEF BeginRewrite, files, history
  <2>3. FilesInv' /\ ReadersInv' /\ pc'[Worker] = "truncate"
    BY <1>1, <2>2, WorkerGoes
  <2>4. dir[t] \in 1..Len(inode) /\ dir[t] \in Nat
    <3>1. dir[t] \in 0..Len(inode) /\ Len(inode) \in Nat
      BY LenProperties DEF FileSide, FilesInv
    <3> QED BY <2>1, <3>1
  <2>5. out' \in Stores /\ out'.text = t /\ out'.file = dir[t]
    BY <2>1, <2>4, StoresAre
  <2>6. WriterInv'
    BY <2>2, <2>3, <2>4, <2>5 DEF WriterInv
  <2> QED BY <2>3, <2>6 DEF FileSide
<1>3. CASE Lock
  <2>1. PICK cells : cells = MapOf(mem, BlocksIn(out.text))
    OBVIOUS
  <2>2. /\ pc[Worker] = "lock" /\ out' = [out EXCEPT !.cells = cells] /\ UNCHANGED <<stream, sampled, inode, dir>>
        /\ Goto(Worker, IF out'.cells = <<>> THEN "idle" ELSE "write")
    BY <1>3, <2>1 DEF Lock, files, history
  <2>3. PICK l \in {"idle", "write"} : Goto(Worker, l)
    BY <2>2
  <2>4. FilesInv' /\ ReadersInv' /\ pc'[Worker] = l /\ Given' = Given
    BY <1>1, <2>2, <2>3, WorkerGoes
  <2>5. out \in Stores /\ out.text \in Texts /\ out.file \in 1..Len(inode) /\ inode[out.file].cells = <<>>
    BY <2>2 DEF FileSide, WriterInv
  <2>6. cells \in Maps(Given)
    BY <2>1, <2>5, MapOfIs, ReplayAssumption DEF GivenInv
  <2>7. cells \in Seq(Cells)
    BY <2>6, MapIs
  <2>8. <<>> \o cells = cells
    BY <2>7, ConcatEmptySeq
  <2>9. out' \in Stores /\ out'.file = out.file /\ out'.cells = cells
    BY <2>2, <2>5, <2>7 DEF Stores
  <2>10. WriterInv'
    BY <2>2, <2>4, <2>5, <2>6, <2>8, <2>9 DEF WriterInv
  <2> QED BY <2>4, <2>10 DEF FileSide
<1>4. CASE WriteChunk
  <2>1. /\ pc[Worker] = "write" /\ Len(out.cells) > Buffer /\ Emit(Buffer)
        /\ UNCHANGED <<dir, pc, stream, sampled>>
    BY <1>4 DEF WriteChunk, history
  <2>2. Len(out.cells) \in Nat
    BY LenProperties DEF FileSide, WriterInv, Stores
  <2>3. Buffer \in 0..Len(out.cells)
    BY <2>1, <2>2, ReplayAssumption
  <2>4. Goto(Worker, "write")
    BY <2>1 DEF Goto, FileSide, ReadersInv
  <2> QED BY <2>1, <2>3, <2>4, FilesEmit
<1>5. CASE Unlock
  <2>1. pc[Worker] = "write" /\ Goto(Worker, "flush") /\ UNCHANGED <<stream, sampled, inode, dir, out>>
    BY <1>5 DEF Unlock, files, history
  <2>2. FilesInv' /\ ReadersInv' /\ pc'[Worker] = "flush" /\ Given' = Given
    BY <1>1, <2>1, WorkerGoes
  <2>3. WriterInv'
    BY <2>1, <2>2 DEF FileSide, WriterInv
  <2> QED BY <2>2, <2>3 DEF FileSide
<1>6. CASE Flush
  <2>1. /\ pc[Worker] = "flush" /\ Emit(Len(out.cells)) /\ Goto(Worker, "mark")
        /\ UNCHANGED <<dir, stream, sampled>>
    BY <1>6 DEF Flush, history
  <2>2. Len(out.cells) \in Nat
    BY LenProperties DEF FileSide, WriterInv, Stores
  <2>3. Len(out.cells) \in 0..Len(out.cells)
    BY <2>2
  <2> QED BY <2>1, <2>3, FilesEmit
<1>7. CASE Mark
  <2>1. /\ pc[Worker] = "mark" /\ inode' = [inode EXCEPT ![out.file].flag = TRUE]
        /\ Goto(Worker, "idle") /\ out' = NoStore /\ UNCHANGED <<dir, stream, sampled>>
    BY <1>7 DEF Mark
  <2>2. PICK f \in 1..Len(inode) : f = out.file
    BY <2>1 DEF FileSide, WriterInv
  <2>3. inode[f] \in Files /\ inode \in Seq(Files) /\ DOMAIN inode = 1..Len(inode)
    BY ElementOfSeq, LenProperties DEF FileSide, FilesInv
  <2>4. PICK new : new = [inode[f] EXCEPT !.flag = TRUE]
    OBVIOUS
  <2>5. new \in Files /\ new.cells = inode[f].cells
    BY <2>3, <2>4 DEF Files
  <2>6. inode' = [inode EXCEPT ![f] = new]
    BY <2>1, <2>2, <2>3, <2>4
  <2>7. NobodyOpens /\ pc'[Worker] = "idle"
    BY <1>1, <2>1, WorkerAt
  <2>8. ReadersFollow(f, new.cells)
    BY <2>5, LoadingIs DEF ReadersFollow
  <2>9. FilesInv' /\ ReadersInv'
    BY <2>1, <2>5, <2>6, <2>7, <2>8, FileRewritten
  <2>10. WriterInv'
    BY <2>1, <2>7, StoresAre DEF WriterInv
  <2> QED BY <2>9, <2>10 DEF FileSide
<1> QED
    BY <1>2, <1>3, <1>4, <1>5, <1>6, <1>7

LEMMA FilesElse ==
    ASSUME FileSide, Resume \/ Evict \/ Restart \/ Remember, Given \subseteq Given'
    PROVE  FileSide'
<1>1. Worker \in Procs
    BY DEF Procs
<1>2. CASE Resume
  <2>1. PICK t \in Texts : dir[t] # 0 /\ OpenMap(Worker, dir[t])
    BY <1>2 DEF Resume
  <2>2. UNCHANGED <<inode, dir, out, sampled>>
    BY <1>2 DEF Resume, files, history
  <2> QED BY <1>1, <2>1, <2>2, FilesOpenMap
<1>3. CASE Evict
  <2>1. PICK t \in Texts : dir' = [dir EXCEPT ![t] = 0]
    BY <1>3 DEF Evict
  <2>2. UNCHANGED <<inode, stream, out, sampled, pc>>
    BY <1>3 DEF Evict
  <2>3. dir \in [Texts -> 0..Len(inode)] /\ 0 \in 0..Len(inode)
    BY LenProperties DEF FileSide, FilesInv
  <2>4. dir' \in [Texts -> 0..Len(inode)]
    BY <2>1, <2>3
  <2>5. FilesInv' /\ WriterInv'
    BY <2>2, <2>4, FilesStand, WriterStand DEF FileSide
  <2>6. pc' \in [Procs -> Labels] /\ \A p \in Procs : pc'[p] = "load" => pc[p] = "load"
    BY <2>2 DEF FileSide, ReadersInv
  <2>7. ReadersInv'
    BY <2>2, <2>6, ReadersStand DEF FileSide
  <2> QED BY <2>5, <2>7 DEF FileSide
<1>4. CASE Restart
  <2>1. pc' = Idle /\ stream' = NoStreams /\ out' = NoStore /\ UNCHANGED <<inode, dir, sampled>>
    BY <1>4 DEF Restart, files
  <2>2. FilesInv'
    BY <2>1, FilesStand DEF FileSide, FilesInv
  <2>3. Given' = Given
    BY <2>1 DEF Given
  <2>4. pc' \in [Procs -> Labels] /\ \A p \in Procs : pc'[p] = "idle"
    BY <2>1 DEF Idle, Labels
  <2>5. stream' \in [Procs -> Streams']
    BY <2>1, <2>3, NoStreamIs DEF NoStreams, Streams
  <2>6. ReadersInv'
    BY <2>4, <2>5 DEF ReadersInv, ReadingInv
  <2>7. WriterInv'
    BY <1>1, <2>1, <2>4, StoresAre DEF WriterInv
  <2> QED BY <2>2, <2>6, <2>7 DEF FileSide
<1>5. CASE Remember
  <2>1. UNCHANGED <<inode, dir, stream, out, pc>>
    BY <1>5 DEF Remember, files
  <2>2. FilesInv' /\ WriterInv'
    BY <2>1, FilesStand, WriterStand DEF FileSide, FilesInv
  <2>3. pc' \in [Procs -> Labels] /\ \A p \in Procs : pc'[p] = "load" => pc[p] = "load"
    BY <2>1 DEF FileSide, ReadersInv
  <2>4. ReadersInv'
    BY <2>1, <2>3, ReadersStand DEF FileSide
  <2> QED BY <2>2, <2>4 DEF FileSide
<1> QED
    BY <1>2, <1>3, <1>4, <1>5


(* A sequence is one of its own elements, and a longer one has one more. *)
LEMMA OwnElements ==
    ASSUME NEW S, NEW s \in Seq(S)
    PROVE  s \in Seq(ToSet(s))
<1>1. Len(s) \in Nat /\ DOMAIN s = 1..Len(s) /\ s \in [1..Len(s) -> S]
    BY LenProperties
<1>2. PICK T : T = ToSet(s)
    OBVIOUS
<1>3. \A i \in 1..Len(s) : s[i] \in T
    BY <1>1, <1>2 DEF ToSet
<1>4. s \in [1..Len(s) -> T]
    BY <1>1, <1>3
<1>5. Seq(T) = UNION {[1..n -> T] : n \in Nat}
    BY SeqDef, Zenon
<1> QED
    BY <1>1, <1>2, <1>4, <1>5

LEMMA OneMoreElement ==
    ASSUME NEW s, s \in Seq(ToSet(s)), NEW x
    PROVE  Append(s, x) \in Seq(ToSet(Append(s, x))) /\ ToSet(Append(s, x)) \subseteq ToSet(s) \cup {x}
<1>1. PICK S : S = ToSet(s) \cup {x}
    OBVIOUS
<1>2. s \in Seq(S) /\ x \in S
    BY <1>1, SeqMonotonic
<1>3. PICK t : t = Append(s, x)
    OBVIOUS
<1>4. t \in Seq(S)
    BY <1>2, <1>3, AppendProperties
<1>5. ToSet(t) \subseteq S
    BY <1>4, LenProperties, ElementOfSeq DEF ToSet
<1> QED
    BY <1>1, <1>3, <1>4, <1>5, OwnElements

LEMMA AnswersAttach ==
    ASSUME AnswersInv, GivenInv, msgs \in Messages, NEW c \in Clients, Attach(c)
    PROVE  AnswersInv'
<1>1. PICK r : r = [k \in DOMAIN msgs[c] |-> [ids |-> msgs[c][k], dsml |-> Replay(mem, msgs[c][k])]]
    OBVIOUS
<1>2. answers' = Append(answers, r) /\ UNCHANGED sampled
    BY <1>1 DEF Attach, Answer, history
<1>3. answers' \in Seq(ToSet(answers')) /\ ToSet(answers') \subseteq ToSet(answers) \cup {r}
    BY <1>2, OneMoreElement DEF AnswersInv
<1>4. ASSUME NEW k \in DOMAIN r, r[k].dsml # Canonical, NEW i \in ToSet(r[k].ids)
      PROVE  i \in DOMAIN sampled /\ sampled[i] = r[k].dsml
  <2>1. msgs[c] \in Seq(Seq(Ids)) /\ k \in DOMAIN msgs[c]
    BY <1>1 DEF Messages
  <2>2. PICK ids \in Seq(Ids) : ids = msgs[c][k]
    BY <2>1, LenProperties, ElementOfSeq
  <2>3. r[k].ids = ids /\ r[k].dsml = Replay(mem, ids)
    BY <1>1, <2>1, <2>2
  <2>4. <<i, Replay(mem, ids)>> \in Given
    BY <1>4, <2>3, ReplayIs DEF GivenInv
  <2>5. PICK j \in DOMAIN sampled : <<i, Replay(mem, ids)>> = <<j, sampled[j]>>
    BY <2>4 DEF Given
  <2> QED BY <2>3, <2>5
<1>5. ReplaysSampled'
  <2> SUFFICES ASSUME NEW x \in ToSet(answers'), NEW k \in DOMAIN x, x[k].dsml # Canonical, NEW i \in ToSet(x[k].ids)
               PROVE  i \in DOMAIN sampled' /\ sampled'[i] = x[k].dsml
      BY DEF ReplaysSampled
  <2>1. CASE x = r
    BY <1>2, <1>4, <2>1
  <2>2. CASE x \in ToSet(answers)
    BY <1>2, <2>2 DEF AnswersInv, ReplaysSampled
  <2> QED BY <1>3, <2>1, <2>2
<1> QED
    BY <1>3, <1>5 DEF AnswersInv

(* New ids get their block; nothing that was sampled before changes. *)
LEMMA AllRemember ==
    ASSUME GivenInv, AnswersInv, MemoryInv, Remember
    PROVE  Given \subseteq Given' /\ GivenInv' /\ AnswersInv'
<1>1. PICK ids \in Calls, b \in Blocks :
          /\ ToSet(ids) \cap DOMAIN sampled = {}
          /\ mem' = PutAll(mem, ids, Whole(b))
          /\ sampled' = [i \in DOMAIN sampled \cup ToSet(ids) |->
                           IF i \in DOMAIN sampled THEN sampled[i] ELSE Whole(b)]
    BY DEF Remember
<1>2. ids \in Seq(Ids) /\ UNCHANGED answers
    BY <1>1, ReplayAssumption DEF Remember
<1>3. DOMAIN ids = 1..Len(ids) /\ \A k \in 1..Len(ids) : ids[k] \in Ids /\ ids[k] \in ToSet(ids)
    BY <1>2, LenProperties, ElementOfSeq DEF ToSet
<1>4. /\ DOMAIN sampled' = DOMAIN sampled \cup ToSet(ids)
      /\ \A i \in DOMAIN sampled : sampled'[i] = sampled[i]
      /\ \A i \in ToSet(ids) : sampled'[i] = Whole(b)
    BY <1>1
<1>5. Given \subseteq Given'
    BY <1>4 DEF Given
<1>6. \A k \in 1..Len(ids) : <<ids[k], Whole(b)>> \in Given'
    BY <1>3, <1>4 DEF Given
<1>7. Given' \subseteq Ids \X Wholes
  <2>1. ASSUME NEW i \in DOMAIN sampled PROVE i \in Ids /\ sampled[i] \in Wholes
    <3>1. <<i, sampled[i]>> \in Given
      BY DEF Given
    <3> QED BY <3>1 DEF GivenInv
  <2>2. \A i \in ToSet(ids) : i \in Ids
    BY <1>3 DEF ToSet
  <2>3. Whole(b) \in Wholes
    BY DEF Wholes
  <2> QED BY <1>4, <2>1, <2>2, <2>3 DEF Given
<1>8. mem' \in Memories(Given')
  <2>1. mem \in Memories(Given')
    BY <1>5, MorePairs DEF GivenInv
  <2>2. Follows(mem, recent)
    BY DEF MemoryInv
  <2> QED BY <1>1, <1>2, <1>6, <2>1, <2>2, PutAllFollows
<1>9. AnswersInv'
    BY <1>2, <1>4 DEF AnswersInv, ReplaysSampled
<1> QED
    BY <1>5, <1>7, <1>8, <1>9 DEF GivenInv


-----------------------------------------------------------------------------
(* The invariant of a run in which no map is cut under a client. *)
MapsInv == MemoryInv /\ GivenInv /\ FileSide /\ ScanInv /\ AnswersInv

LEMMA MapsInit == Init => MapsInv
<1> SUFFICES ASSUME Init PROVE MapsInv
    OBVIOUS
<1>1. MemoryInv
    BY MemoryInit
<1>2. GivenInv
  <2>1. DOMAIN sampled = {}
    BY DEF Init
  <2>2. Given = {}
    BY <2>1 DEF Given
  <2> QED BY <2>2, EmptyIs DEF Init, GivenInv
<1>3. FilesInv
  <2>1. <<>> \in Seq(Files) /\ Len(<<>>) = 0
    BY EmptySeq
  <2> QED BY <2>1 DEF Init, FilesInv
<1>4. ReadersInv
  <2>1. pc \in [Procs -> Labels] /\ \A p \in Procs : pc[p] = "idle"
    BY DEF Init, Idle, Labels
  <2>2. stream \in [Procs -> Streams]
    BY NoStreamIs DEF Init, NoStreams
  <2> QED BY <2>1, <2>2 DEF ReadersInv, ReadingInv
<1>5. WriterInv
  <2>1. pc[Worker] = "idle"
    BY DEF Init, Idle, Procs
  <2>2. out = NoStore
    BY DEF Init
  <2> QED BY <2>1, <2>2, StoresAre DEF WriterInv
<1>6. ScanInv
    BY DEF Init, NoScan, ScanInv
<1>7. AnswersInv
  <2>1. <<>> \in Seq(ToSet(<<>>)) /\ ToSet(<<>>) = {}
    <3>1. <<>> \in Seq({}) /\ Len(<<>>) = 0
      BY EmptySeq
    <3>2. DOMAIN <<>> = 1..0
      BY <3>1, LenProperties
    <3> QED BY <3>2, EmptySeq DEF ToSet
  <2> QED BY <2>1 DEF Init, AnswersInv, ReplaysSampled
<1> QED
    BY <1>1, <1>2, <1>3, <1>4, <1>5, <1>6, <1>7 DEF MapsInv, FileSide

(* The scans visit texts. *)
LEMMA ScanStep == ScanInv /\ [Next]_vars => ScanInv'
<1> SUFFICES ASSUME ScanInv, [Next]_vars PROVE ScanInv'
    OBVIOUS
<1>1. ASSUME NEW c \in Clients, Parse(c) PROVE ScanInv'
  <2>1. todo' = [todo EXCEPT ![c] = {t \in Texts : dir[t] # 0}]
    BY <1>1 DEF Parse
  <2> QED BY <2>1 DEF ScanInv
<1>2. ASSUME NEW c \in Clients, Visit(c) PROVE ScanInv'
  <2>1. PICK t \in todo[c] : todo' = [todo EXCEPT ![c] = @ \ {t}]
    BY <1>2 DEF Visit
  <2> QED BY <2>1 DEF ScanInv
<1>3. CASE Restart
    BY <1>3 DEF Restart, NoScan, ScanInv
<1>4. ASSUME NEW p \in Procs, Loading(p) PROVE UNCHANGED todo
    BY <1>4 DEF Loading, ReadMore, LoadEntry, Take, CloseMap
<1>5. ASSUME NEW c \in Clients, ScanDone(c) \/ Attach(c) PROVE UNCHANGED todo
    BY <1>5 DEF ScanDone, Attach, Answer
<1>6. ASSUME Storing PROVE UNCHANGED todo
    BY <1>6 DEF Storing, StoreMap, Rename, StoreFails, Truncate, Lock, WriteChunk, Unlock, Flush, Mark
<1>7. ASSUME Remember \/ Resume \/ StoreHeader \/ BeginRewrite \/ Evict PROVE UNCHANGED todo
    BY <1>7 DEF Remember, Resume, StoreHeader, BeginRewrite, Evict
<1>8. UNCHANGED todo => ScanInv'
    BY DEF ScanInv
<1> QED
    BY <1>1, <1>2, <1>3, <1>4, <1>5, <1>6, <1>7, <1>8 DEF Next, Parsing, Procs, vars

LEMMA MapsStutter == MapsInv /\ UNCHANGED vars => MapsInv'
<1> SUFFICES ASSUME MapsInv, UNCHANGED vars PROVE MapsInv'
    OBVIOUS
<1>1. /\ UNCHANGED <<mem, recent, msgs>> /\ UNCHANGED <<inode, dir, stream, out, pc>>
      /\ UNCHANGED <<todo, answers, sampled>>
    BY DEF vars
<1>2. Given' = Given
    BY <1>1 DEF Given
<1>3. MemoryInv' /\ GivenInv' /\ ScanInv' /\ AnswersInv'
    BY <1>1, <1>2, MemoryStands, AnswersStand DEF MapsInv, GivenInv, ScanInv
<1>4. FilesInv' /\ WriterInv'
    BY <1>1, <1>2, FilesStand, WriterStand DEF MapsInv, FileSide, FilesInv
<1>5. pc' \in [Procs -> Labels] /\ \A p \in Procs : pc'[p] = "load" => pc[p] = "load"
    BY <1>1 DEF MapsInv, FileSide, ReadersInv
<1>6. ReadersInv'
    BY <1>1, <1>2, <1>5, ReadersStand DEF MapsInv, FileSide
<1> QED
    BY <1>3, <1>4, <1>6 DEF MapsInv, FileSide

LEMMA MapsStep == MapsInv /\ [Next]_vars /\ ~CutUnderReader => MapsInv'
<1> SUFFICES ASSUME MapsInv, [Next]_vars, ~CutUnderReader PROVE MapsInv'
    OBVIOUS
<1>1. MemoryInv /\ GivenInv /\ FileSide /\ ScanInv /\ AnswersInv /\ msgs \in Messages
    BY DEF MapsInv, MemoryInv
<1>2. MemoryInv' /\ ScanInv'
    BY <1>1, MemoryStep, ScanStep
<1>3. ASSUME UNCHANGED <<mem, sampled>> PROVE GivenInv'
    BY <1>1, <1>3 DEF GivenInv, Given
<1>4. ASSUME FileSide', UNCHANGED <<mem, sampled, answers>> PROVE MapsInv'
    BY <1>1, <1>2, <1>3, <1>4, AnswersStand DEF MapsInv
<1>5. ASSUME NEW p \in Procs, Loading(p) PROVE MapsInv'
  <2>1. CASE ReadMore(p)
    BY <1>1, <1>4, <2>1, FilesReadMore DEF ReadMore, history
  <2>2. CASE CloseMap(p)
    BY <1>1, <1>4, <2>2, FilesCloseMap DEF CloseMap, history
  <2>3. CASE LoadEntry(p)
    <3>1. FileSide' /\ GivenInv'
      BY <1>1, <2>3, WantedIds, FilesLoadEntry
    <3>2. AnswersInv'
      BY <1>1, <2>3, AnswersStand DEF LoadEntry, history
    <3> QED BY <1>2, <3>1, <3>2 DEF MapsInv
  <2> QED BY <1>5, <2>1, <2>2, <2>3 DEF Loading
<1>6. ASSUME NEW c \in Clients, Parse(c) \/ Visit(c) \/ ScanDone(c) PROVE MapsInv'
  <2>1. UNCHANGED <<mem, sampled, answers>>
    BY <1>6 DEF Parse, Visit, ScanDone, history
  <2>2. FileSide'
    BY <1>1, <1>6, FilesParsing
  <2> QED BY <1>4, <2>1, <2>2
<1>7. ASSUME NEW c \in Clients, Attach(c) PROVE MapsInv'
  <2>1. FileSide' /\ AnswersInv'
    BY <1>1, <1>7, FilesParsing, AnswersAttach
  <2>2. mem' = LookUp(mem, FlattenSeq(msgs[c])) /\ UNCHANGED sampled
    BY <1>7 DEF Attach, history
  <2>3. FlattenSeq(msgs[c]) \in Seq(Ids)
    BY <1>1, FlattenIs DEF Messages
  <2>4. mem \in Memories(Given) /\ Follows(mem, recent)
    BY <1>1 DEF GivenInv, MemoryInv
  <2>5. mem' \in Memories(Given)
    BY <2>2, <2>3, <2>4, LookUpFollows
  <2>6. GivenInv'
    BY <1>1, <2>2, <2>5 DEF GivenInv, Given
  <2> QED BY <1>2, <2>1, <2>6 DEF MapsInv
<1>8. CASE Storing \/ StoreHeader \/ BeginRewrite
  <2>1. UNCHANGED <<mem, sampled, answers>>
    BY <1>8 DEF Storing, StoreMap, Rename, StoreFails, Truncate, Lock, WriteChunk, Unlock, Flush, Mark,
                StoreHeader, BeginRewrite, history
  <2>2. FileSide'
    BY <1>1, <1>8, FilesStoring, FilesTruncate, FilesRewriting DEF Storing
  <2> QED BY <1>4, <2>1, <2>2
<1>9. CASE Resume \/ Evict
  <2>1. UNCHANGED <<mem, sampled, answers>>
    BY <1>9 DEF Resume, Evict, history
  <2>2. Given \subseteq Given'
    BY <2>1 DEF Given
  <2>3. FileSide'
    BY <1>1, <1>9, <2>2, FilesElse
  <2> QED BY <1>4, <2>1, <2>3
<1>10. CASE Restart
  <2>1. mem' = Empty /\ UNCHANGED <<sampled, answers>>
    BY <1>10 DEF Restart
  <2>2. Given' = Given
    BY <2>1 DEF Given
  <2>3. FileSide'
    BY <1>1, <1>10, <2>2, FilesElse
  <2>4. GivenInv'
    BY <1>1, <2>1, <2>2, EmptyIs DEF GivenInv
  <2> QED BY <1>1, <1>2, <2>1, <2>3, <2>4, AnswersStand DEF MapsInv
<1>11. CASE Remember
  <2>1. Given \subseteq Given' /\ GivenInv' /\ AnswersInv'
    BY <1>1, <1>11, AllRemember
  <2>2. FileSide'
    BY <1>1, <1>11, <2>1, FilesElse
  <2> QED BY <1>2, <2>1, <2>2 DEF MapsInv
<1>12. CASE UNCHANGED vars
    BY <1>12, MapsStutter
<1> QED
    BY <1>5, <1>6, <1>7, <1>8, <1>9, <1>10, <1>11, <1>12 DEF Next, Parsing, Procs

(* For any ids, blocks, limits, buffer size, texts, clients and crashes: as
   long as the worker never cuts a map that a client has read a part of, a
   replayed block is the one that was sampled for every id of the message.
   The run tool_torn shows that the condition cannot be left out.           *)
THEOREM UncutMapsReplaySampled == Spec /\ [][~CutUnderReader]_vars => []ReplaysSampled
<1>1. Init => MapsInv
    BY MapsInit
<1>2. MapsInv /\ [Next]_vars /\ [~CutUnderReader]_vars => MapsInv'
    BY MapsStep, MapsStutter
<1>3. MapsInv => ReplaysSampled
    BY DEF MapsInv, AnswersInv
<1> QED
    BY <1>1, <1>2, <1>3, PTL DEF Spec

=============================================================================
