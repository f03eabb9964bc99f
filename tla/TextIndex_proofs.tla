-------------------------- MODULE TextIndex_proofs --------------------------
(***************************************************************************)
(* Proofs about TextIndex for any slots, terms, texts and hash values.     *)
(*                                                                         *)
(* What holds of the table (TableOf) holds of the old and of the new one   *)
(* while it grows.  Every token is found (PostInv) whatever the references *)
(* say, since a removal takes away postings of its own slot only; nothing  *)
(* else is found (ExactInv) as long as each posting is referred to from    *)
(* its slot.                                                               *)
(***************************************************************************)
EXTENDS TextIndex, FiniteSetTheorems, TLAPS

Sorted(post) == \A i, j \in 1 .. Len(post) : i < j => post[i].slot < post[j].slot

\* The probe for the term of cell x ends there.
Reached(e, c, x) ==
    \E k \in Cells(c) :
        /\ Cell(c, e[x].term, k) = x
        /\ \A j \in 0 .. k - 1 : e[Cell(c, e[x].term, j)].term \notin {None, e[x].term}

TableOf(e, c) ==
    /\ \A x, y \in Cells(c) : e[x].term = e[y].term /\ e[x].term # None => x = y
    /\ \A x \in Cells(c) : e[x].term # None => Reached(e, c, x)
    /\ \A x \in Cells(c) : Sorted(e[x].post) /\ (e[x].term = None => e[x].post = <<>>)

RefInv == \A s \in Slots : \A n \in 1 .. Len(refs[s]) : refs[s][n].term \in Cells(cap)

GrowInv ==
    task.op = "grow" =>
        /\ grown.from <= cap /\ cap <= grown.cap /\ grown.cap > 0
        /\ moved \/ \A s \in Slots : refs[s] = <<>>
        /\ TableOf(grown.entries, grown.cap)
        /\ \A x \in Cells(grown.cap) : grown.entries[x].term # None =>
               \E y \in 0 .. grown.from - 1 : entries[y] = grown.entries[x]
        /\ \A y \in 0 .. grown.from - 1 : entries[y].term # None =>
               \E x \in Cells(grown.cap) : grown.entries[x] = entries[y]

\* How often a sequence has a term.
Occurs(q, term) == Cardinality({i \in 1 .. Len(q) : q[i] = term})

HasPosting(e, slot, least) ==
    \E i \in 1 .. Len(e.post) : e.post[i].slot = slot /\ e.post[i].tf >= least

PostInv ==
    \A s \in Slots : \A n \in 1 .. Len(texts[s]) :
        \E x \in Cells(cap) : /\ entries[x].term = texts[s][n]
                              /\ HasPosting(entries[x], s, Occurs(texts[s], texts[s][n]))

Removing(s) == task.op = "remove" /\ task.slot = s

ExactInv ==
    ~moved =>
        \A x \in Cells(cap) : \A i \in 1 .. Len(entries[x].post) :
            LET p == entries[x].post[i]
            IN /\ ~Removing(p.slot) => p.tf = Occurs(texts[p.slot], entries[x].term) /\ p.tf > 0
               /\ \E n \in 1 .. Len(refs[p.slot]) : refs[p.slot][n].term = x

Words(d) == UNION {{s} \X (1 .. d[s]) : s \in Slots}

LenOf(d, t, tk) ==
    /\ \A s \in Slots :
           IF tk.op # "none" /\ s = tk.slot
           THEN IF tk.op = "remove" THEN t[s] = <<>>
                ELSE d[s] = 0 /\ Len(t[s]) = tk.at /\ tk.text # <<>>
           ELSE d[s] = Len(t[s])
    /\ tk.op = "remove" => tk.at = 0 /\ d[tk.slot] > 0

SumsOf(d, m, n) == m = Cardinality({s \in Slots : d[s] > 0}) /\ n = Cardinality(Words(d))

TotalsInv == LenOf(doclen, texts, task) /\ SumsOf(doclen, nDocs, totalLen)

IInv == /\ TypeOK /\ TableOf(entries, cap) /\ RefInv /\ GrowInv
        /\ PostInv /\ ExactInv /\ TotalsInv

-----------------------------------------------------------------------------
\* A probe stays in the table.
LEMMA CellIn ==
    ASSUME NEW c \in Nat \ {0}, NEW term \in Terms, NEW k \in Nat
    PROVE  Cell(c, term, k) \in Cells(c)
<1>1. Home[term] \in Nat
    BY IndexAssumption
<1> DEFINE n == Home[term] + k
<1>2. n \in Nat
    BY <1>1
<1> HIDE DEF n
<1>3. n % c \in 0 .. c - 1
    BY <1>2
<1> QED BY <1>3 DEF Cell, Cells, n

\* A posting is put at i, and the rest moves up.
LEMMA InsertElems ==
    ASSUME NEW post \in Seq(Posting), NEW i \in 1 .. Len(post) + 1, NEW p \in Posting
    PROVE  /\ InsertAt(post, i, p) \in Seq(Posting)
           /\ Len(InsertAt(post, i, p)) = Len(post) + 1
           /\ \A j \in 1 .. Len(post) + 1 :
                  InsertAt(post, i, p)[j] =
                      IF j < i THEN post[j] ELSE IF j = i THEN p ELSE post[j - 1]
<1> DEFINE l == SubSeq(post, 1, i - 1)
           r == SubSeq(post, i, Len(post))
           m == l \o <<p>>
<1>1. l \in Seq(Posting) /\ Len(l) = i - 1 /\ \A j \in 1 .. i - 1 : l[j] = post[j]
    OBVIOUS
<1>2. /\ r \in Seq(Posting) /\ Len(r) = Len(post) + 1 - i
      /\ \A j \in 1 .. Len(post) + 1 - i : r[j] = post[i + j - 1]
    OBVIOUS
<1> HIDE DEF l, r
<1>3. /\ m \in Seq(Posting) /\ Len(m) = i
      /\ \A j \in 1 .. i : m[j] = IF j < i THEN post[j] ELSE p
    BY <1>1
<1> HIDE DEF m
<1>4. /\ m \o r \in Seq(Posting) /\ Len(m \o r) = Len(post) + 1
      /\ \A j \in 1 .. Len(post) + 1 :
             (m \o r)[j] = IF j <= i THEN m[j] ELSE r[j - i]
    BY <1>2, <1>3
<1>5. \A j \in 1 .. Len(post) + 1 :
          (m \o r)[j] = IF j < i THEN post[j] ELSE IF j = i THEN p ELSE post[j - 1]
    BY <1>2, <1>3, <1>4
<1>6. InsertAt(post, i, p) = m \o r
    BY DEF InsertAt, l, r, m
<1> QED BY <1>4, <1>5, <1>6

\* A posting is taken out at i, and the rest moves down.
LEMMA RemoveElems ==
    ASSUME NEW post \in Seq(Posting), NEW i \in 1 .. Len(post)
    PROVE  /\ RemoveAt(post, i) \in Seq(Posting)
           /\ Len(RemoveAt(post, i)) = Len(post) - 1
           /\ \A j \in 1 .. Len(post) - 1 :
                  RemoveAt(post, i)[j] = IF j < i THEN post[j] ELSE post[j + 1]
<1> DEFINE l == SubSeq(post, 1, i - 1)
           r == SubSeq(post, i + 1, Len(post))
<1>1. l \in Seq(Posting) /\ Len(l) = i - 1 /\ \A j \in 1 .. i - 1 : l[j] = post[j]
    OBVIOUS
<1>2. /\ r \in Seq(Posting) /\ Len(r) = Len(post) - i
      /\ \A j \in 1 .. Len(post) - i : r[j] = post[i + j]
    OBVIOUS
<1> HIDE DEF l, r
<1>8. l \in Seq(Posting) /\ r \in Seq(Posting)
    BY <1>1, <1>2
<1>6. l \o r \in Seq(Posting) /\ Len(l \o r) = Len(l) + Len(r)
    BY <1>8
<1>7. Len(l \o r) = Len(post) - 1
    BY <1>1, <1>2, <1>6
<1>3. \A j \in 1 .. Len(post) - 1 :
          (l \o r)[j] = IF j <= i - 1 THEN l[j] ELSE r[j - (i - 1)]
    <2>1. \A j \in 1 .. Len(l) + Len(r) :
              (l \o r)[j] = IF j <= Len(l) THEN l[j] ELSE r[j - Len(l)]
        BY <1>1, <1>2
    <2> QED BY <2>1, <1>1, <1>2
<1>5. \A j \in 1 .. Len(post) - 1 :
          (l \o r)[j] = IF j < i THEN post[j] ELSE post[j + 1]
    BY <1>1, <1>2, <1>3
<1>4. RemoveAt(post, i) = l \o r
    BY DEF RemoveAt, l, r
<1> QED BY <1>4, <1>5, <1>6, <1>7

\* The set Occurs counts is finite.
LEMMA OccursFinite ==
    ASSUME NEW q \in Seq(Terms), NEW term
    PROVE  IsFiniteSet({i \in 1 .. Len(q) : q[i] = term})
<1>1. Len(q) \in Int
    OBVIOUS
<1>2. IsFiniteSet(1 .. Len(q))
    BY <1>1, FS_Interval
<1> QED BY <1>2, FS_Subset

LEMMA OccursZero ==
    ASSUME NEW q \in Seq(Terms), NEW term
    PROVE  /\ Occurs(q, term) \in Nat
           /\ Occurs(q, term) = 0 <=> \A i \in 1 .. Len(q) : q[i] # term
<1> DEFINE S == {i \in 1 .. Len(q) : q[i] = term}
<1>1. IsFiniteSet(S)
    BY OccursFinite
<1>2. Cardinality(S) \in Nat /\ (Cardinality(S) = 0 <=> S = {})
    BY <1>1, FS_CardinalityType, FS_EmptySet
<1>3. Occurs(q, term) = Cardinality(S)
    BY DEF Occurs
<1>4. S = {} <=> \A i \in 1 .. Len(q) : q[i] # term
    OBVIOUS
<1> QED BY <1>2, <1>3, <1>4

\* One more token counts for its term and for no other.
LEMMA OccursAppend ==
    ASSUME NEW q \in Seq(Terms), NEW t \in Terms, NEW u
    PROVE  Occurs(Append(q, t), u) = Occurs(q, u) + IF u = t THEN 1 ELSE 0
<1> DEFINE S == {i \in 1 .. Len(q) : q[i] = u}
           R == {i \in 1 .. Len(Append(q, t)) : Append(q, t)[i] = u}
<1>1. IsFiniteSet(S)
    BY OccursFinite
<1>5. Len(q) + 1 \notin S
    OBVIOUS
<1>2. Cardinality(S) \in Nat
    BY <1>1, FS_CardinalityType
<1>6. Occurs(q, u) = Cardinality(S) /\ Occurs(Append(q, t), u) = Cardinality(R)
    BY DEF Occurs
<1>3. CASE u = t
    <2>1. R = S \cup {Len(q) + 1}
        BY <1>3
    <2>2. Cardinality(S \cup {Len(q) + 1}) = Cardinality(S) + 1
        BY <1>1, <1>5, FS_AddElement
    <2> QED BY <2>1, <2>2, <1>3, <1>6
<1>4. CASE u # t
    <2>1. R = S
        BY <1>4
    <2>2. Occurs(Append(q, t), u) = Occurs(q, u)
        BY <2>1, <1>6
    <2>3. Occurs(q, u) \in Nat
        BY <1>2, <1>6
    <2> QED BY <2>2, <2>3, <1>4
<1> QED BY <1>3, <1>4

-----------------------------------------------------------------------------
\* The postings of other slots are the same.
SameButFor(old, new, s) ==
    /\ \A j \in 1 .. Len(old) : old[j].slot # s => \E n \in 1 .. Len(new) : new[n] = old[j]
    /\ \A j \in 1 .. Len(new) : new[j].slot # s => \E n \in 1 .. Len(old) : old[n] = new[j]

LEMMA PostingTypes ==
    ASSUME NEW post \in Seq(Posting), NEW j \in 1 .. Len(post)
    PROVE  /\ post[j] = [slot |-> post[j].slot, tf |-> post[j].tf]
           /\ post[j].slot \in Slots /\ post[j].slot \in Nat /\ post[j].tf \in Nat
<1>1. Slots \subseteq Nat
    BY IndexAssumption
<1>2. post[j] \in Posting
    OBVIOUS
<1> QED BY <1>1, <1>2 DEF Posting

\* What a turn of text_index_remove does to the array it looks at.
LEMMA PostingRemoved ==
    ASSUME NEW post \in Seq(Posting), Sorted(post), NEW s \in Slots,
           NEW i \in 1 .. Len(post), post[i].slot = s
    PROVE  /\ RemoveAt(post, i) \in Seq(Posting)
           /\ Sorted(RemoveAt(post, i))
           /\ SameButFor(post, RemoveAt(post, i), s)
           /\ \A j \in 1 .. Len(RemoveAt(post, i)) : RemoveAt(post, i)[j].slot # s
<1> DEFINE new == RemoveAt(post, i)
<1>1. /\ new \in Seq(Posting) /\ Len(new) = Len(post) - 1
      /\ \A j \in 1 .. Len(post) - 1 : new[j] = IF j < i THEN post[j] ELSE post[j + 1]
    BY RemoveElems
<1> HIDE DEF new
<1>2. \A j \in 1 .. Len(post) : post[j].slot \in Nat
    BY PostingTypes
<1>3. Sorted(new)
    <2> SUFFICES ASSUME NEW a \in 1 .. Len(new), NEW b \in 1 .. Len(new), a < b
                 PROVE  new[a].slot < new[b].slot
        BY DEF Sorted
    <2> DEFINE n == IF a < i THEN a ELSE a + 1
               m == IF b < i THEN b ELSE b + 1
    <2>1. n \in 1 .. Len(post) /\ m \in 1 .. Len(post) /\ n < m
        BY <1>1
    <2>2. new[a] = post[n] /\ new[b] = post[m]
        BY <1>1
    <2> HIDE DEF n, m
    <2> QED BY <2>1, <2>2 DEF Sorted
<1>4. SameButFor(post, new, s)
    <2>1. ASSUME NEW j \in 1 .. Len(post), post[j].slot # s
          PROVE  \E n \in 1 .. Len(new) : new[n] = post[j]
        <3>1. CASE j < i
            <4>1. j \in 1 .. Len(new) /\ new[j] = post[j]
                BY <3>1, <1>1
            <4> QED BY <4>1
        <3>2. CASE j > i
            <4>1. j - 1 \in 1 .. Len(new) /\ new[j - 1] = post[j]
                BY <3>2, <1>1
            <4> QED BY <4>1
        <3> QED BY <2>1, <3>1, <3>2
    <2>2. ASSUME NEW j \in 1 .. Len(new), new[j].slot # s
          PROVE  \E n \in 1 .. Len(post) : post[n] = new[j]
        <3>1. j \in 1 .. Len(post) /\ j + 1 \in 1 .. Len(post)
            BY <1>1
        <3>2. new[j] = post[j] \/ new[j] = post[j + 1]
            BY <1>1
        <3> QED BY <3>1, <3>2
    <2> QED BY <2>1, <2>2 DEF SameButFor
<1>5. ASSUME NEW j \in 1 .. Len(new)
      PROVE  new[j].slot # s
    <2> DEFINE n == IF j < i THEN j ELSE j + 1
    <2>1. n \in 1 .. Len(post) /\ n # i /\ new[j] = post[n]
        BY <1>1
    <2> HIDE DEF n
    <2>2. post[n].slot \in Nat /\ s \in Nat /\ (post[n].slot < s \/ s < post[n].slot)
        BY <2>1, <1>2 DEF Sorted
    <2> QED BY <2>1, <2>2
<1> QED BY <1>1, <1>3, <1>4, <1>5 DEF new

\* What posting_insert does to it.
LEMMA PostingInserted ==
    ASSUME NEW post \in Seq(Posting), Sorted(post), NEW s \in Slots,
           NEW i \in 1 .. Len(post) + 1, Bound(post, s, i), ~IsAt(post, s, i)
    PROVE  LET new == InsertAt(post, i, [slot |-> s, tf |-> 1])
           IN /\ new \in Seq(Posting) /\ Sorted(new)
              /\ SameButFor(post, new, s)
              /\ \A j \in 1 .. Len(post) : post[j].slot # s
              /\ \E j \in 1 .. Len(new) : new[j].slot = s
              /\ \A j \in 1 .. Len(new) : new[j].slot = s => new[j].tf = 1
<1> DEFINE p == [slot |-> s, tf |-> 1]
           new == InsertAt(post, i, p)
<1>0. p \in Posting /\ p.slot = s /\ p.tf = 1
    BY DEF Posting
<1> HIDE DEF p
<1>1. /\ new \in Seq(Posting) /\ Len(new) = Len(post) + 1
      /\ \A j \in 1 .. Len(post) + 1 :
             new[j] = IF j < i THEN post[j] ELSE IF j = i THEN p ELSE post[j - 1]
    BY <1>0, InsertElems
<1> HIDE DEF new
<1>2. /\ \A j \in 1 .. Len(post) : post[j].slot \in Nat
      /\ s \in Nat
    BY PostingTypes, IndexAssumption
<1>3. \A j \in 1 .. Len(post) : IF j < i THEN post[j].slot < s ELSE post[j].slot > s
    <2>1. \A j \in 1 .. Len(post) : j < i => post[j].slot < s
        BY <1>2 DEF Bound
    <2>2. \A j \in 1 .. Len(post) : j >= i => post[j].slot >= s
        BY <1>2 DEF Bound
    <2>3. i <= Len(post) => post[i].slot # s
        BY DEF IsAt
    <2>4. i <= Len(post) => \A j \in 1 .. Len(post) : j > i => post[i].slot < post[j].slot
        BY DEF Sorted
    <2> QED BY <1>2, <2>1, <2>2, <2>3, <2>4
<1>4. Sorted(new)
    <2> SUFFICES ASSUME NEW a \in 1 .. Len(new), NEW b \in 1 .. Len(new), a < b
                 PROVE  new[a].slot < new[b].slot
        BY DEF Sorted
    <2>1. CASE a = i
        BY <2>1, <1>0, <1>1, <1>2, <1>3
    <2>2. CASE b = i
        BY <2>2, <1>0, <1>1, <1>2, <1>3
    <2>3. CASE a # i /\ b # i
        <3> DEFINE n == IF a < i THEN a ELSE a - 1
                   m == IF b < i THEN b ELSE b - 1
        <3>1. n \in 1 .. Len(post) /\ m \in 1 .. Len(post) /\ n < m
            BY <2>3, <1>1
        <3>2. new[a] = post[n] /\ new[b] = post[m]
            BY <2>3, <1>1
        <3> HIDE DEF n, m
        <3> QED BY <3>1, <3>2 DEF Sorted
    <2> QED BY <2>1, <2>2, <2>3
<1>5. SameButFor(post, new, s)
    <2>1. ASSUME NEW j \in 1 .. Len(post)
          PROVE  \E n \in 1 .. Len(new) : new[n] = post[j]
        <3>1. CASE j < i
            <4>1. j \in 1 .. Len(new) /\ new[j] = post[j]
                BY <3>1, <1>1
            <4> QED BY <4>1
        <3>2. CASE j >= i
            <4>1. j + 1 \in 1 .. Len(new) /\ new[j + 1] = post[j]
                BY <3>2, <1>1
            <4> QED BY <4>1
        <3> QED BY <3>1, <3>2
    <2>2. ASSUME NEW j \in 1 .. Len(new), new[j].slot # s
          PROVE  \E n \in 1 .. Len(post) : post[n] = new[j]
        <3>1. j # i
            BY <2>2, <1>0, <1>1
        <3>2. CASE j < i
            <4>1. j \in 1 .. Len(post) /\ new[j] = post[j]
                BY <3>2, <1>1
            <4> QED BY <4>1
        <3>3. CASE j > i
            <4>1. j - 1 \in 1 .. Len(post) /\ new[j] = post[j - 1]
                BY <3>3, <1>1
            <4> QED BY <4>1
        <3> QED BY <3>1, <3>2, <3>3
    <2> QED BY <2>1, <2>2 DEF SameButFor
<1>6. \A j \in 1 .. Len(post) : post[j].slot # s
    BY <1>2, <1>3
<1>7. i \in 1 .. Len(new) /\ new[i] = p
    BY <1>1
<1>8. \A j \in 1 .. Len(new) : new[j].slot = s => new[j].tf = 1
    <2> SUFFICES ASSUME NEW j \in 1 .. Len(new), j # i
                 PROVE  new[j].slot # s
        BY <1>0, <1>7
    <2>1. CASE j < i
        BY <2>1, <1>1, <1>6
    <2>2. CASE j > i
        <3>1. j - 1 \in 1 .. Len(post) /\ new[j] = post[j - 1]
            BY <2>2, <1>1
        <3> QED BY <3>1, <1>6
    <2> QED BY <2>1, <2>2
<1> QED BY <1>0, <1>1, <1>4, <1>5, <1>6, <1>7, <1>8 DEF new, p

\* A binary search that does not end at a posting of the slot shows that there
\* is none.
LEMMA NotThere ==
    ASSUME NEW post \in Seq(Posting), Sorted(post), NEW s \in Slots,
           NEW i \in 1 .. Len(post) + 1, Bound(post, s, i), ~IsAt(post, s, i)
    PROVE  \A j \in 1 .. Len(post) : post[j].slot # s
<1> QED BY PostingInserted

\* A posting that counts one more.
LEMMA PostingBumped ==
    ASSUME NEW post \in Seq(Posting), Sorted(post), NEW s \in Slots,
           NEW i \in 1 .. Len(post), post[i].slot = s
    PROVE  LET new == [post EXCEPT ![i].tf = @ + 1]
           IN /\ new \in Seq(Posting) /\ Sorted(new)
              /\ SameButFor(post, new, s)
              /\ \E j \in 1 .. Len(new) : new[j].slot = s
              /\ \A j \in 1 .. Len(new) : new[j].slot = s => new[j].tf = post[i].tf + 1
<1> DEFINE new == [post EXCEPT ![i].tf = @ + 1]
<1>1. \A j \in 1 .. Len(post) :
          /\ post[j] = [slot |-> post[j].slot, tf |-> post[j].tf]
          /\ post[j].slot \in Nat /\ post[j].tf \in Nat
    BY PostingTypes
<1> DEFINE tf == post[i].tf
<1>a. tf \in Nat /\ post[i] = [slot |-> s, tf |-> tf]
    BY <1>1
<1> HIDE DEF tf
<1>2. [post[i] EXCEPT !.tf = @ + 1] = [slot |-> s, tf |-> tf + 1]
    BY <1>a
<1>3. [slot |-> s, tf |-> tf + 1] \in Posting
    BY <1>a DEF Posting
<1>b. tf = post[i].tf
    BY DEF tf
<1>4. /\ new \in Seq(Posting) /\ Len(new) = Len(post)
      /\ new[i] = [slot |-> s, tf |-> tf + 1]
      /\ \A j \in 1 .. Len(post) : j # i => new[j] = post[j]
    BY <1>2, <1>3
<1> HIDE DEF new
<1>5. new[i].slot = s /\ new[i].tf = post[i].tf + 1
    BY <1>4, <1>b
<1>6. \A j \in 1 .. Len(post) : new[j].slot = post[j].slot
    BY <1>4, <1>5
<1>7. Sorted(new)
    BY <1>4, <1>6 DEF Sorted
<1>8. SameButFor(post, new, s)
    BY <1>4, <1>5 DEF SameButFor
<1>9. ASSUME NEW j \in 1 .. Len(new), new[j].slot = s
      PROVE  j = i
    <2>1. j \in 1 .. Len(post) /\ post[j].slot = s
        BY <1>4, <1>6, <1>9
    <2>2. s \in Nat
        BY <1>1
    <2>3. ~(j < i) /\ ~(i < j)
        BY <2>1, <2>2 DEF Sorted
    <2> QED BY <2>1, <2>3
<1>c. \E j \in 1 .. Len(new) : new[j].slot = s
    BY <1>4, <1>5
<1>d. \A j \in 1 .. Len(new) : new[j].slot = s => new[j].tf = post[i].tf + 1
    BY <1>5, <1>9
<1>e. new \in Seq(Posting)
    BY <1>4
<1> QED BY <1>e, <1>7, <1>8, <1>c, <1>d DEF new

-----------------------------------------------------------------------------
\* A probe ends at the one cell of its term.
LEMMA EndsAtTerm ==
    ASSUME TypeOK, TableOf(entries, cap), NEW term \in Terms,
           NEW k \in Cells(cap), Ends(term, k)
    PROVE  /\ Cell(cap, term, k) \in Cells(cap)
           /\ entries[Cell(cap, term, k)].term \in {None, term}
           /\ \A y \in Cells(cap) : entries[y].term = term => y = Cell(cap, term, k)
<1>1. cap \in Nat \ {0} /\ k \in Nat
    BY DEF TypeOK, Cells
<1>2. Cell(cap, term, k) \in Cells(cap)
    BY <1>1, CellIn
<1>3. ASSUME NEW y \in Cells(cap), entries[y].term = term
      PROVE  y = Cell(cap, term, k)
    <2>1. term # None
        BY IndexAssumption
    <2>2. PICK n \in Cells(cap) :
              /\ Cell(cap, term, n) = y
              /\ \A j \in 0 .. n - 1 : entries[Cell(cap, term, j)].term \notin {None, term}
        BY <1>3, <2>1 DEF TableOf, Reached
    <2>3. n \in Nat
        BY <1>1 DEF Cells
    <2>4. ~(n < k)
        BY <1>3, <1>1, <2>2, <2>3 DEF Ends
    <2>5. ~(k < n)
        BY <1>1, <2>2, <2>3 DEF Ends
    <2> QED BY <1>1, <2>2, <2>3, <2>4, <2>5
<1> QED BY <1>2, <1>3 DEF Ends

\* What AddAgain and AddFirst have in common: the array of cell x becomes new.
Turn(x, new, k) ==
    LET s == task.slot
        old == entries[x].post
        had == \E n \in 1 .. Len(old) : old[n].slot = s
    IN /\ Adding /\ s \in Slots /\ Token \in Terms
       /\ k \in Cells(cap) /\ Ends(Token, k) /\ x = Cell(cap, Token, k)
       /\ entries[x].term \in {None, Token}
       /\ \A y \in Cells(cap) : entries[y].term = Token => y = x
       /\ Counted(x, new)
       /\ new \in Seq(Posting) /\ Sorted(new) /\ SameButFor(old, new, s)
       /\ \E j \in 1 .. Len(new) : new[j].slot = s
       /\ \A j \in 1 .. Len(new) : new[j].slot = s =>
              IF had THEN \E n \in 1 .. Len(old) : old[n].slot = s /\ new[j].tf = old[n].tf + 1
              ELSE new[j].tf = 1
       /\ IF had THEN refs' = refs
          ELSE \E i \in Nat \ {0} :
                   refs' = [refs EXCEPT ![s] = Append(@, [term |-> x, at |-> i])]

LEMMA TokenIn ==
    ASSUME TypeOK, Adding
    PROVE  Token \in Terms /\ task.slot \in Slots /\ task.at \in Nat
<1>1. task.text \in Seq(Terms) /\ task.at \in Nat /\ task.op = "add"
    BY DEF TypeOK, Adding
<1>2. task.at + 1 \in 1 .. Len(task.text)
    BY <1>1 DEF Adding
<1>3. task.text[task.at + 1] \in Terms
    BY <1>1, <1>2
<1>4. task.slot \in Slots
    BY <1>1 DEF TypeOK
<1> QED BY <1>1, <1>3, <1>4 DEF Token

LEMMA CellTypes ==
    ASSUME TypeOK, NEW x \in Cells(cap)
    PROVE  /\ entries[x] = [term |-> entries[x].term, post |-> entries[x].post]
           /\ entries[x].term \in Terms \cup {None} /\ entries[x].post \in Seq(Posting)
<1>1. entries[x] \in Entry
    BY DEF TypeOK
<1> QED BY <1>1 DEF Entry

LEMMA TurnAgain ==
    ASSUME IInv, NEW k \in Cells(cap), NEW i, AddAgain(k, i)
    PROVE  \E x \in Cells(cap), new \in Seq(Posting) : Turn(x, new, k)
<1> DEFINE x == Cell(cap, Token, k)
           old == entries[x].post
           new == [old EXCEPT ![i].tf = @ + 1]
           s == task.slot
<1>1. TypeOK /\ TableOf(entries, cap) /\ Adding /\ Ends(Token, k)
    BY DEF IInv, AddAgain
<1>2. Token \in Terms /\ s \in Slots
    BY <1>1, TokenIn
<1>3. /\ x \in Cells(cap) /\ entries[x].term \in {None, Token}
      /\ \A y \in Cells(cap) : entries[y].term = Token => y = x
    BY <1>1, <1>2, EndsAtTerm
<1>4. old \in Seq(Posting) /\ Sorted(old)
    BY <1>1, <1>3, CellTypes DEF TableOf
<1>5. i \in 1 .. Len(old) /\ old[i].slot = s /\ Counted(x, new) /\ refs' = refs
    BY DEF AddAgain, IsAt
<1> HIDE DEF x, old, s
<1>6. /\ new \in Seq(Posting) /\ Sorted(new)
      /\ SameButFor(old, new, s)
      /\ \E j \in 1 .. Len(new) : new[j].slot = s
      /\ \A j \in 1 .. Len(new) : new[j].slot = s => new[j].tf = old[i].tf + 1
    BY <1>2, <1>4, <1>5, PostingBumped
<1> HIDE DEF new
<1>7. Turn(x, new, k)
    BY <1>1, <1>2, <1>3, <1>5, <1>6 DEF Turn, x, old, s
<1> QED BY <1>3, <1>6, <1>7

LEMMA TurnFirst ==
    ASSUME IInv, NEW k \in Cells(cap), NEW i, AddFirst(k, i)
    PROVE  \E x \in Cells(cap), new \in Seq(Posting) : Turn(x, new, k)
<1> DEFINE x == Cell(cap, Token, k)
           old == entries[x].post
           s == task.slot
           new == InsertAt(old, i, [slot |-> s, tf |-> 1])
<1>1. TypeOK /\ TableOf(entries, cap) /\ Adding /\ Ends(Token, k)
    BY DEF IInv, AddFirst
<1>2. Token \in Terms /\ s \in Slots
    BY <1>1, TokenIn
<1>3. /\ x \in Cells(cap) /\ entries[x].term \in {None, Token}
      /\ \A y \in Cells(cap) : entries[y].term = Token => y = x
    BY <1>1, <1>2, EndsAtTerm
<1>4. old \in Seq(Posting) /\ Sorted(old)
    BY <1>1, <1>3, CellTypes DEF TableOf
<1>5. /\ i \in 1 .. Len(old) + 1 /\ Bound(old, s, i) /\ ~IsAt(old, s, i)
      /\ Counted(x, new)
      /\ refs' = [refs EXCEPT ![s] = Append(@, [term |-> x, at |-> i])]
    BY DEF AddFirst
<1>8. i \in Nat \ {0}
    BY <1>4, <1>5
<1> HIDE DEF x, old, s
<1>6. /\ new \in Seq(Posting) /\ Sorted(new)
      /\ SameButFor(old, new, s)
      /\ \A j \in 1 .. Len(old) : old[j].slot # s
      /\ \E j \in 1 .. Len(new) : new[j].slot = s
      /\ \A j \in 1 .. Len(new) : new[j].slot = s => new[j].tf = 1
    BY <1>2, <1>4, <1>5, PostingInserted
<1> HIDE DEF new
<1>7. Turn(x, new, k)
    BY <1>1, <1>2, <1>3, <1>5, <1>6, <1>8 DEF Turn, x, old, s
<1> QED BY <1>3, <1>6, <1>7

LEMMA FrontElems ==
    ASSUME NEW S, NEW q \in Seq(S), q # <<>>
    PROVE  /\ Len(q) \in Nat \ {0} /\ Last(q) = q[Len(q)] /\ q[Len(q)] \in S
           /\ Front(q) \in Seq(S) /\ Len(Front(q)) = Len(q) - 1
           /\ \A n \in 1 .. Len(q) - 1 : Front(q)[n] = q[n]
<1>1. Len(q) \in Nat \ {0}
    OBVIOUS
<1>2. Last(q) = q[Len(q)] /\ q[Len(q)] \in S
    BY <1>1 DEF Last
<1> DEFINE r == SubSeq(q, 1, Len(q) - 1)
<1> DEFINE m == Len(q) - 1
<1>5. m \in Nat /\ m <= Len(q)
    BY <1>1
<1>6. SubSeq(q, 1, m) \in Seq(S) /\ Len(SubSeq(q, 1, m)) = m
    <2>1. 1 \in Int /\ m \in Int /\ 1 \in 1 .. Len(q) + 1 /\ m \in 0 .. Len(q)
        BY <1>5
    <2>2. SubSeq(q, 1, m) \in Seq(S)
        BY <2>1
    <2> HIDE DEF m
    <2>3. Len(SubSeq(q, 1, m)) = m
        <3>1. CASE m = 0
            BY <3>1
        <3>2. CASE m # 0
            BY <3>2, <1>5
        <3> QED BY <3>1, <3>2
    <2> QED BY <2>2, <2>3
<1>7. \A n \in 1 .. m : SubSeq(q, 1, m)[n] = q[n]
    BY <1>5
<1>3. r \in Seq(S) /\ Len(r) = Len(q) - 1 /\ \A n \in 1 .. Len(q) - 1 : r[n] = q[n]
    BY <1>6, <1>7
<1>4. Front(q) = r
    BY DEF Front
<1> QED BY <1>1, <1>2, <1>3, <1>4

\* What RemoveRef does: the array of cell x becomes new.
Cut(x, new) ==
    LET s == task.slot
        old == entries[x].post
    IN /\ task.op = "remove" /\ s \in Slots
       /\ Len(refs[s]) \in Nat \ {0} /\ x = refs[s][Len(refs[s])].term
       /\ entries' = [entries EXCEPT ![x] = [term |-> entries[x].term, post |-> new]]
       /\ new \in Seq(Posting) /\ Sorted(new) /\ SameButFor(old, new, s)
       /\ \A j \in 1 .. Len(new) : new[j].slot # s
       /\ old = <<>> => new = <<>>
       /\ refs' = [refs EXCEPT ![s] = Front(@)]
       /\ UNCHANGED <<cap, count, totals, task, grown, history>>

LEMMA CutRef ==
    ASSUME IInv, NEW i, RemoveRef(i)
    PROVE  \E x \in Cells(cap), new \in Seq(Posting) : Cut(x, new)
<1> DEFINE s == task.slot
           ref == Last(refs[s])
           x == ref.term
           old == entries[x].post
<1>1. TypeOK /\ TableOf(entries, cap) /\ RefInv
    BY DEF IInv
<1>2. s \in Slots /\ refs[s] # <<>> /\ refs[s] \in Seq(Ref)
    BY <1>1 DEF RemoveRef, TypeOK
<1>3. ref = refs[s][Len(refs[s])] /\ Len(refs[s]) \in Nat \ {0} /\ ref \in Ref
    BY <1>2, FrontElems
<1>4. x \in Cells(cap)
    BY <1>1, <1>2, <1>3 DEF RefInv
<1>5. /\ old \in Seq(Posting) /\ Sorted(old)
      /\ entries[x] = [term |-> entries[x].term, post |-> old]
    BY <1>1, <1>4, CellTypes DEF TableOf
<1>6. /\ i \in 1 .. Len(old) + 1 /\ Sought(old, s, ref.at, i)
      /\ entries' = IF IsAt(old, s, i)
                    THEN [entries EXCEPT ![x].post = RemoveAt(old, i)] ELSE entries
      /\ refs' = [refs EXCEPT ![s] = Front(@)]
      /\ task.op = "remove"
      /\ UNCHANGED <<cap, count, totals, task, grown, history>>
    BY DEF RemoveRef
<1>7. CASE IsAt(old, s, i)
    <2> DEFINE new == RemoveAt(old, i)
    <2>1. i \in 1 .. Len(old) /\ old[i].slot = s
        BY <1>5, <1>6, <1>7 DEF IsAt
    <2>2. /\ new \in Seq(Posting) /\ Sorted(new) /\ SameButFor(old, new, s)
          /\ \A j \in 1 .. Len(new) : new[j].slot # s
        BY <1>2, <1>5, <2>1, PostingRemoved
    <2>3. old # <<>>
        BY <2>1
    <2> HIDE DEF new
    <2>4. [entries[x] EXCEPT !.post = new] = [term |-> entries[x].term, post |-> new]
        BY <1>5
    <2>5. entries' = [entries EXCEPT ![x] = [term |-> entries[x].term, post |-> new]]
        BY <1>6, <1>7, <2>4 DEF new
    <2>6. Cut(x, new)
        BY <1>2, <1>3, <1>6, <2>2, <2>3, <2>5 DEF Cut
    <2> QED BY <1>4, <2>2, <2>6
<1>8. CASE ~IsAt(old, s, i)
    <2>1. Bound(old, s, i) /\ ~IsAt(old, s, ref.at)
        BY <1>6, <1>8 DEF Sought
    <2>2. \A j \in 1 .. Len(old) : old[j].slot # s
        BY <1>2, <1>5, <1>6, <1>8, <2>1, NotThere
    <2>3. entries' = [entries EXCEPT ![x] = [term |-> entries[x].term, post |-> old]]
        <3>1. entries' = entries /\ entries \in [Cells(cap) -> Entry]
            BY <1>1, <1>6, <1>8 DEF TypeOK
        <3> QED BY <3>1, <1>4, <1>5
    <2>4. SameButFor(old, old, s)
        BY DEF SameButFor
    <2>5. Cut(x, old)
        BY <1>2, <1>3, <1>5, <1>6, <2>2, <2>3, <2>4 DEF Cut
    <2> QED BY <1>4, <1>5, <2>5
<1> QED BY <1>7, <1>8

-----------------------------------------------------------------------------
LEMMA InitInv == Init => IInv
<1> SUFFICES ASSUME Init PROVE IInv
    OBVIOUS
<1>0. Cells(0) = {} /\ cap = 0
    BY DEF Cells, Init
<1>1. TypeOK
    <2>1. entries \in [Cells(cap) -> Entry] /\ grown.entries \in [Cells(grown.cap) -> Entry]
        BY <1>0 DEF Init, NoTable
    <2>2. refs \in [Slots -> Seq(Ref)] /\ texts \in [Slots -> Seq(Terms)]
        BY DEF Init
    <2>3. task = NoTask /\ NoTask \in [op : {"none", "remove", "add", "grow"}, slot : Nat,
                                       text : Seq(Terms), at : Nat]
        BY DEF Init, NoTask
    <2>4. task.op = "none" /\ task.at <= Len(task.text)
        BY <2>3 DEF NoTask
    <2>5. /\ grown.cap \in Nat /\ grown.from \in Nat
          /\ grown = [cap |-> grown.cap, entries |-> grown.entries, from |-> grown.from]
        BY DEF Init, NoTable
    <2>6. cap \in Nat /\ count \in Nat /\ doclen \in [Slots -> Nat]
        BY DEF Init
    <2>7. nDocs \in Nat /\ totalLen \in Int
        BY DEF Init
    <2>8. moved \in BOOLEAN
        BY DEF Init
    <2> QED BY <2>1, <2>2, <2>3, <2>4, <2>5, <2>6, <2>7, <2>8 DEF TypeOK
<1>2. TableOf(entries, cap)
    BY <1>0 DEF TableOf
<1>3. \A s \in Slots : refs[s] = <<>> /\ texts[s] = <<>> /\ doclen[s] = 0
    BY DEF Init
<1>4. RefInv /\ PostInv
    BY <1>3 DEF RefInv, PostInv
<1>5. GrowInv /\ ExactInv
    BY <1>0 DEF GrowInv, ExactInv, Init, NoTask
<1>6. TotalsInv
    <2>1. task.op = "none" /\ nDocs = 0 /\ totalLen = 0
        BY DEF Init, NoTask
    <2>2. {s \in Slots : doclen[s] > 0} = {} /\ Words(doclen) = {}
        BY <1>3 DEF Words
    <2>3. Cardinality({}) = 0
        BY FS_EmptySet
    <2> QED BY <1>3, <2>1, <2>2, <2>3 DEF TotalsInv, LenOf, SumsOf
<1> QED BY <1>1, <1>2, <1>4, <1>5, <1>6 DEF IInv

\* A turn leads to cells and references of the right type.
LEMMA TurnTypes ==
    ASSUME TypeOK, NEW x \in Cells(cap), NEW new \in Seq(Posting), NEW k,
           Turn(x, new, k)
    PROVE  TypeOK'
<1>1. /\ task \in [op : {"none", "remove", "add", "grow"}, slot : Nat,
                   text : Seq(Terms), at : Nat]
      /\ task.op = "add" /\ task.at < Len(task.text)
      /\ task.slot \in Slots /\ Token \in Terms
    BY DEF TypeOK, Turn, Adding
<1>2. /\ entries' = [entries EXCEPT ![x] = [term |-> Token, post |-> new]]
      /\ count' = IF entries[x].term = None THEN count + 1 ELSE count
      /\ task' = [task EXCEPT !.at = @ + 1]
      /\ texts' = [texts EXCEPT ![task.slot] = Append(@, Token)]
      /\ UNCHANGED <<cap, totals, grown, moved>>
    BY DEF Turn, Counted
<1>3. entries' \in [Cells(cap) -> Entry]
    <2>1. [term |-> Token, post |-> new] \in Entry
        BY <1>1 DEF Entry
    <2> QED BY <1>2, <2>1 DEF TypeOK
<1>4. refs' \in [Slots -> Seq(Ref)]
    <2>1. x \in Nat
        BY DEF Cells, TypeOK
    <2>2. ASSUME NEW i \in Nat \ {0},
                 refs' = [refs EXCEPT ![task.slot] = Append(@, [term |-> x, at |-> i])]
          PROVE  refs' \in [Slots -> Seq(Ref)]
        <3>1. [term |-> x, at |-> i] \in Ref
            BY <2>1 DEF Ref
        <3>2. refs[task.slot] \in Seq(Ref)
            BY <1>1 DEF TypeOK
        <3>3. Append(refs[task.slot], [term |-> x, at |-> i]) \in Seq(Ref)
            BY <3>1, <3>2
        <3> QED BY <2>2, <3>3, <1>1 DEF TypeOK
    <2>3. refs \in [Slots -> Seq(Ref)]
        BY DEF TypeOK
    <2> QED BY <2>2, <2>3 DEF Turn
<1>5. texts' \in [Slots -> Seq(Terms)]
    <2>1. texts[task.slot] \in Seq(Terms)
        BY <1>1 DEF TypeOK
    <2>2. Append(texts[task.slot], Token) \in Seq(Terms)
        BY <1>1, <2>1
    <2> QED BY <1>2, <2>2 DEF TypeOK
<1>6. /\ task' \in [op : {"none", "remove", "add", "grow"}, slot : Nat,
                    text : Seq(Terms), at : Nat]
      /\ task'.op = "add" /\ task'.slot = task.slot /\ task'.at <= Len(task'.text)
    BY <1>1, <1>2
<1>7. count' \in Nat
    BY <1>2 DEF TypeOK
<1>8. /\ cap' = cap /\ doclen' = doclen /\ nDocs' = nDocs /\ totalLen' = totalLen
      /\ grown' = grown /\ moved' = moved
    BY <1>2 DEF totals
<1> QED BY <1>1, <1>3, <1>4, <1>5, <1>6, <1>7, <1>8 DEF TypeOK

LEMMA CutTypes ==
    ASSUME TypeOK, NEW x \in Cells(cap), NEW new \in Seq(Posting), Cut(x, new)
    PROVE  TypeOK'
<1>1. /\ task.slot \in Slots
      /\ entries' = [entries EXCEPT ![x] = [term |-> entries[x].term, post |-> new]]
      /\ refs' = [refs EXCEPT ![task.slot] = Front(@)]
      /\ refs[task.slot] # <<>>
      /\ UNCHANGED <<cap, count, totals, task, grown, history>>
    BY DEF Cut
<1>2. entries' \in [Cells(cap) -> Entry]
    <2>1. [term |-> entries[x].term, post |-> new] \in Entry
        BY CellTypes DEF Entry
    <2> QED BY <1>1, <2>1 DEF TypeOK
<1>3. refs' \in [Slots -> Seq(Ref)]
    <2>1. refs[task.slot] \in Seq(Ref)
        BY <1>1 DEF TypeOK
    <2>2. Front(refs[task.slot]) \in Seq(Ref)
        BY <1>1, <2>1, FrontElems
    <2> QED BY <1>1, <2>2 DEF TypeOK
<1> QED BY <1>1, <1>2, <1>3 DEF TypeOK, totals, history

TaskType == [op : {"none", "remove", "add", "grow"}, slot : Nat,
             text : Seq(Terms), at : Nat]

LEMMA TypeStep ==
    ASSUME IInv, Next
    PROVE  TypeOK'
<1>1. TypeOK /\ task \in TaskType
    BY DEF IInv, TypeOK, TaskType
<1>s. \A s \in Slots : s \in Nat
    BY IndexAssumption
<1>2. ASSUME NEW s \in Slots, NEW text \in Texts, Add(s, text)
      PROVE  TypeOK'
    <2>0. text \in Seq(Terms)
        BY IndexAssumption
    <2>1. /\ task' \in TaskType /\ task'.at <= Len(task'.text)
          /\ IF task'.op = "none" THEN task' = NoTask ELSE task'.slot \in Slots
        <3>1. CASE task' = NoTask
            BY <3>1, <1>1, <1>2 DEF NoTask, TaskType, Add
        <3>2. CASE \E op \in {"remove", "add"} :
                       task' = [op |-> op, slot |-> s, text |-> text, at |-> 0]
            BY <3>2, <2>0, <1>s DEF TaskType
        <3> QED BY <1>2, <3>1, <3>2 DEF Add
    <2>2. texts' \in [Slots -> Seq(Terms)]
        <3>1. <<>> \in Seq(Terms)
            OBVIOUS
        <3> QED BY <1>1, <1>2, <3>1 DEF Add, TypeOK
    <2>3. UNCHANGED <<table, refs, totals, grown, moved>>
        BY <1>2 DEF Add
    <2> QED BY <1>1, <2>1, <2>2, <2>3 DEF TypeOK, TaskType, table, totals
<1>3. ASSUME NEW s \in Slots, RemoveDoc(s)
      PROVE  TypeOK'
    <2>1. task' = [op |-> "remove", slot |-> s, text |-> <<>>, at |-> 0]
        BY <1>3 DEF RemoveDoc
    <2>2. /\ task' \in TaskType /\ task'.at <= Len(task'.text)
          /\ task'.op = "remove" /\ task'.slot \in Slots
        BY <2>1, <1>s DEF TaskType
    <2>3. texts' \in [Slots -> Seq(Terms)]
        <3>1. <<>> \in Seq(Terms)
            OBVIOUS
        <3> QED BY <1>1, <1>3, <3>1 DEF RemoveDoc, TypeOK
    <2>4. UNCHANGED <<table, refs, totals, grown, moved>>
        BY <1>3 DEF RemoveDoc
    <2> QED BY <1>1, <2>2, <2>3, <2>4 DEF TypeOK, TaskType, table, totals
<1>4. ASSUME NEW i, RemoveRef(i)
      PROVE  TypeOK'
    BY <1>1, <1>4, CutRef, CutTypes
<1>5. CASE RemoveDone
    <2>1. task.op = "remove" /\ task.slot \in Slots
        BY <1>1, <1>5 DEF RemoveDone, TypeOK
    <2>2. /\ task' \in TaskType /\ task'.at <= Len(task'.text)
          /\ IF task'.op = "none" THEN task' = NoTask ELSE task'.slot \in Slots
        <3>1. CASE task' = NoTask
            BY <3>1, <1>1 DEF NoTask, TaskType
        <3>2. CASE task' = [task EXCEPT !.op = "add"]
            BY <3>2, <1>1, <2>1 DEF TaskType, TypeOK
        <3> QED BY <1>5, <3>1, <3>2 DEF RemoveDone
    <2>3. doclen' \in [Slots -> Nat] /\ nDocs' \in Nat /\ totalLen' \in Int
        <3>1. doclen \in [Slots -> Nat] /\ nDocs \in Nat /\ totalLen \in Int
            BY <1>1 DEF TypeOK
        <3> QED BY <1>5, <2>1, <3>1 DEF RemoveDone
    <2>4. UNCHANGED <<table, refs, grown, history>>
        BY <1>5 DEF RemoveDone
    <2> QED BY <1>1, <2>2, <2>3, <2>4 DEF TypeOK, TaskType, table, history
<1>6. CASE GrowStart
    <2> DEFINE ncap == IF cap = 0 THEN InitialCap ELSE 2 * cap
    <2>1. grown' = [cap |-> ncap, from |-> 0, entries |-> [c \in Cells(ncap) |-> Empty]]
        BY <1>6 DEF GrowStart
    <2>2. ncap \in Nat
        BY <1>1, IndexAssumption DEF TypeOK
    <2> HIDE DEF ncap
    <2>3. Empty \in Entry
        BY DEF Empty, Entry
    <2>4. /\ grown'.cap \in Nat /\ grown'.from \in Nat
          /\ grown'.entries \in [Cells(grown'.cap) -> Entry]
          /\ grown' = [cap |-> grown'.cap, entries |-> grown'.entries, from |-> grown'.from]
        BY <2>1, <2>2, <2>3
    <2>5. /\ task' \in TaskType /\ task'.at <= Len(task'.text)
          /\ task'.op = "grow" /\ task'.slot \in Slots
        BY <1>1, <1>6 DEF GrowStart, Adding, TypeOK, TaskType
    <2>6. moved' \in BOOLEAN
        BY <1>1, <1>6 DEF GrowStart, TypeOK
    <2>7. UNCHANGED <<table, refs, totals, texts>>
        BY <1>6 DEF GrowStart
    <2> QED BY <1>1, <2>4, <2>5, <2>6, <2>7 DEF TypeOK, TaskType, table, totals
<1>7. CASE GrowSkip
    <2>1. /\ grown = [cap |-> grown.cap, entries |-> grown.entries, from |-> grown.from]
          /\ grown.from \in Nat
        BY <1>1 DEF TypeOK
    <2>2. grown' = [cap |-> grown.cap, entries |-> grown.entries, from |-> grown.from + 1]
        BY <1>7, <2>1 DEF GrowSkip
    <2>3. UNCHANGED <<table, refs, totals, task, history>>
        BY <1>7 DEF GrowSkip
    <2>4. grown'.cap = grown.cap /\ grown'.entries = grown.entries /\ grown'.from \in Nat
        BY <2>1, <2>2
    <2> QED BY <1>1, <2>2, <2>3, <2>4 DEF TypeOK, table, totals, history
<1>8. ASSUME NEW k \in Cells(grown.cap), GrowMove(k)
      PROVE  TypeOK'
    <2> DEFINE old == entries[grown.from]
               ne == [grown.entries EXCEPT ![Cell(grown.cap, old.term, k)] = old]
    <2>1. /\ grown = [cap |-> grown.cap, entries |-> grown.entries, from |-> grown.from]
          /\ grown.from \in Nat /\ grown.cap \in Nat
        BY <1>1 DEF TypeOK
    <2>2. grown' = [cap |-> grown.cap, entries |-> ne, from |-> grown.from + 1]
        BY <1>8, <2>1 DEF GrowMove
    <2>3. ne \in [Cells(grown.cap) -> Entry]
        <3>1. grown.from \in Cells(cap)
            BY <1>1, <1>8, <2>1 DEF GrowMove, Cells, TypeOK
        <3>2. old \in Entry
            BY <1>1, <3>1 DEF TypeOK
        <3> HIDE DEF old
        <3> QED BY <1>1, <3>2 DEF TypeOK
    <2> HIDE DEF ne
    <2>4. UNCHANGED <<table, refs, totals, task, history>>
        BY <1>8 DEF GrowMove
    <2>5. grown'.cap = grown.cap /\ grown'.entries = ne /\ grown'.from \in Nat
        BY <2>1, <2>2
    <2> QED BY <1>1, <2>2, <2>3, <2>4, <2>5 DEF TypeOK, table, totals, history
<1>9. CASE GrowDone
    <2>1. /\ grown'.cap \in Nat /\ grown'.from \in Nat
          /\ grown'.entries \in [Cells(grown'.cap) -> Entry]
          /\ grown' = [cap |-> grown'.cap, entries |-> grown'.entries, from |-> grown'.from]
        BY <1>9 DEF GrowDone, NoTable, Cells
    <2>2. cap' \in Nat /\ entries' \in [Cells(cap') -> Entry]
        BY <1>1, <1>9 DEF GrowDone, TypeOK
    <2>3. /\ task' \in TaskType /\ task'.at <= Len(task'.text)
          /\ task'.op = "add" /\ task'.slot \in Slots
        BY <1>1, <1>9 DEF GrowDone, TypeOK, TaskType
    <2>4. UNCHANGED <<count, refs, totals, history>>
        BY <1>9 DEF GrowDone
    <2> QED BY <1>1, <2>1, <2>2, <2>3, <2>4 DEF TypeOK, TaskType, totals, history
<1>10. ASSUME NEW k \in Cells(cap), NEW i, AddAgain(k, i) \/ AddFirst(k, i)
       PROVE  TypeOK'
    BY <1>1, <1>10, TurnAgain, TurnFirst, TurnTypes
<1>11. CASE AddDone
    <2>1. doclen' \in [Slots -> Nat] /\ nDocs' \in Nat /\ totalLen' \in Int
        <3>1. /\ doclen \in [Slots -> Nat] /\ nDocs \in Nat /\ totalLen \in Int
              /\ task.at \in Nat
            BY <1>1 DEF TypeOK
        <3>2. /\ doclen' = [doclen EXCEPT ![task.slot] = task.at]
              /\ nDocs' = nDocs + 1 /\ totalLen' = totalLen + task.at
            BY <1>11 DEF AddDone
        <3>3. doclen' \in [Slots -> Nat]
            BY <3>1, <3>2
        <3> QED BY <3>1, <3>2, <3>3
    <2>2. /\ task' \in TaskType /\ task'.at <= Len(task'.text)
          /\ task'.op = "none" /\ task' = NoTask
        BY <1>11 DEF AddDone, NoTask, TaskType
    <2>3. UNCHANGED <<table, refs, grown, history>>
        BY <1>11 DEF AddDone
    <2> QED BY <1>1, <2>1, <2>2, <2>3 DEF TypeOK, TaskType, table, history
<1> QED
    BY <1>2, <1>3, <1>4, <1>5, <1>6, <1>7, <1>8, <1>9, <1>10, <1>11 DEF Next

-----------------------------------------------------------------------------
\* An entry in the cell where the probe for its term ends keeps the table in
\* order.
LEMMA TablePut ==
    ASSUME NEW c \in Nat \ {0}, NEW e \in [Cells(c) -> Entry], TableOf(e, c),
           NEW x \in Cells(c), NEW t \in Terms, NEW post \in Seq(Posting), Sorted(post),
           NEW k \in Cells(c), x = Cell(c, t, k),
           e[x].term \in {None, t}, \A y \in Cells(c) : e[y].term = t => y = x,
           \A j \in 0 .. k - 1 : e[Cell(c, t, j)].term \notin {None, t}
    PROVE  TableOf([e EXCEPT ![x] = [term |-> t, post |-> post]], c)
<1> DEFINE f == [e EXCEPT ![x] = [term |-> t, post |-> post]]
<1>1. /\ f[x].term = t /\ f[x].post = post
      /\ \A y \in Cells(c) : y # x => f[y] = e[y]
    OBVIOUS
<1> HIDE DEF f
<1>2. t # None
    BY IndexAssumption
<1>3. \A y \in Cells(c) : e[y].term \in Terms \cup {None}
    BY DEF Entry
<1>4. ASSUME NEW y \in Cells(c), NEW z \in Cells(c), f[y].term = f[z].term, f[y].term # None
      PROVE  y = z
    BY <1>1, <1>4 DEF TableOf
<1>5. ASSUME NEW y \in Cells(c), f[y].term # None
      PROVE  Reached(f, c, y)
    <2>1. CASE y = x
        <3>1. ASSUME NEW j \in 0 .. k - 1
              PROVE  f[Cell(c, t, j)].term \notin {None, t}
            <4>1. j \in Nat
                OBVIOUS
            <4>2. Cell(c, t, j) \in Cells(c)
                BY <4>1, CellIn
            <4>3. Cell(c, t, j) # x
                BY <3>1
            <4> QED BY <3>1, <4>2, <4>3, <1>1
        <3> QED BY <2>1, <3>1, <1>1 DEF Reached
    <2>2. CASE y # x
        <3>1. f[y] = e[y] /\ e[y].term \in Terms
            BY <2>2, <1>1, <1>3, <1>5
        <3>2. PICK n \in Cells(c) :
                  /\ Cell(c, e[y].term, n) = y
                  /\ \A j \in 0 .. n - 1 : e[Cell(c, e[y].term, j)].term \notin {None, e[y].term}
            BY <3>1, <1>5 DEF TableOf, Reached
        <3>3. ASSUME NEW j \in 0 .. n - 1
              PROVE  f[Cell(c, e[y].term, j)].term \notin {None, e[y].term}
            <4>1. j \in Nat
                OBVIOUS
            <4>2. Cell(c, e[y].term, j) \in Cells(c)
                BY <3>1, <4>1, CellIn
            <4>3. CASE Cell(c, e[y].term, j) = x
                BY <4>3, <3>2, <1>1
            <4>4. CASE Cell(c, e[y].term, j) # x
                BY <4>2, <4>4, <3>2, <1>1
            <4> QED BY <4>3, <4>4
        <3> QED BY <3>1, <3>2, <3>3 DEF Reached
    <2> QED BY <2>1, <2>2
<1>6. ASSUME NEW y \in Cells(c)
      PROVE  Sorted(f[y].post) /\ (f[y].term = None => f[y].post = <<>>)
    BY <1>1, <1>2 DEF TableOf
<1>7. TableOf(f, c)
    BY <1>4, <1>5, <1>6 DEF TableOf
<1> QED BY <1>7 DEF f

LEMMA TableStep ==
    ASSUME IInv, Next
    PROVE  TableOf(entries, cap)'
<1>1. TypeOK /\ TableOf(entries, cap) /\ GrowInv
    BY DEF IInv
<1>2. ASSUME UNCHANGED <<cap, entries>>
      PROVE  TableOf(entries, cap)'
    BY <1>1, <1>2 DEF TableOf, Reached, Cell
<1>3. ASSUME NEW x \in Cells(cap), NEW new \in Seq(Posting), Cut(x, new)
      PROVE  TableOf(entries, cap)'
    <2>1. /\ cap' = cap
          /\ entries' = [entries EXCEPT ![x] = [term |-> entries[x].term, post |-> new]]
          /\ Sorted(new) /\ (entries[x].post = <<>> => new = <<>>)
        BY <1>3 DEF Cut
    <2>2. CASE entries[x].term = None
        <3>1. entries[x].post = <<>> /\ new = <<>>
            BY <2>1, <2>2, <1>1 DEF TableOf
        <3>2. entries[x] = [term |-> entries[x].term, post |-> new]
            BY <3>1, <1>1, CellTypes
        <3>3. entries' = entries
            BY <2>1, <3>2, <1>1 DEF TypeOK
        <3> QED BY <2>1, <3>3, <1>2
    <2>3. CASE entries[x].term # None
        <3>1. entries[x].term \in Terms /\ cap \in Nat \ {0}
            BY <2>3, <1>1, CellTypes DEF TypeOK, Cells
        <3>2. PICK k \in Cells(cap) :
                  /\ Cell(cap, entries[x].term, k) = x
                  /\ \A j \in 0 .. k - 1 :
                         entries[Cell(cap, entries[x].term, j)].term \notin {None, entries[x].term}
            BY <2>3, <1>1 DEF TableOf, Reached
        <3>3. \A y \in Cells(cap) : entries[y].term = entries[x].term => y = x
            BY <2>3, <1>1 DEF TableOf
        <3>4. entries \in [Cells(cap) -> Entry]
            BY <1>1 DEF TypeOK
        <3>5. TableOf([entries EXCEPT ![x] = [term |-> entries[x].term, post |-> new]], cap)
            BY <1>1, <2>1, <3>1, <3>2, <3>3, <3>4, TablePut
        <3> QED BY <2>1, <3>5 DEF TableOf, Reached, Cell
    <2> QED BY <2>2, <2>3
<1>4. ASSUME NEW x \in Cells(cap), NEW new \in Seq(Posting), NEW k, Turn(x, new, k)
      PROVE  TableOf(entries, cap)'
    <2>1. /\ cap' = cap /\ Token \in Terms
          /\ entries' = [entries EXCEPT ![x] = [term |-> Token, post |-> new]]
          /\ Sorted(new) /\ k \in Cells(cap) /\ x = Cell(cap, Token, k)
          /\ entries[x].term \in {None, Token}
          /\ \A y \in Cells(cap) : entries[y].term = Token => y = x
          /\ \A j \in 0 .. k - 1 : entries[Cell(cap, Token, j)].term \notin {None, Token}
        BY <1>4 DEF Turn, Counted, Ends
    <2>2. cap \in Nat \ {0} /\ entries \in [Cells(cap) -> Entry]
        BY <1>1 DEF TypeOK, Cells
    <2>3. TableOf([entries EXCEPT ![x] = [term |-> Token, post |-> new]], cap)
        BY <1>1, <2>1, <2>2, TablePut
    <2> QED BY <2>1, <2>3 DEF TableOf, Reached, Cell
<1>5. CASE GrowDone
    <2>1. cap' = grown.cap /\ entries' = grown.entries /\ TableOf(grown.entries, grown.cap)
        BY <1>1, <1>5 DEF GrowDone, GrowInv
    <2> QED BY <2>1 DEF TableOf, Reached, Cell
<1>6. ASSUME NEW i, RemoveRef(i)
      PROVE  TableOf(entries, cap)'
    BY <1>3, <1>6, CutRef
<1>7. ASSUME NEW k \in Cells(cap), NEW i, AddAgain(k, i) \/ AddFirst(k, i)
      PROVE  TableOf(entries, cap)'
    BY <1>4, <1>7, TurnAgain, TurnFirst
<1>8. ASSUME \/ \E s \in Slots : RemoveDoc(s) \/ \E text \in Texts : Add(s, text)
             \/ RemoveDone \/ GrowStart \/ GrowSkip
             \/ \E k \in Cells(grown.cap) : GrowMove(k)
             \/ AddDone
      PROVE  UNCHANGED <<cap, entries>>
    BY <1>8 DEF RemoveDoc, Add, RemoveDone, GrowStart, GrowSkip, GrowMove, AddDone, table
<1> QED BY <1>2, <1>5, <1>6, <1>7, <1>8 DEF Next

LEMMA RefStep ==
    ASSUME IInv, Next
    PROVE  RefInv'
<1>1. TypeOK /\ RefInv /\ GrowInv
    BY DEF IInv
<1>2. ASSUME UNCHANGED <<cap, refs>>
      PROVE  RefInv'
    BY <1>1, <1>2 DEF RefInv
<1>3. ASSUME NEW x \in Cells(cap), NEW new \in Seq(Posting), Cut(x, new)
      PROVE  RefInv'
    <2>1. /\ cap' = cap /\ task.slot \in Slots /\ refs[task.slot] # <<>>
          /\ refs' = [refs EXCEPT ![task.slot] = Front(@)]
          /\ refs \in [Slots -> Seq(Ref)]
        BY <1>1, <1>3 DEF Cut, TypeOK
    <2>2. ASSUME NEW s \in Slots, NEW n \in 1 .. Len(refs'[s])
          PROVE  refs'[s][n].term \in Cells(cap)
        <3>1. CASE s = task.slot
            <4>1. /\ refs'[s] = Front(refs[s])
                  /\ Len(Front(refs[s])) = Len(refs[s]) - 1 /\ Len(refs[s]) \in Nat
                  /\ \A m \in 1 .. Len(refs[s]) - 1 : Front(refs[s])[m] = refs[s][m]
                <5>1. refs[s] \in Seq(Ref) /\ refs[s] # <<>>
                    BY <2>1, <3>1
                <5>2. refs'[s] = Front(refs[s])
                    BY <2>1, <3>1
                <5> QED BY <5>1, <5>2, FrontElems
            <4>2. n \in 1 .. Len(refs[s]) /\ refs'[s][n] = refs[s][n]
                BY <4>1
            <4> QED BY <4>2, <1>1 DEF RefInv
        <3>2. CASE s # task.slot
            BY <3>2, <2>1, <1>1 DEF RefInv
        <3> QED BY <3>1, <3>2
    <2> QED BY <2>1, <2>2 DEF RefInv
<1>4. ASSUME NEW x \in Cells(cap), NEW new \in Seq(Posting), NEW k, Turn(x, new, k)
      PROVE  RefInv'
    <2>1. cap' = cap /\ task.slot \in Slots
        BY <1>4 DEF Turn, Counted
    <2>2. CASE refs' = refs
        BY <2>1, <2>2, <1>2
    <2>3. ASSUME NEW i, refs' = [refs EXCEPT ![task.slot] = Append(@, [term |-> x, at |-> i])],
                 NEW s \in Slots, NEW n \in 1 .. Len(refs'[s])
          PROVE  refs'[s][n].term \in Cells(cap)
        <3>1. refs[s] \in Seq(Ref) /\ refs \in [Slots -> Seq(Ref)]
            BY <1>1 DEF TypeOK
        <3>2. CASE s = task.slot
            <4>1. refs'[s] = Append(refs[s], [term |-> x, at |-> i])
                BY <2>3, <3>1, <3>2
            <4>2. CASE n = Len(refs[s]) + 1
                <5>1. refs'[s][n] = [term |-> x, at |-> i]
                    BY <3>1, <4>1, <4>2
                <5> QED BY <5>1
            <4>3. CASE n # Len(refs[s]) + 1
                <5>1. n \in 1 .. Len(refs[s]) /\ refs'[s][n] = refs[s][n]
                    BY <3>1, <4>1, <4>3
                <5> QED BY <5>1, <1>1 DEF RefInv
            <4> QED BY <4>2, <4>3
        <3>3. CASE s # task.slot
            BY <2>3, <3>1, <3>3, <1>1 DEF RefInv
        <3> QED BY <3>2, <3>3
    <2> QED BY <1>4, <2>1, <2>2, <2>3 DEF Turn, RefInv
<1>5. CASE GrowDone
    <2>1. cap' = grown.cap /\ refs' = refs /\ cap <= grown.cap /\ cap \in Nat /\ grown.cap \in Nat
        BY <1>1, <1>5 DEF GrowDone, GrowInv, TypeOK
    <2>2. Cells(cap) \subseteq Cells(cap')
        BY <2>1 DEF Cells
    <2> QED BY <1>1, <2>1, <2>2 DEF RefInv
<1>6. ASSUME NEW i, RemoveRef(i)
      PROVE  RefInv'
    BY <1>3, <1>6, CutRef
<1>7. ASSUME NEW k \in Cells(cap), NEW i, AddAgain(k, i) \/ AddFirst(k, i)
      PROVE  RefInv'
    BY <1>4, <1>7, TurnAgain, TurnFirst
<1>8. ASSUME \/ \E s \in Slots : RemoveDoc(s) \/ \E text \in Texts : Add(s, text)
             \/ RemoveDone \/ GrowStart \/ GrowSkip
             \/ \E k \in Cells(grown.cap) : GrowMove(k)
             \/ AddDone
      PROVE  UNCHANGED <<cap, refs>>
    BY <1>8 DEF RemoveDoc, Add, RemoveDone, GrowStart, GrowSkip, GrowMove, AddDone, table
<1> QED BY <1>2, <1>5, <1>6, <1>7, <1>8 DEF Next

-----------------------------------------------------------------------------
\* What has come to the new table is what the loop has passed in the old one.
LEMMA GrowStep ==
    ASSUME IInv, Next
    PROVE  GrowInv'
<1>1. TypeOK /\ TableOf(entries, cap) /\ GrowInv
    BY DEF IInv
<1>2. CASE GrowStart
    <2> DEFINE ncap == IF cap = 0 THEN InitialCap ELSE 2 * cap
               e == [c \in Cells(ncap) |-> Empty]
    <2>1. ncap \in Nat /\ cap \in Nat /\ cap <= ncap /\ ncap > 0
        BY <1>1, IndexAssumption DEF TypeOK
    <2> HIDE DEF ncap
    <2>2. \A x \in Cells(ncap) : e[x].term = None /\ e[x].post = <<>>
        BY DEF Empty
    <2> HIDE DEF e
    <2>3. TableOf(e, ncap)
        BY <2>2 DEF TableOf, Sorted
    <2>4. grown' = [cap |-> ncap, from |-> 0, entries |-> e]
        BY <1>2 DEF GrowStart, ncap, e
    <2>5. grown'.cap = ncap /\ grown'.from = 0 /\ grown'.entries = e
        BY <2>4
    <2>6. (moved' \/ \A s \in Slots : refs'[s] = <<>>) /\ cap' = cap /\ entries' = entries
        BY <1>2 DEF GrowStart, table
    <2>7. TableOf(grown.entries, grown.cap)'
        BY <2>3, <2>5 DEF TableOf, Reached, Cell
    <2> QED BY <2>1, <2>2, <2>5, <2>6, <2>7 DEF GrowInv
<1>3. CASE GrowSkip
    <2>1. /\ task.op = "grow" /\ grown.from < cap /\ entries[grown.from].term = None
          /\ grown' = [grown EXCEPT !.from = @ + 1]
          /\ UNCHANGED <<table, refs, totals, task, history>>
        BY <1>3 DEF GrowSkip
    <2>2. /\ grown = [cap |-> grown.cap, entries |-> grown.entries, from |-> grown.from]
          /\ grown.from \in Nat /\ cap \in Nat
        BY <1>1 DEF TypeOK
    <2>3. /\ grown'.cap = grown.cap /\ grown'.entries = grown.entries
          /\ grown'.from = grown.from + 1
        BY <2>1, <2>2
    <2>4. cap' = cap /\ entries' = entries /\ refs' = refs /\ moved' = moved
        BY <2>1 DEF table, history
    <2>5. TableOf(grown.entries, grown.cap)'
        BY <1>1, <2>1, <2>3 DEF GrowInv, TableOf, Reached, Cell
    <2>6. \A y \in 0 .. grown'.from - 1 : y = grown.from \/ y \in 0 .. grown.from - 1
        BY <2>2, <2>3
    <2>7. 0 .. grown.from - 1 \subseteq 0 .. grown'.from - 1 /\ grown'.from <= cap
        BY <2>1, <2>2, <2>3
    <2> QED BY <1>1, <2>1, <2>3, <2>4, <2>5, <2>6, <2>7 DEF GrowInv
<1>4. ASSUME NEW k \in Cells(grown.cap), GrowMove(k)
      PROVE  GrowInv'
    <2> DEFINE old == entries[grown.from]
               x == Cell(grown.cap, old.term, k)
               e == grown.entries
               ne == [e EXCEPT ![x] = old]
    <2>1. /\ task.op = "grow" /\ grown.from < cap /\ old.term # None /\ Free(old.term, k)
          /\ UNCHANGED <<table, refs, totals, task, history>>
        BY <1>4 DEF GrowMove
    <2>2. /\ grown = [cap |-> grown.cap, entries |-> e, from |-> grown.from]
          /\ grown.from \in Nat /\ cap \in Nat /\ grown.cap \in Nat /\ k \in Nat
          /\ e \in [Cells(grown.cap) -> Entry]
        BY <1>1 DEF TypeOK, Cells
    <2>3. grown'.cap = grown.cap /\ grown'.entries = ne /\ grown'.from = grown.from + 1
        BY <1>4, <2>2 DEF GrowMove
    <2>4. /\ grown.cap > 0 /\ TableOf(e, grown.cap)
          /\ \A z \in Cells(grown.cap) : e[z].term # None =>
                 \E y \in 0 .. grown.from - 1 : entries[y] = e[z]
          /\ \A y \in 0 .. grown.from - 1 : entries[y].term # None =>
                 \E z \in Cells(grown.cap) : e[z] = entries[y]
        BY <1>1, <2>1 DEF GrowInv
    <2>5. grown.from \in Cells(cap)
        BY <2>1, <2>2 DEF Cells
    <2>6. /\ old = [term |-> old.term, post |-> old.post] /\ old.term \in Terms
          /\ old.post \in Seq(Posting) /\ Sorted(old.post)
        BY <1>1, <2>1, <2>5, CellTypes DEF TableOf
    <2>7. x \in Cells(grown.cap)
        BY <2>2, <2>4, <2>6, CellIn
    <2>8. e[x].term = None /\ \A j \in 0 .. k - 1 : e[Cell(grown.cap, old.term, j)].term # None
        BY <2>1 DEF Free
    <2>9. \A z \in Cells(grown.cap) : e[z].term # old.term
        <3>1. ASSUME NEW z \in Cells(grown.cap), e[z].term = old.term
              PROVE  FALSE
            <4>1. PICK y \in 0 .. grown.from - 1 : entries[y] = e[z]
                BY <2>1, <2>4, <3>1
            <4>2. y \in Cells(cap) /\ y # grown.from
                BY <2>1, <2>2 DEF Cells
            <4>3. entries[y].term = entries[grown.from].term
                BY <3>1, <4>1
            <4> QED BY <1>1, <2>1, <2>5, <4>2, <4>3 DEF TableOf
        <3> QED BY <3>1
    <2>10. \A j \in 0 .. k - 1 : Cell(grown.cap, old.term, j) \in Cells(grown.cap)
        BY <2>2, <2>4, <2>6, CellIn
    <2> HIDE DEF x, old, e
    <2>11. \A j \in 0 .. k - 1 : e[Cell(grown.cap, old.term, j)].term \notin {None, old.term}
        BY <2>8, <2>9, <2>10
    <2>12. grown.cap \in Nat \ {0} /\ x = Cell(grown.cap, old.term, k)
        BY <2>2, <2>4 DEF x
    <2>13. TableOf([e EXCEPT ![x] = [term |-> old.term, post |-> old.post]], grown.cap)
        BY <2>2, <2>4, <2>6, <2>7, <2>8, <2>9, <2>11, <2>12, TablePut
    <2>14. TableOf(ne, grown.cap)
        BY <2>6, <2>13
    <2>15. ne[x] = old /\ \A z \in Cells(grown.cap) : z # x => ne[z] = e[z]
        BY <2>2, <2>7
    <2> HIDE DEF ne
    <2>16. cap' = cap /\ entries' = entries /\ refs' = refs /\ moved' = moved
        BY <2>1 DEF table, history
    <2>17. TableOf(grown.entries, grown.cap)'
        BY <2>3, <2>14 DEF TableOf, Reached, Cell
    <2>18. \A y \in 0 .. grown'.from - 1 : y = grown.from \/ y \in 0 .. grown.from - 1
        BY <2>2, <2>3
    <2>19. /\ 0 .. grown.from - 1 \subseteq 0 .. grown'.from - 1 /\ grown'.from <= cap
           /\ grown.from \in 0 .. grown'.from - 1
        BY <2>1, <2>2, <2>3
    <2>20. \A z \in Cells(grown.cap) : ne[z].term # None =>
               \E y \in 0 .. grown'.from - 1 : entries[y] = ne[z]
        BY <2>4, <2>15, <2>19 DEF old
    <2>21. \A y \in 0 .. grown'.from - 1 : entries[y].term # None =>
               \E z \in Cells(grown.cap) : ne[z] = entries[y]
        <3>1. ASSUME NEW y \in 0 .. grown.from - 1, entries[y].term # None
              PROVE  \E z \in Cells(grown.cap) : ne[z] = entries[y]
            <4>1. PICK z \in Cells(grown.cap) : e[z] = entries[y]
                BY <2>4, <3>1
            <4>2. z # x
                BY <2>8, <3>1, <4>1
            <4> QED BY <2>15, <4>1, <4>2
        <3>2. ne[x] = entries[grown.from]
            BY <2>15 DEF old
        <3> QED BY <2>7, <2>18, <3>1, <3>2
    <2>22. moved \/ \A s \in Slots : refs[s] = <<>>
        BY <1>1, <2>1 DEF GrowInv
    <2>23. cap <= grown.cap
        BY <1>1, <2>1 DEF GrowInv
    <2> QED BY <2>3, <2>4, <2>16, <2>17, <2>19, <2>20, <2>21, <2>22, <2>23 DEF GrowInv
<1>5. ASSUME NEW k \in Cells(cap), NEW i, AddAgain(k, i) \/ AddFirst(k, i)
      PROVE  task'.op # "grow"
    BY <1>1, <1>5 DEF AddAgain, AddFirst, Counted, Adding, TypeOK
<1>6. ASSUME NEW s \in Slots, RemoveDoc(s) \/ \E text \in Texts : Add(s, text)
      PROVE  task'.op # "grow"
    BY <1>6 DEF RemoveDoc, Add, NoTask
<1>7. ASSUME \/ \E i \in 1 .. Cardinality(Slots) + 1 : RemoveRef(i)
             \/ RemoveDone \/ GrowDone \/ AddDone
      PROVE  task'.op # "grow"
    <2>1. CASE RemoveDone
        BY <1>1, <2>1 DEF RemoveDone, NoTask, TypeOK
    <2>2. CASE GrowDone
        BY <1>1, <2>2 DEF GrowDone, TypeOK
    <2>3. CASE AddDone
        BY <2>3 DEF AddDone, NoTask
    <2>4. CASE \E i \in 1 .. Cardinality(Slots) + 1 : RemoveRef(i)
        BY <2>4 DEF RemoveRef
    <2> QED BY <1>7, <2>1, <2>2, <2>3, <2>4
<1> QED BY <1>2, <1>3, <1>4, <1>5, <1>6, <1>7 DEF Next, GrowInv

-----------------------------------------------------------------------------
\* The posting of the token counts what the text has said.
LEMMA TurnOccurs ==
    ASSUME IInv, NEW x \in Cells(cap), NEW new \in Seq(Posting), NEW k, Turn(x, new, k),
           NEW j \in 1 .. Len(new), new[j].slot = task.slot
    PROVE  LET n == Occurs(texts[task.slot], Token) + 1
           IN n \in Nat /\ n > 0 /\ new[j].tf >= n /\ (~moved => new[j].tf = n)
<1> DEFINE s == task.slot
           old == entries[x].post
           q == texts[s]
           had == \E n \in 1 .. Len(old) : old[n].slot = s
<1>1. TypeOK /\ TableOf(entries, cap) /\ PostInv /\ ExactInv
    BY DEF IInv
<1>2. /\ task.op = "add" /\ s \in Slots /\ Token \in Terms
      /\ entries[x].term \in {None, Token}
      /\ \A y \in Cells(cap) : entries[y].term = Token => y = x
      /\ IF had THEN \E n \in 1 .. Len(old) : old[n].slot = s /\ new[j].tf = old[n].tf + 1
         ELSE new[j].tf = 1
    BY DEF Turn, Adding
<1>3. q \in Seq(Terms) /\ old \in Seq(Posting) /\ Sorted(old)
    BY <1>1, <1>2, CellTypes DEF TypeOK, TableOf
<1>4. /\ Occurs(q, Token) \in Nat
      /\ Occurs(q, Token) = 0 <=> \A i \in 1 .. Len(q) : q[i] # Token
    BY <1>3, OccursZero
<1>5. ASSUME Occurs(q, Token) # 0
      PROVE  \E n \in 1 .. Len(old) : old[n].slot = s /\ old[n].tf >= Occurs(q, Token)
    <2>1. PICK i \in 1 .. Len(q) : q[i] = Token
        BY <1>4, <1>5
    <2>2. PICK y \in Cells(cap) :
              entries[y].term = q[i] /\ HasPosting(entries[y], s, Occurs(q, q[i]))
        BY <1>1, <1>2, <2>1 DEF PostInv
    <2>3. y = x /\ HasPosting(entries[x], s, Occurs(q, Token))
        BY <1>2, <2>1, <2>2
    <2> QED BY <2>3 DEF HasPosting
<1>6. CASE had
    <2>1. PICK n \in 1 .. Len(old) : old[n].slot = s /\ new[j].tf = old[n].tf + 1
        BY <1>2, <1>6
    <2>2. old[n].tf \in Nat /\ old[n].slot \in Nat
        BY <1>3, PostingTypes
    <2>3. old[n].tf >= Occurs(q, Token)
        <3>1. CASE Occurs(q, Token) = 0
            BY <2>2, <3>1
        <3>2. CASE Occurs(q, Token) # 0
            <4>1. PICK m \in 1 .. Len(old) : old[m].slot = s /\ old[m].tf >= Occurs(q, Token)
                BY <1>5, <3>2
            <4>2. ~(m < n) /\ ~(n < m)
                BY <1>3, <2>1, <2>2, <4>1 DEF Sorted
            <4>3. m = n
                BY <4>2
            <4> QED BY <4>1, <4>3
        <3> QED BY <3>1, <3>2
    <2>4. ASSUME ~moved
          PROVE  old[n].tf = Occurs(q, Token)
        <3>1. entries[x].term = Token
            <4>1. old # <<>>
                BY <2>1
            <4> QED BY <1>1, <1>2, <4>1 DEF TableOf
        <3>2. ~Removing(s)
            BY <1>2 DEF Removing
        <3>3. old[n].tf = Occurs(texts[old[n].slot], entries[x].term)
            BY <1>1, <2>1, <2>4, <3>2 DEF ExactInv
        <3> QED BY <2>1, <3>1, <3>3
    <2>5. new[j].tf >= Occurs(q, Token) + 1
        BY <1>4, <2>1, <2>2, <2>3
    <2>6. ASSUME ~moved PROVE new[j].tf = Occurs(q, Token) + 1
        BY <2>1, <2>4, <2>6
    <2>7. Occurs(q, Token) + 1 \in Nat /\ Occurs(q, Token) + 1 > 0
        BY <1>4
    <2> QED BY <2>5, <2>6, <2>7
<1>7. CASE ~had
    <2>1. Occurs(q, Token) = 0
        BY <1>5, <1>7
    <2>2. new[j].tf = 1
        BY <1>2, <1>7
    <2> QED BY <2>1, <2>2
<1> QED BY <1>6, <1>7

\* Every token of a text keeps a posting.
LEMMA PostStep ==
    ASSUME IInv, Next
    PROVE  PostInv'
<1>1. TypeOK /\ TableOf(entries, cap) /\ PostInv /\ GrowInv /\ TotalsInv
    BY DEF IInv
<1>t. /\ \A s \in Slots : texts[s] \in Seq(Terms)
      /\ texts \in [Slots -> Seq(Terms)]
    BY <1>1 DEF TypeOK
<1>2. ASSUME UNCHANGED <<cap, entries, texts>>
      PROVE  PostInv'
    BY <1>1, <1>2 DEF PostInv, HasPosting
<1>3. ASSUME NEW s \in Slots, UNCHANGED <<cap, entries>>,
             texts' = texts \/ texts' = [texts EXCEPT ![s] = <<>>]
      PROVE  PostInv'
    <2>1. CASE texts' = texts
        BY <1>2, <1>3, <2>1
    <2>2. CASE texts' = [texts EXCEPT ![s] = <<>>]
        <3>1. ASSUME NEW u \in Slots, NEW n \in 1 .. Len(texts'[u])
              PROVE  u # s /\ texts'[u] = texts[u]
            BY <1>t, <2>2
        <3> QED BY <1>1, <1>3, <3>1 DEF PostInv, HasPosting
    <2> QED BY <1>3, <2>1, <2>2
<1>4. ASSUME NEW x \in Cells(cap), NEW new \in Seq(Posting), Cut(x, new)
      PROVE  PostInv'
    <2>1. /\ task.op = "remove" /\ task.slot \in Slots
          /\ entries' = [entries EXCEPT ![x] = [term |-> entries[x].term, post |-> new]]
          /\ SameButFor(entries[x].post, new, task.slot)
          /\ cap' = cap /\ texts' = texts
        BY <1>4 DEF Cut, history
    <2>2. texts[task.slot] = <<>>
        BY <1>1, <2>1 DEF TotalsInv, LenOf
    <2>3. /\ entries'[x].term = entries[x].term /\ entries'[x].post = new
          /\ \A y \in Cells(cap) : y # x => entries'[y] = entries[y]
        BY <1>1, <2>1 DEF TypeOK
    <2>4. ASSUME NEW u \in Slots, NEW n \in 1 .. Len(texts[u])
          PROVE  \E y \in Cells(cap) :
                     /\ entries'[y].term = texts[u][n]
                     /\ HasPosting(entries'[y], u, Occurs(texts[u], texts[u][n]))
        <3>1. u # task.slot
            BY <2>2
        <3>2. PICK y \in Cells(cap) :
                  /\ entries[y].term = texts[u][n]
                  /\ HasPosting(entries[y], u, Occurs(texts[u], texts[u][n]))
            BY <1>1 DEF PostInv
        <3>3. CASE y = x
            <4>1. HasPosting(entries'[x], u, Occurs(texts[u], texts[u][n]))
                BY <2>1, <2>3, <3>1, <3>2, <3>3 DEF HasPosting, SameButFor
            <4> QED BY <2>3, <3>2, <3>3, <4>1
        <3>4. CASE y # x
            BY <2>3, <3>2, <3>4
        <3> QED BY <3>3, <3>4
    <2> QED BY <2>1, <2>4 DEF PostInv
<1>5. ASSUME NEW x \in Cells(cap), NEW new \in Seq(Posting), NEW k, Turn(x, new, k)
      PROVE  PostInv'
    <2> DEFINE s == task.slot
    <2>1. /\ s \in Slots /\ Token \in Terms
          /\ entries[x].term \in {None, Token}
          /\ entries' = [entries EXCEPT ![x] = [term |-> Token, post |-> new]]
          /\ SameButFor(entries[x].post, new, s)
          /\ texts' = [texts EXCEPT ![s] = Append(@, Token)]
          /\ cap' = cap
        BY <1>5 DEF Turn, Counted
    <2>2. PICK j \in 1 .. Len(new) : new[j].slot = s
        BY <1>5 DEF Turn
    <2>3. /\ entries'[x].term = Token /\ entries'[x].post = new
          /\ \A y \in Cells(cap) : y # x => entries'[y] = entries[y]
        BY <1>1, <2>1 DEF TypeOK
    <2>4. /\ texts'[s] = Append(texts[s], Token)
          /\ \A u \in Slots : u # s => texts'[u] = texts[u]
        BY <1>t, <2>1
    <2>5. ASSUME NEW u \in Slots, NEW n \in 1 .. Len(texts'[u])
          PROVE  \E y \in Cells(cap) :
                     /\ entries'[y].term = texts'[u][n]
                     /\ HasPosting(entries'[y], u, Occurs(texts'[u], texts'[u][n]))
        <3>1. CASE u # s
            <4>1. texts'[u] = texts[u]
                BY <2>4, <3>1
            <4>2. PICK y \in Cells(cap) :
                      /\ entries[y].term = texts[u][n]
                      /\ HasPosting(entries[y], u, Occurs(texts[u], texts[u][n]))
                BY <1>1, <4>1 DEF PostInv
            <4>3. CASE y = x
                <5>1. texts[u][n] = Token
                    <6>1. texts[u][n] \in Terms /\ None \notin Terms
                        BY <1>t, <4>1, IndexAssumption
                    <6> QED BY <2>1, <4>2, <4>3, <6>1
                <5>2. HasPosting(entries'[x], u, Occurs(texts[u], texts[u][n]))
                    <6>1. PICK m \in 1 .. Len(entries[x].post) :
                              /\ entries[x].post[m].slot = u
                              /\ entries[x].post[m].tf >= Occurs(texts[u], texts[u][n])
                        BY <4>2, <4>3 DEF HasPosting
                    <6>2. PICK l \in 1 .. Len(new) : new[l] = entries[x].post[m]
                        BY <2>1, <3>1, <6>1 DEF SameButFor
                    <6> QED BY <2>3, <6>1, <6>2 DEF HasPosting
                <5> QED BY <2>3, <4>1, <5>1, <5>2
            <4>4. CASE y # x
                BY <2>3, <4>1, <4>2, <4>4
            <4> QED BY <4>3, <4>4
        <3>2. CASE u = s /\ texts'[s][n] = Token
            <4>1. Occurs(texts'[s], Token) = Occurs(texts[s], Token) + 1
                BY <1>t, <2>1, <2>4, OccursAppend
            <4>2. new[j].tf >= Occurs(texts[s], Token) + 1
                BY <1>5, <2>2, TurnOccurs
            <4>3. HasPosting(entries'[x], s, Occurs(texts'[s], Token))
                BY <2>2, <2>3, <4>1, <4>2 DEF HasPosting
            <4> QED BY <2>3, <3>2, <4>3
        <3>3. CASE u = s /\ texts'[s][n] # Token
            <4>0. texts[s] \in Seq(Terms)
                BY <1>t, <2>1
            <4>1. n \in 1 .. Len(texts[s]) /\ texts'[s][n] = texts[s][n]
                BY <4>0, <2>1, <2>4, <3>3
            <4>2. PICK y \in Cells(cap) :
                      /\ entries[y].term = texts[s][n]
                      /\ HasPosting(entries[y], s, Occurs(texts[s], texts[s][n]))
                BY <1>1, <2>1, <4>1 DEF PostInv
            <4>3. y # x
                <5>1. texts[s][n] \in Terms /\ None \notin Terms
                    BY <4>0, <4>1, IndexAssumption
                <5> QED BY <2>1, <3>3, <4>1, <4>2, <5>1
            <4>4. Occurs(texts'[s], texts[s][n]) = Occurs(texts[s], texts[s][n])
                <5>1. Occurs(texts[s], texts[s][n]) \in Nat
                    BY <4>0, OccursZero
                <5>2. Occurs(Append(texts[s], Token), texts[s][n])
                          = Occurs(texts[s], texts[s][n]) + 0
                    BY <4>0, <2>1, <3>3, <4>1, OccursAppend
                <5> QED BY <2>4, <5>1, <5>2
            <4> QED BY <2>3, <3>3, <4>1, <4>2, <4>3, <4>4
        <3> QED BY <3>1, <3>2, <3>3
    <2> QED BY <2>1, <2>5 DEF PostInv
<1>6. CASE GrowDone
    <2>1. /\ cap' = grown.cap /\ entries' = grown.entries /\ texts' = texts
          /\ grown.from = cap
          /\ \A y \in 0 .. grown.from - 1 : entries[y].term # None =>
                 \E x \in Cells(grown.cap) : grown.entries[x] = entries[y]
        BY <1>1, <1>6 DEF GrowDone, GrowInv, history
    <2>2. ASSUME NEW u \in Slots, NEW n \in 1 .. Len(texts[u])
          PROVE  \E x \in Cells(cap') :
                     /\ entries'[x].term = texts[u][n]
                     /\ HasPosting(entries'[x], u, Occurs(texts[u], texts[u][n]))
        <3>1. PICK y \in Cells(cap) :
                  /\ entries[y].term = texts[u][n]
                  /\ HasPosting(entries[y], u, Occurs(texts[u], texts[u][n]))
            BY <1>1 DEF PostInv
        <3>2. texts[u][n] # None
            <4>1. texts[u][n] \in Terms
                BY <1>t
            <4> QED BY <4>1, IndexAssumption
        <3>3. PICK x \in Cells(grown.cap) : grown.entries[x] = entries[y]
            BY <2>1, <3>1, <3>2 DEF Cells
        <3> QED BY <2>1, <3>1, <3>3
    <2> QED BY <2>1, <2>2 DEF PostInv
<1>7. ASSUME NEW s \in Slots, RemoveDoc(s) \/ \E text \in Texts : Add(s, text)
      PROVE  PostInv'
    BY <1>3, <1>7 DEF RemoveDoc, Add, table
<1>8. ASSUME NEW i, RemoveRef(i)
      PROVE  PostInv'
    BY <1>4, <1>8, CutRef
<1>9. ASSUME NEW k \in Cells(cap), NEW i, AddAgain(k, i) \/ AddFirst(k, i)
      PROVE  PostInv'
    BY <1>5, <1>9, TurnAgain, TurnFirst
<1>10. ASSUME \/ RemoveDone \/ GrowStart \/ GrowSkip
              \/ \E k \in Cells(grown.cap) : GrowMove(k)
              \/ AddDone
       PROVE  UNCHANGED <<cap, entries, texts>>
    BY <1>10 DEF RemoveDone, GrowStart, GrowSkip, GrowMove, AddDone, table, history
<1> QED BY <1>2, <1>6, <1>7, <1>8, <1>9, <1>10 DEF Next

-----------------------------------------------------------------------------
\* ExactInv for one posting.
ExactOf(x, p, e, t, r, tk) ==
    /\ ~(tk.op = "remove" /\ tk.slot = p.slot) =>
           p.tf = Occurs(t[p.slot], e[x].term) /\ p.tf > 0
    /\ \E n \in 1 .. Len(r[p.slot]) : r[p.slot][n].term = x

ExactAt(x, p) == ExactOf(x, p, entries, texts, refs, task)

\* Nothing but postings of what is there, as long as references are good.
LEMMA ExactStep ==
    ASSUME IInv, Next
    PROVE  ExactInv'
<1> DEFINE ExactThen(x, p) == ExactOf(x, p, entries', texts', refs', task')
<1> SUFFICES ASSUME ~moved',
                    NEW y \in Cells(cap'), NEW j \in 1 .. Len(entries'[y].post),
                    NEW p, p = entries'[y].post[j]
             PROVE  ExactThen(y, p)
    <2>1. ASSUME ~moved', NEW y \in Cells(cap'), NEW j \in 1 .. Len(entries'[y].post)
          PROVE  ExactOf(y, entries'[y].post[j], entries', texts', refs', task')
        BY <2>1
    <2> QED BY <2>1 DEF ExactInv, ExactOf, Removing
<1>1. TypeOK /\ TableOf(entries, cap) /\ RefInv /\ GrowInv /\ ExactInv
    BY DEF IInv
<1>e. ASSUME ~moved, NEW x \in Cells(cap), NEW i \in 1 .. Len(entries[x].post)
      PROVE  ExactAt(x, entries[x].post[i]) /\ entries[x].post[i].slot \in Slots
    BY <1>1, <1>e, CellTypes, PostingTypes DEF ExactInv, ExactAt, ExactOf, Removing
<1>t. texts \in [Slots -> Seq(Terms)] /\ refs \in [Slots -> Seq(Ref)]
    BY <1>1 DEF TypeOK
<1>2. ASSUME UNCHANGED <<cap, entries, refs, texts>>, ~moved,
             \A s \in Slots : ~Removing(s) /\ ~Removing(s)'
      PROVE  ExactThen(y, p)
    <2>1. ~moved /\ y \in Cells(cap) /\ j \in 1 .. Len(entries[y].post)
        BY <1>2
    <2>2. ExactAt(y, entries[y].post[j]) /\ entries[y].post[j].slot \in Slots
        BY <1>e, <2>1
    <2> QED BY <1>2, <2>2 DEF ExactAt, ExactOf, Removing
<1>3. ASSUME NEW s \in Slots, UNCHANGED <<cap, entries, refs, moved>>, task = NoTask,
             \/ texts' = texts /\ task'.op # "remove"
             \/ texts' = [texts EXCEPT ![s] = <<>>] /\ task'.op = "remove" /\ task'.slot = s
      PROVE  ExactThen(y, p)
    <2>1. ~moved /\ y \in Cells(cap) /\ j \in 1 .. Len(entries[y].post)
        BY <1>3
    <2>2. ExactAt(y, entries[y].post[j]) /\ entries[y].post[j].slot \in Slots
        BY <1>e, <2>1
    <2>3. \A u \in Slots : ~Removing(u)
        BY <1>3 DEF Removing, NoTask
    <2>4. \A u \in Slots : Removing(u)' \/ texts'[u] = texts[u]
        BY <1>3, <1>t DEF Removing
    <2> QED BY <1>3, <2>2, <2>3, <2>4 DEF ExactAt, ExactOf, Removing
<1>4. ASSUME NEW x \in Cells(cap), NEW new \in Seq(Posting), Cut(x, new)
      PROVE  ExactThen(y, p)
    <2> DEFINE s == task.slot
    <2>1. /\ s \in Slots /\ Len(refs[s]) \in Nat \ {0}
          /\ x = refs[s][Len(refs[s])].term
          /\ entries' = [entries EXCEPT ![x] = [term |-> entries[x].term, post |-> new]]
          /\ SameButFor(entries[x].post, new, s)
          /\ \A n \in 1 .. Len(new) : new[n].slot # s
          /\ refs' = [refs EXCEPT ![s] = Front(@)]
          /\ cap' = cap /\ texts' = texts /\ moved' = moved /\ task' = task
        BY <1>4 DEF Cut, history
    <2>2. /\ entries'[x].term = entries[x].term /\ entries'[x].post = new
          /\ \A z \in Cells(cap) : z # x => entries'[z] = entries[z]
        BY <1>1, <2>1 DEF TypeOK
    <2>3. ~moved /\ y \in Cells(cap) /\ entries'[y].term = entries[y].term
        BY <2>1, <2>2
    <2>4. \E i \in 1 .. Len(entries[y].post) : entries[y].post[i] = p
        <3>1. CASE y = x
            <4>1. j \in 1 .. Len(new) /\ p = new[j]
                <5>1. entries'[y].post = new
                    BY <2>2, <3>1
                <5> QED BY <5>1
            <4>2. p.slot # s
                BY <2>1, <4>1
            <4>3. PICK n \in 1 .. Len(entries[x].post) : entries[x].post[n] = new[j]
                BY <2>1, <4>1, <4>2 DEF SameButFor
            <4> QED BY <3>1, <4>1, <4>3
        <3>2. CASE y # x
            BY <2>2, <2>3, <3>2
        <3> QED BY <3>1, <3>2
    <2>5. ExactAt(y, p) /\ p.slot \in Slots
        BY <1>e, <2>3, <2>4
    <2>6. y = x => p.slot # s
        BY <2>1, <2>2
    <2>7. \E n \in 1 .. Len(refs'[p.slot]) : refs'[p.slot][n].term = y
        <3>1. PICK n \in 1 .. Len(refs[p.slot]) : refs[p.slot][n].term = y
            BY <2>5 DEF ExactAt, ExactOf, Removing
        <3>2. CASE p.slot # s
            <4>1. refs'[p.slot] = refs[p.slot]
                BY <2>1, <2>5, <3>2, <1>t
            <4> QED BY <3>1, <4>1
        <3>3. CASE p.slot = s
            <4>1. n # Len(refs[s])
                BY <2>1, <2>6, <3>1, <3>3
            <4>2. refs[s] \in Seq(Ref) /\ refs[s] # <<>>
                BY <1>t, <2>1
            <4>3. /\ Len(Front(refs[s])) = Len(refs[s]) - 1
                  /\ \A m \in 1 .. Len(refs[s]) - 1 : Front(refs[s])[m] = refs[s][m]
                BY <4>2, FrontElems
            <4>6. n \in 1 .. Len(refs[s]) /\ Len(refs[s]) \in Nat \ {0}
                BY <2>1, <3>1, <3>3
            <4>4. n \in 1 .. Len(Front(refs[s])) /\ Front(refs[s])[n] = refs[s][n]
                BY <4>1, <4>3, <4>6
            <4>5. refs'[s] = Front(refs[s])
                BY <2>1, <1>t
            <4> QED BY <3>1, <3>3, <4>4, <4>5
        <3> QED BY <3>2, <3>3
    <2>8. \A u \in Slots : Removing(u)' <=> Removing(u)
        BY <2>1 DEF Removing
    <2> QED BY <2>1, <2>3, <2>5, <2>7, <2>8 DEF ExactAt, ExactOf, Removing
<1>5. ASSUME NEW x \in Cells(cap), NEW new \in Seq(Posting), NEW k, Turn(x, new, k)
      PROVE  ExactThen(y, p)
    <2> DEFINE s == task.slot
               old == entries[x].post
               had == \E n \in 1 .. Len(old) : old[n].slot = s
    <2>1. /\ s \in Slots /\ Token \in Terms /\ task.op = "add"
          /\ entries[x].term \in {None, Token}
          /\ \A z \in Cells(cap) : entries[z].term = Token => z = x
          /\ entries' = [entries EXCEPT ![x] = [term |-> Token, post |-> new]]
          /\ SameButFor(old, new, s)
          /\ texts' = [texts EXCEPT ![s] = Append(@, Token)]
          /\ cap' = cap /\ moved' = moved /\ task' = [task EXCEPT !.at = @ + 1]
          /\ IF had THEN refs' = refs
             ELSE \E i \in Nat \ {0} :
                      refs' = [refs EXCEPT ![s] = Append(@, [term |-> x, at |-> i])]
        BY <1>5 DEF Turn, Counted, Adding
    <2>2. /\ entries'[x].term = Token /\ entries'[x].post = new
          /\ \A z \in Cells(cap) : z # x => entries'[z] = entries[z]
        BY <1>1, <2>1 DEF TypeOK
    <2>3. ~moved /\ y \in Cells(cap)
        BY <2>1
    <2>4. \A u \in Slots : ~Removing(u) /\ ~Removing(u)'
        BY <1>1, <2>1 DEF Removing, TypeOK
    <2>5. \A u \in Slots : \A n \in 1 .. Len(refs[u]) :
              n \in 1 .. Len(refs'[u]) /\ refs'[u][n] = refs[u][n]
        <3>1. CASE refs' = refs
            BY <3>1
        <3>2. ASSUME NEW i, refs' = [refs EXCEPT ![s] = Append(@, [term |-> x, at |-> i])],
                     NEW u \in Slots, NEW n \in 1 .. Len(refs[u])
              PROVE  n \in 1 .. Len(refs'[u]) /\ refs'[u][n] = refs[u][n]
            <4>1. refs[u] \in Seq(Ref)
                BY <1>t
            <4>2. CASE u = s
                <5>1. refs'[u] = Append(refs[u], [term |-> x, at |-> i])
                    BY <1>t, <3>2, <4>2
                <5> QED BY <4>1, <5>1
            <4>3. CASE u # s
                BY <1>t, <3>2, <4>3
            <4> QED BY <4>2, <4>3
        <3> QED BY <2>1, <3>1, <3>2
    <2>6. CASE y = x /\ p.slot = s
        <3>1. p.tf = Occurs(texts[s], Token) + 1 /\ p.tf > 0
            BY <1>5, <2>2, <2>3, <2>6, TurnOccurs
        <3>2. Occurs(texts'[s], Token) = Occurs(texts[s], Token) + 1
            <4>1. texts[s] \in Seq(Terms) /\ texts'[s] = Append(texts[s], Token)
                BY <1>t, <2>1
            <4> QED BY <2>1, <4>1, OccursAppend
        <3>3. \E n \in 1 .. Len(refs'[s]) : refs'[s][n].term = x
            <4>1. CASE had
                <5>1. PICK n \in 1 .. Len(old) : old[n].slot = s
                    BY <4>1
                <5>2. ExactAt(x, old[n])
                    BY <1>e, <2>3
                <5> QED BY <2>1, <2>5, <5>1, <5>2 DEF ExactAt, ExactOf, Removing
            <4>2. CASE ~had
                <5>1. PICK i \in Nat \ {0} :
                          refs' = [refs EXCEPT ![s] = Append(@, [term |-> x, at |-> i])]
                    BY <2>1, <4>2
                <5>2. refs[s] \in Seq(Ref) /\ refs'[s] = Append(refs[s], [term |-> x, at |-> i])
                    BY <1>t, <2>1, <5>1
                <5>3. /\ Len(refs[s]) + 1 \in 1 .. Len(refs'[s])
                      /\ refs'[s][Len(refs[s]) + 1] = [term |-> x, at |-> i]
                    BY <5>2
                <5>4. refs'[s][Len(refs[s]) + 1].term = x
                    BY <5>3
                <5> QED BY <5>3, <5>4
            <4> QED BY <4>1, <4>2
        <3> QED BY <2>2, <2>6, <3>1, <3>2, <3>3 DEF ExactAt, ExactOf, Removing
    <2>7. CASE ~(y = x /\ p.slot = s)
        <3>1. \E i \in 1 .. Len(entries[y].post) : entries[y].post[i] = p
            BY <2>1, <2>2, <2>3, <2>7 DEF SameButFor
        <3>2. ExactAt(y, p) /\ p.slot \in Slots
            BY <1>e, <2>3, <3>1
        <3>3. entries'[y].term = entries[y].term /\ entries[y].term \in Terms
            <4>1. entries[y].post # <<>>
                BY <3>1
            <4>2. entries[y].term # None /\ entries[y].term \in Terms
                BY <1>1, <2>3, <4>1, CellTypes DEF TableOf
            <4> QED BY <2>1, <2>2, <2>3, <4>2
        <3>4. p.tf = Occurs(texts[p.slot], entries[y].term) /\ p.tf > 0
            BY <2>4, <3>2 DEF ExactAt, ExactOf, Removing
        <3>5. Occurs(texts'[p.slot], entries[y].term) = Occurs(texts[p.slot], entries[y].term)
            <4>1. CASE p.slot # s
                BY <1>t, <2>1, <3>2, <4>1
            <4>2. CASE p.slot = s
                <5>1. entries[y].term # Token
                    BY <2>1, <2>3, <2>7, <4>2
                <5>2. texts[s] \in Seq(Terms) /\ texts'[s] = Append(texts[s], Token)
                    BY <1>t, <2>1
                <5>3. Occurs(texts'[s], entries[y].term) = Occurs(texts[s], entries[y].term) + 0
                    BY <2>1, <5>1, <5>2, OccursAppend
                <5>4. Occurs(texts[s], entries[y].term) \in Nat
                    BY <5>2, OccursZero
                <5> QED BY <4>2, <5>3, <5>4
            <4> QED BY <4>1, <4>2
        <3>6. \E n \in 1 .. Len(refs'[p.slot]) : refs'[p.slot][n].term = y
            BY <2>5, <3>2 DEF ExactAt, ExactOf, Removing
        <3> QED BY <3>3, <3>4, <3>5, <3>6 DEF ExactAt, ExactOf, Removing
    <2> QED BY <2>6, <2>7
<1>6. CASE GrowDone
    <2>1. /\ cap' = grown.cap /\ entries' = grown.entries /\ moved' = moved
          /\ task.op = "grow"
        BY <1>6 DEF GrowDone, history
    <2>2. ~moved /\ \A s \in Slots : refs[s] = <<>>
        BY <1>1, <2>1 DEF GrowInv
    <2>3. entries'[y].post # <<>>
        OBVIOUS
    <2>4. grown.entries[y].term # None
        BY <1>1, <2>1, <2>3 DEF GrowInv, TableOf
    <2>5. PICK x \in 0 .. grown.from - 1 : entries[x] = grown.entries[y]
        BY <1>1, <2>1, <2>4 DEF GrowInv
    <2>6. x \in Cells(cap)
        BY <1>1, <2>1 DEF GrowInv, Cells, TypeOK
    <2>7. ExactAt(x, entries[x].post[j]) /\ entries[x].post[j].slot \in Slots
        BY <1>e, <2>1, <2>2, <2>5, <2>6
    <2> QED BY <2>2, <2>7 DEF ExactAt, ExactOf, Removing
<1>7. CASE RemoveDone
    <2>1. /\ task.op = "remove" /\ refs[task.slot] = <<>> /\ task.slot \in Slots
          /\ UNCHANGED <<cap, entries, refs, texts, moved>>
          /\ task'.op # "remove"
        BY <1>1, <1>7 DEF RemoveDone, TypeOK, table, history, NoTask
    <2>2. ~moved /\ y \in Cells(cap) /\ j \in 1 .. Len(entries[y].post)
        BY <2>1
    <2>3. ExactAt(y, entries[y].post[j]) /\ entries[y].post[j].slot \in Slots
        BY <1>e, <2>2
    <2>4. entries[y].post[j].slot # task.slot
        BY <2>1, <2>3 DEF ExactAt, ExactOf, Removing
    <2>5. ~Removing(entries[y].post[j].slot)
        BY <2>4 DEF Removing
    <2> QED BY <2>1, <2>3, <2>5 DEF ExactAt, ExactOf, Removing
<1>8. ASSUME NEW s \in Slots, RemoveDoc(s) \/ \E text \in Texts : Add(s, text)
      PROVE  ExactThen(y, p)
    <2>1. UNCHANGED <<cap, entries, refs, moved>> /\ task = NoTask
        BY <1>8 DEF RemoveDoc, Add, table
    <2>2. \/ texts' = texts /\ task'.op # "remove"
          \/ texts' = [texts EXCEPT ![s] = <<>>] /\ task'.op = "remove" /\ task'.slot = s
        <3>1. CASE RemoveDoc(s)
            BY <3>1 DEF RemoveDoc
        <3>2. ASSUME NEW text \in Texts, Add(s, text)
              PROVE  <2>2!1 \/ <2>2!2
            BY <3>2 DEF Add, NoTask
        <3> QED BY <1>8, <3>1, <3>2
    <2> QED BY <1>3, <2>1, <2>2
<1>9. ASSUME NEW i, RemoveRef(i)
      PROVE  ExactThen(y, p)
    BY <1>4, <1>9, CutRef
<1>10. ASSUME NEW k \in Cells(cap), NEW i, AddAgain(k, i) \/ AddFirst(k, i)
       PROVE  ExactThen(y, p)
    BY <1>5, <1>10, TurnAgain, TurnFirst
<1>11. ASSUME \/ GrowStart \/ GrowSkip
              \/ \E k \in Cells(grown.cap) : GrowMove(k)
              \/ AddDone
       PROVE  ExactThen(y, p)
    <2>1. UNCHANGED <<cap, entries, refs, texts>>
        BY <1>11 DEF GrowStart, GrowSkip, GrowMove, AddDone, table, history
    <2>2. ~moved
        BY <1>11 DEF GrowStart, GrowSkip, GrowMove, AddDone, history
    <2>3. task.op # "remove"
        BY <1>11 DEF GrowStart, GrowSkip, GrowMove, AddDone, Adding
    <2>4. task'.op # "remove"
        <3>1. CASE GrowStart
            BY <1>1, <3>1 DEF GrowStart, TypeOK
        <3>2. CASE AddDone
            BY <3>2 DEF AddDone, NoTask
        <3>3. CASE task' = task
            BY <2>3, <3>3
        <3> QED BY <1>11, <3>1, <3>2, <3>3 DEF GrowSkip, GrowMove
    <2> QED BY <1>2, <2>1, <2>2, <2>3, <2>4 DEF Removing
<1> QED BY <1>6, <1>7, <1>8, <1>9, <1>10, <1>11 DEF Next

-----------------------------------------------------------------------------
\* The words of one more document, of n tokens.
LEMMA WordsAdded ==
    ASSUME NEW d \in [Slots -> Nat], NEW s \in Slots, d[s] = 0, NEW n \in Nat \ {0}
    PROVE  LET e == [d EXCEPT ![s] = n]
           IN /\ Cardinality(Words(e)) = Cardinality(Words(d)) + n
              /\ Cardinality({u \in Slots : e[u] > 0})
                     = Cardinality({u \in Slots : d[u] > 0}) + 1
              /\ Cardinality(Words(d)) \in Nat
              /\ Cardinality({u \in Slots : d[u] > 0}) \in Nat
<1> DEFINE e == [d EXCEPT ![s] = n]
           New == {s} \X (1 .. n)
           D == {u \in Slots : d[u] > 0}
           E == {u \in Slots : e[u] > 0}
<1>1. e[s] = n /\ \A u \in Slots : u # s => e[u] = d[u]
    OBVIOUS
<1> HIDE DEF e
<1>2. IsFiniteSet(Slots)
    BY IndexAssumption
<1>3. IsFiniteSet(D)
    BY <1>2, FS_Subset
<1>4. s \notin D
    OBVIOUS
<1>5. E = D \cup {s}
    BY <1>1
<1>6. Cardinality(D) \in Nat /\ Cardinality(D \cup {s}) = Cardinality(D) + 1
    BY <1>3, <1>4, FS_AddElement, FS_CardinalityType
<1>7. \A m \in Nat : IsFiniteSet(1 .. m) /\ Cardinality(1 .. m) = m
    <2>1. ASSUME NEW m \in Nat
          PROVE  IsFiniteSet(1 .. m) /\ Cardinality(1 .. m) = m
        <3>1. 1 \in Int /\ m \in Int
            OBVIOUS
        <3>2. IsFiniteSet(1 .. m) /\ Cardinality(1 .. m) = IF 1 > m THEN 0 ELSE m - 1 + 1
            BY <3>1, FS_Interval
        <3> QED BY <3>2
    <2> QED BY <2>1
<1>8. \A u \in Slots : IsFiniteSet({u} \X (1 .. d[u]))
    <2>1. ASSUME NEW u \in Slots
          PROVE  IsFiniteSet({u} \X (1 .. d[u]))
        <3>1. IsFiniteSet({u}) /\ IsFiniteSet(1 .. d[u])
            BY <1>7, FS_Singleton
        <3> QED BY <3>1, FS_Product
    <2> QED BY <2>1
<1>9. IsFiniteSet(Words(d))
    <2> DEFINE Parts == {{u} \X (1 .. d[u]) : u \in Slots}
    <2>1. IsFiniteSet(Parts)
        <3> DEFINE f == [u \in Slots |-> {u} \X (1 .. d[u])]
        <3>1. f \in Surjection(Slots, Parts)
            BY DEF Surjection
        <3> HIDE DEF f, Parts
        <3> QED BY <1>2, <3>1, FS_Surjection
    <2>2. \A p \in Parts : IsFiniteSet(p)
        BY <1>8
    <2> HIDE DEF Parts
    <2>3. IsFiniteSet(UNION Parts)
        BY <2>1, <2>2, FS_UNION
    <2> QED BY <2>3 DEF Words, Parts
<1>10. IsFiniteSet(New) /\ Cardinality(New) = n
    <2>1. IsFiniteSet({s}) /\ Cardinality({s}) = 1
        BY FS_Singleton
    <2>2. IsFiniteSet(1 .. n) /\ Cardinality(1 .. n) = n
        BY <1>7
    <2> DEFINE A == {s}
               B == 1 .. n
    <2> HIDE DEF A, B
    <2>3. IsFiniteSet(A) /\ IsFiniteSet(B)
        BY <2>1, <2>2 DEF A, B
    <2>4. IsFiniteSet(A \X B) /\ Cardinality(A \X B) = Cardinality(A) * Cardinality(B)
        BY <2>3, FS_Product
    <2>5. Cardinality(A) = 1 /\ Cardinality(B) = n
        BY <2>1, <2>2 DEF A, B
    <2>6. Cardinality(A) * Cardinality(B) = n
        BY <2>5
    <2> QED BY <2>4, <2>6 DEF A, B
<1>11. Words(e) = Words(d) \cup New
    <2>1. ASSUME NEW w
          PROVE  w \in Words(e) <=> w \in Words(d) \cup New
        <3>1. w \in Words(e) <=> \E u \in Slots : w \in {u} \X (1 .. e[u])
            BY DEF Words
        <3>2. w \in Words(d) <=> \E u \in Slots : w \in {u} \X (1 .. d[u])
            BY DEF Words
        <3>3. {s} \X (1 .. d[s]) = {} /\ {s} \X (1 .. e[s]) = New
            BY <1>1
        <3> HIDE DEF New
        <3> QED BY <1>1, <3>1, <3>2, <3>3
    <2> QED BY <2>1
<1>12. Words(d) \cap New = {}
    <2>1. ASSUME NEW w \in Words(d), w \in New
          PROVE  FALSE
        <3>1. PICK u \in Slots : w \in {u} \X (1 .. d[u])
            BY DEF Words
        <3>2. u = s
            BY <2>1, <3>1
        <3> QED BY <3>1, <3>2
    <2> QED BY <2>1
<1> HIDE DEF New
<1>13. Cardinality(Words(d) \cup New)
           = Cardinality(Words(d)) + Cardinality(New) - Cardinality(Words(d) \cap New)
    BY <1>9, <1>10, FS_Union
<1>14. Cardinality(Words(d)) \in Nat /\ Cardinality(Words(d) \cap New) = 0
    BY <1>9, <1>12, FS_CardinalityType, FS_EmptySet
<1>15. Cardinality(Words(e)) = Cardinality(Words(d)) + n
    BY <1>10, <1>11, <1>13, <1>14
<1> QED BY <1>5, <1>6, <1>14, <1>15 DEF e

\* The counters follow the lengths, and these the texts.
LEMMA TotalsStep ==
    ASSUME IInv, Next
    PROVE  TotalsInv'
<1>1. TypeOK /\ TotalsInv
    BY DEF IInv
<1>t. /\ texts \in [Slots -> Seq(Terms)] /\ doclen \in [Slots -> Nat]
      /\ task.at \in Nat
    BY <1>1 DEF TypeOK
<1>2. LenOf(doclen, texts, task) /\ SumsOf(doclen, nDocs, totalLen)
    BY <1>1 DEF TotalsInv
<1>3. SUFFICES LenOf(doclen', texts', task') /\ SumsOf(doclen', nDocs', totalLen')
    BY DEF TotalsInv, LenOf, SumsOf, Words
<1>4. ASSUME UNCHANGED totals
      PROVE  SumsOf(doclen', nDocs', totalLen')
    BY <1>2, <1>4 DEF totals
<1>5. ASSUME NEW s \in Slots, RemoveDoc(s) \/ \E text \in Texts : Add(s, text)
      PROVE  LenOf(doclen', texts', task')
    <2>0. task.op = "none" /\ doclen' = doclen
        BY <1>5 DEF RemoveDoc, Add, NoTask, totals
    <2>1. \A u \in Slots : doclen[u] = Len(texts[u])
        BY <1>2, <2>0 DEF LenOf
    <2>2. ASSUME NEW text, doclen[s] > 0, texts' = [texts EXCEPT ![s] = <<>>],
                 task' = [op |-> "remove", slot |-> s, text |-> text, at |-> 0]
          PROVE  LenOf(doclen', texts', task')
        BY <1>t, <2>0, <2>1, <2>2 DEF LenOf
    <2>3. ASSUME NEW text, doclen[s] = 0, text # <<>>, texts' = texts,
                 task' = [op |-> "add", slot |-> s, text |-> text, at |-> 0]
          PROVE  LenOf(doclen', texts', task')
        BY <1>t, <2>0, <2>1, <2>3 DEF LenOf
    <2>4. ASSUME texts' = texts, task' = NoTask
          PROVE  LenOf(doclen', texts', task')
        BY <2>0, <2>1, <2>4 DEF LenOf, NoTask
    <2>5. CASE RemoveDoc(s)
        BY <2>2, <2>5 DEF RemoveDoc
    <2>6. ASSUME NEW text \in Texts, Add(s, text)
          PROVE  LenOf(doclen', texts', task')
        <3>1. CASE Replaces(s)
            BY <2>2, <2>6, <3>1 DEF Add, Replaces
        <3>2. CASE ~Replaces(s)
            <4>1. doclen[s] = 0
                BY <1>t, <3>2 DEF Replaces
            <4> QED BY <2>3, <2>4, <2>6, <3>2, <4>1 DEF Add
        <3> QED BY <3>1, <3>2
    <2> QED BY <1>5, <2>5, <2>6
<1>6. CASE RemoveDone
    <2> DEFINE s == task.slot
    <2>1. /\ task.op = "remove" /\ s \in Slots
          /\ doclen' = [doclen EXCEPT ![s] = 0] /\ totalLen' = totalLen - doclen[s]
          /\ nDocs' = IF nDocs = 0 THEN 0 ELSE nDocs - 1
          /\ texts' = texts
          /\ task' = IF task.text = <<>> THEN NoTask ELSE [task EXCEPT !.op = "add"]
        BY <1>1, <1>6 DEF RemoveDone, TypeOK, history
    <2>2. texts[s] = <<>> /\ doclen[s] > 0 /\ task.at = 0
        BY <1>2, <2>1 DEF LenOf
    <2>3. doclen' \in [Slots -> Nat] /\ doclen'[s] = 0 /\ doclen = [doclen' EXCEPT ![s] = doclen[s]]
        BY <1>t, <2>1
    <2>4. doclen[s] \in Nat \ {0}
        BY <1>t, <2>1, <2>2
    <2>5. /\ Cardinality(Words(doclen)) = Cardinality(Words(doclen')) + doclen[s]
          /\ Cardinality({u \in Slots : doclen[u] > 0})
                 = Cardinality({u \in Slots : doclen'[u] > 0}) + 1
          /\ Cardinality(Words(doclen')) \in Nat
          /\ Cardinality({u \in Slots : doclen'[u] > 0}) \in Nat
        BY <2>1, <2>3, <2>4, WordsAdded
    <2>6. SumsOf(doclen', nDocs', totalLen')
        <3>1. /\ nDocs = Cardinality({u \in Slots : doclen[u] > 0})
              /\ totalLen = Cardinality(Words(doclen))
            BY <1>2 DEF SumsOf
        <3>2. /\ nDocs' = Cardinality({u \in Slots : doclen'[u] > 0})
              /\ totalLen' = Cardinality(Words(doclen'))
            BY <2>1, <2>4, <2>5, <3>1
        <3> QED BY <3>2 DEF SumsOf
    <2>8. LenOf(doclen', texts', task')
        <3>1. CASE task.text = <<>>
            BY <1>2, <2>1, <2>2, <2>3, <3>1 DEF LenOf, NoTask
        <3>2. CASE task.text # <<>>
            <4>1. /\ task'.op = "add" /\ task'.slot = s /\ task'.at = 0
                  /\ task'.text # <<>>
                BY <1>1, <2>1, <2>2, <3>2 DEF TypeOK
            <4>2. \A u \in Slots : u # s => doclen'[u] = Len(texts[u])
                BY <1>2, <1>t, <2>1 DEF LenOf
            <4> QED BY <2>1, <2>2, <2>3, <4>1, <4>2 DEF LenOf
        <3> QED BY <3>1, <3>2
    <2> QED BY <2>6, <2>8
<1>7. ASSUME NEW x \in Cells(cap), NEW new \in Seq(Posting), NEW k, Turn(x, new, k)
      PROVE  LenOf(doclen', texts', task') /\ SumsOf(doclen', nDocs', totalLen')
    <2> DEFINE s == task.slot
    <2>1. /\ task.op = "add" /\ s \in Slots /\ doclen' = doclen /\ UNCHANGED totals
          /\ texts' = [texts EXCEPT ![s] = Append(@, Token)]
          /\ task' = [task EXCEPT !.at = @ + 1]
        BY <1>7 DEF Turn, Counted, Adding, totals
    <2>2. /\ task'.op = "add" /\ task'.slot = s /\ task'.at = task.at + 1
          /\ task'.text = task.text
        BY <1>1, <2>1 DEF TypeOK
    <2>3. doclen[s] = 0 /\ Len(texts[s]) = task.at /\ task.text # <<>>
        BY <1>2, <2>1 DEF LenOf
    <2>4. \A u \in Slots : u # s => doclen[u] = Len(texts'[u])
        BY <1>2, <1>t, <2>1 DEF LenOf
    <2>5. Len(texts'[s]) = task.at + 1
        <3>1. texts[s] \in Seq(Terms) /\ texts'[s] = Append(texts[s], Token)
            BY <1>t, <2>1
        <3> QED BY <2>3, <3>1
    <2>6. LenOf(doclen', texts', task')
        BY <2>1, <2>2, <2>3, <2>4, <2>5 DEF LenOf
    <2> QED BY <1>4, <2>1, <2>6
<1>8. CASE AddDone
    <2> DEFINE s == task.slot
    <2>1. /\ task.op = "add" /\ s \in Slots /\ task.at = Len(task.text)
          /\ doclen' = [doclen EXCEPT ![s] = task.at] /\ nDocs' = nDocs + 1
          /\ totalLen' = totalLen + task.at /\ task' = NoTask /\ texts' = texts
        BY <1>1, <1>8 DEF AddDone, TypeOK, history
    <2>2. doclen[s] = 0 /\ Len(texts[s]) = task.at /\ task.text # <<>>
        BY <1>2, <2>1 DEF LenOf
    <2>3. task.at \in Nat \ {0}
        <3>1. task.text \in Seq(Terms)
            BY <1>1 DEF TypeOK
        <3> QED BY <2>1, <2>2, <3>1
    <2>4. SumsOf(doclen', nDocs', totalLen')
        <3>1. /\ nDocs = Cardinality({u \in Slots : doclen[u] > 0})
              /\ totalLen = Cardinality(Words(doclen))
            BY <1>2 DEF SumsOf
        <3>2. /\ Cardinality(Words(doclen')) = Cardinality(Words(doclen)) + task.at
              /\ Cardinality({u \in Slots : doclen'[u] > 0})
                     = Cardinality({u \in Slots : doclen[u] > 0}) + 1
            <4> DEFINE e == [doclen EXCEPT ![s] = task.at]
            <4>1. doclen \in [Slots -> Nat] /\ s \in Slots /\ doclen[s] = 0
                BY <1>t, <2>1, <2>2
            <4>2. /\ Cardinality(Words(e)) = Cardinality(Words(doclen)) + task.at
                  /\ Cardinality({u \in Slots : e[u] > 0})
                         = Cardinality({u \in Slots : doclen[u] > 0}) + 1
                BY <2>3, <4>1, WordsAdded
            <4>3. doclen' = e
                BY <2>1
            <4> HIDE DEF e
            <4> QED BY <4>2, <4>3
        <3> QED BY <2>1, <3>1, <3>2 DEF SumsOf
    <2>5. \A u \in Slots : doclen'[u] = Len(texts[u])
        BY <1>2, <1>t, <2>1, <2>2 DEF LenOf
    <2>6. LenOf(doclen', texts', task')
        BY <2>1, <2>5 DEF LenOf, NoTask
    <2> QED BY <2>4, <2>6
<1>9. ASSUME NEW i, RemoveRef(i)
      PROVE  LenOf(doclen', texts', task') /\ SumsOf(doclen', nDocs', totalLen')
    BY <1>2, <1>4, <1>9 DEF RemoveRef, totals, history
<1>10. ASSUME \/ GrowStart \/ GrowSkip \/ GrowDone
              \/ \E k \in Cells(grown.cap) : GrowMove(k)
       PROVE  LenOf(doclen', texts', task') /\ SumsOf(doclen', nDocs', totalLen')
    <2>1. UNCHANGED totals /\ doclen' = doclen /\ texts' = texts
        BY <1>10 DEF GrowStart, GrowSkip, GrowDone, GrowMove, totals, history
    <2>2. CASE task' = task
        BY <1>2, <1>4, <2>1, <2>2
    <2>3. CASE GrowStart
        <3>1. /\ task.op = "add" /\ task'.op = "grow"
              /\ task'.slot = task.slot /\ task'.at = task.at /\ task'.text = task.text
            BY <1>1, <2>3 DEF GrowStart, Adding, TypeOK
        <3>2. LenOf(doclen', texts', task')
            BY <1>2, <2>1, <3>1 DEF LenOf
        <3> QED BY <1>4, <2>1, <3>2
    <2>4. CASE GrowDone
        <3>1. /\ task.op = "grow" /\ task'.op = "add"
              /\ task'.slot = task.slot /\ task'.at = task.at /\ task'.text = task.text
            BY <1>1, <2>4 DEF GrowDone, TypeOK
        <3>2. LenOf(doclen', texts', task')
            BY <1>2, <2>1, <3>1 DEF LenOf
        <3> QED BY <1>4, <2>1, <3>2
    <2>5. CASE GrowSkip \/ \E k \in Cells(grown.cap) : GrowMove(k)
        BY <2>2, <2>5 DEF GrowSkip, GrowMove
    <2> QED BY <1>10, <2>3, <2>4, <2>5
<1>11. ASSUME NEW s \in Slots, RemoveDoc(s) \/ \E text \in Texts : Add(s, text)
       PROVE  LenOf(doclen', texts', task') /\ SumsOf(doclen', nDocs', totalLen')
    <2>1. UNCHANGED totals
        BY <1>11 DEF RemoveDoc, Add
    <2> QED BY <1>4, <1>5, <1>11, <2>1
<1>12. ASSUME NEW k \in Cells(cap), NEW i, AddAgain(k, i) \/ AddFirst(k, i)
       PROVE  LenOf(doclen', texts', task') /\ SumsOf(doclen', nDocs', totalLen')
    BY <1>7, <1>12, TurnAgain, TurnFirst
<1> QED BY <1>6, <1>8, <1>9, <1>10, <1>11, <1>12 DEF Next

-----------------------------------------------------------------------------
LEMMA Invariant == Spec => []IInv
<1>1. Init => IInv
    BY InitInv
<1>2. IInv /\ [Next]_vars => IInv'
    <2> SUFFICES ASSUME IInv, [Next]_vars
                 PROVE  IInv'
        OBVIOUS
    <2>1. CASE Next
        BY <2>1, TypeStep, TableStep, RefStep, GrowStep, PostStep, ExactStep, TotalsStep
           DEF IInv
    <2>2. CASE UNCHANGED vars
        <3>1. UNCHANGED <<cap, count, entries, refs, doclen, nDocs, totalLen, task, grown,
                          texts, moved>>
            BY <2>2 DEF vars, table, totals, history
        <3>2. TypeOK' /\ TableOf(entries, cap)' /\ RefInv' /\ GrowInv'
            BY <3>1 DEF IInv, TypeOK, TableOf, Reached, RefInv, GrowInv
        <3>3. PostInv' /\ ExactInv' /\ TotalsInv'
            BY <3>1 DEF IInv, PostInv, HasPosting, ExactInv, Removing, TotalsInv, LenOf, SumsOf,
                        Words
        <3> QED BY <3>2, <3>3 DEF IInv
    <2> QED BY <2>1, <2>2
<1> QED BY <1>1, <1>2, PTL DEF Spec

\* Every reachable state is of the declared type, for any slots, terms, texts
\* and hash values: the references stay in the table, the counters natural.
THEOREM TypeCorrect == Spec => []TypeOK
<1>1. IInv => TypeOK
    BY DEF IInv
<1> QED BY <1>1, Invariant, PTL

\* Every term a slot was given is found with it (text_index_add, map_find),
\* whatever collides and however often the table grew.
THEOREM SearchFindsAll == Spec => []FoundAll
<1>1. ASSUME IInv
      PROVE  FoundAll
    <2>1. TypeOK /\ TableOf(entries, cap) /\ PostInv
        BY <1>1 DEF IInv
    <2>2. ASSUME NEW s \in Slots, NEW n \in 1 .. Len(texts[s])
          PROVE  Found(texts[s][n], s, Said(s, texts[s][n]))
        <3> DEFINE t == texts[s][n]
        <3>1. PICK x \in Cells(cap) :
                  entries[x].term = t /\ HasPosting(entries[x], s, Occurs(texts[s], t))
            BY <2>1 DEF PostInv
        <3>2. t \in Terms
            BY <2>1 DEF TypeOK
        <3>3. t # None
            BY <3>2, IndexAssumption
        <3>4. Reached(entries, cap, x)
            BY <2>1, <3>1, <3>3 DEF TableOf
        <3> HIDE DEF t
        <3>5. PICK k \in Cells(cap) :
                  /\ Cell(cap, t, k) = x
                  /\ \A j \in 0 .. k - 1 : entries[Cell(cap, t, j)].term \notin {None, t}
            BY <3>1, <3>4 DEF Reached
        <3>6. Ends(t, k)
            BY <3>1, <3>5 DEF Ends
        <3>7. HasPosting(entries[Cell(cap, t, k)], s, Said(s, t))
            BY <3>1, <3>5 DEF Said, Occurs
        <3>8. Found(t, s, Said(s, t))
            BY <3>1, <3>5, <3>6, <3>7 DEF Found, HasPosting
        <3> QED BY <3>8 DEF t
    <2> QED BY <2>2 DEF FoundAll
<1> QED BY <1>1, Invariant, PTL

\* And nothing else, unless the table has grown while it held a document
\* (text_index_remove).
THEOREM SearchFindsOnly == Spec => []FoundOnly
<1>1. ASSUME IInv
      PROVE  FoundOnly
    <2>1. TypeOK /\ TableOf(entries, cap) /\ ExactInv
        BY <1>1 DEF IInv
    <2>2. ASSUME ~moved, task = NoTask, NEW c \in Cells(cap),
                 NEW i \in 1 .. Len(entries[c].post), NEW p, p = entries[c].post[i]
          PROVE  /\ p.tf = Said(p.slot, entries[c].term) /\ p.tf > 0
                 /\ \A j \in 1 .. Len(entries[c].post) :
                        entries[c].post[j].slot = p.slot => i = j
        <3>1. ~Removing(p.slot)
            BY <2>2 DEF Removing, NoTask
        <3>2. p.tf = Occurs(texts[p.slot], entries[c].term) /\ p.tf > 0
            BY <2>1, <2>2, <3>1 DEF ExactInv
        <3>3. Sorted(entries[c].post) /\ entries[c].post \in Seq(Posting)
            BY <2>1, CellTypes DEF TableOf
        <3>4. ASSUME NEW j \in 1 .. Len(entries[c].post), entries[c].post[j].slot = p.slot
              PROVE  i = j
            <4>1. p.slot \in Nat
                BY <2>2, <3>3, PostingTypes
            <4>2. ~(i < j) /\ ~(j < i)
                BY <2>2, <3>3, <3>4, <4>1 DEF Sorted
            <4> QED BY <3>3, <4>2
        <3> QED BY <3>2, <3>4 DEF Said, Occurs
    <2> QED BY <2>2 DEF FoundOnly
<1> QED BY <1>1, Invariant, PTL

\* The lengths and totals of the documents follow their texts
\* (text_index_add, text_index_remove).
THEOREM TotalsFollowTexts == Spec => []TotalsExact
<1>1. ASSUME IInv, task = NoTask
      PROVE  /\ \A s \in Slots : doclen[s] = Len(texts[s])
             /\ nDocs = Cardinality({s \in Slots : texts[s] # <<>>})
             /\ totalLen = Cardinality(UNION {{s} \X (1 .. Len(texts[s])) : s \in Slots})
    <2>1. TypeOK /\ LenOf(doclen, texts, task) /\ SumsOf(doclen, nDocs, totalLen)
        BY <1>1 DEF IInv, TotalsInv
    <2>2. \A s \in Slots : doclen[s] = Len(texts[s])
        BY <1>1, <2>1 DEF LenOf, NoTask
    <2>3. \A s \in Slots : doclen[s] > 0 <=> texts[s] # <<>>
        <3>1. ASSUME NEW s \in Slots
              PROVE  doclen[s] > 0 <=> texts[s] # <<>>
            <4>1. texts[s] \in Seq(Terms) /\ doclen[s] = Len(texts[s])
                BY <2>1, <2>2 DEF TypeOK
            <4> QED BY <4>1
        <3> QED BY <3>1
    <2>4. {s \in Slots : doclen[s] > 0} = {s \in Slots : texts[s] # <<>>}
        BY <2>3
    <2>5. Words(doclen) = UNION {{s} \X (1 .. Len(texts[s])) : s \in Slots}
        BY <2>2 DEF Words
    <2> QED BY <2>1, <2>2, <2>4, <2>5 DEF SumsOf
<1>2. IInv => TotalsExact
    BY <1>1 DEF TotalsExact
<1> QED BY <1>2, Invariant, PTL
=============================================================================
