---------------------------- MODULE VecDb_proofs ----------------------------
(***************************************************************************)
(* Proofs about VecDb for any threads, ids and records and any number of   *)
(* slots.                                                                  *)
(*                                                                         *)
(* The map is exact in every state, a database that is being loaded or     *)
(* compacted included (Exact).  Each of the loops has an invariant about   *)
(* the records in front of the slot it is at; at the end of the loop it    *)
(* says that the copy is complete.                                         *)
(***************************************************************************)
EXTENDS VecDb, FiniteSetTheorems, TLAPS

\* MapExact of records, map and count that need not be those of the handle.
AliveIn(r) == {s \in 1 .. Len(r) : r[s].alive}

Exact(r, m, c) ==
    /\ \A id \in Ids : m[id] # 0 => m[id] \in AliveIn(r) /\ r[m[id]].id = id
    /\ \A s \in AliveIn(r) : m[r[s].id] = s
    /\ c = Cardinality(AliveIn(r))

PairsIn(r) == {<<r[s].id, r[s].val>> : s \in AliveIn(r)}

\* The records the loop has come by.
Before == {s \in Alive : s < task.at}
PairsBefore == {<<recs[s].id, recs[s].val>> : s \in Before}

LockInv ==
    /\ task.op = "none" => task = NoTask
    /\ task.op \in {"flush", "close", "compact"} => open
    /\ task.op = "load" => ~open
    /\ ~open /\ task.op # "load" => recs = <<>> /\ dim = 0
    /\ \A s \in Slots : recs[s].val.dim \in {0, dim}

LoadInv ==
    task.op = "load" =>
        /\ file # None /\ dim = file.dim
        /\ task.at = Len(recs) + 1
        /\ task.at <= file.count + 1
        /\ \A s \in Slots : /\ recs[s].alive
                            /\ recs[s].id = file.recs[s].id
                            /\ recs[s].val = file.recs[s].val

SaveInv ==
    Saving =>
        /\ dirty /\ tmp # None
        /\ tmp.dim = dim /\ tmp.count = count
        /\ task.at \in 1 .. Len(recs) + 1
        /\ Len(tmp.recs) = Cardinality(Before)
        /\ Stored(tmp) = PairsBefore
        /\ \A i, j \in 1 .. Len(tmp.recs) : tmp.recs[i].id = tmp.recs[j].id => i = j

CompactInv ==
    task.op = "compact" =>
        /\ task.at \in 1 .. Len(recs) + 1
        /\ \A s \in 1 .. Len(build.recs) : build.recs[s].alive
        /\ \A s \in 1 .. Len(build.recs) : build.recs[s].val.dim \in {0, dim}
        /\ Exact(build.recs, build.map, build.count)
        /\ PairsIn(build.recs) = PairsBefore

IInv == TypeOK /\ FileWhole /\ MapExact /\ CleanIsSaved
        /\ LockInv /\ LoadInv /\ SaveInv /\ CompactInv

-----------------------------------------------------------------------------
LEMMA AliveFinite == \A r \in Seq(Record) : IsFiniteSet(AliveIn(r))
<1> SUFFICES ASSUME NEW r \in Seq(Record) PROVE IsFiniteSet(AliveIn(r))
  OBVIOUS
<1>1. IsFiniteSet(1 .. Len(r))
  BY FS_Interval
<1>2. AliveIn(r) \subseteq 1 .. Len(r)
  BY DEF AliveIn
<1>3. QED BY <1>1, <1>2, FS_Subset

LEMMA MapIsExact == MapExact <=> Exact(recs, map, count)
BY DEF MapExact, Exact, Alive, AliveIn, Slots

\* A record in a new slot.
LEMMA ExactAppend ==
    ASSUME NEW r \in Seq(Record), NEW m \in [Ids -> Nat], NEW c \in Int,
           Exact(r, m, c), NEW e \in Record, e.alive, m[e.id] = 0
    PROVE  /\ Exact(Append(r, e), [m EXCEPT ![e.id] = Len(r) + 1], c + 1)
           /\ AliveIn(Append(r, e)) = AliveIn(r) \cup {Len(r) + 1}
           /\ PairsIn(Append(r, e)) = PairsIn(r) \cup {<<e.id, e.val>>}
<1> DEFINE id == e.id
           v == e.val
           q == Append(r, e)
           n == Len(r) + 1
           p == [m EXCEPT ![id] = n]
<1>0. id \in Ids
  BY DEF Record
<1>1. /\ q \in Seq(Record) /\ Len(q) = n /\ n \in Nat
      /\ q[n] = e /\ \A s \in 1 .. Len(r) : q[s] = r[s]
  BY DEF Record
<1>2. AliveIn(q) = AliveIn(r) \cup {n}
  BY <1>1 DEF AliveIn
<1>3. n \notin AliveIn(r) /\ IsFiniteSet(AliveIn(r))
  BY AliveFinite DEF AliveIn
<1>4. Cardinality(AliveIn(q)) = c + 1
  <2>1. Cardinality(AliveIn(r) \cup {n}) = Cardinality(AliveIn(r)) + 1
    BY <1>3, FS_AddElement
  <2>2. QED BY <1>2, <2>1 DEF Exact
<1>5. \A s \in AliveIn(r) : r[s].id \in Ids /\ r[s].id # id /\ s \in 1 .. Len(r) /\ s # 0
  <2>1. \A s \in AliveIn(r) : s \in 1 .. Len(r) /\ s # 0
    BY DEF AliveIn
  <2>2. \A s \in AliveIn(r) : r[s] \in Record
    BY <2>1
  <2>3. \A s \in AliveIn(r) : m[r[s].id] = s
    BY DEF Exact
  <2>4. QED BY <2>1, <2>2, <2>3 DEF Record
<1>p. p[id] = n /\ \A i \in Ids \ {id} : p[i] = m[i]
  BY <1>0
<1>6. \A s \in AliveIn(q) : p[q[s].id] = s
  <2> SUFFICES ASSUME NEW s \in AliveIn(q) PROVE p[q[s].id] = s
    OBVIOUS
  <2>1. CASE s = n
    BY <2>1, <1>1, <1>p
  <2>2. CASE s \in AliveIn(r)
    <3>1. q[s].id = r[s].id /\ r[s].id \in Ids \ {id}
      BY <2>2, <1>1, <1>5
    <3>2. m[r[s].id] = s
      BY <2>2 DEF Exact
    <3>3. QED BY <3>1, <3>2, <1>p
  <2>3. QED BY <2>1, <2>2, <1>2
<1>7. \A i \in Ids : p[i] # 0 => p[i] \in AliveIn(q) /\ q[p[i]].id = i
  <2> SUFFICES ASSUME NEW i \in Ids, p[i] # 0 PROVE p[i] \in AliveIn(q) /\ q[p[i]].id = i
    OBVIOUS
  <2>1. CASE i = id
    BY <2>1, <1>1, <1>2, <1>p
  <2>2. CASE i # id
    <3>1. p[i] = m[i] /\ m[i] \in AliveIn(r) /\ r[m[i]].id = i
      BY <2>2, <1>p DEF Exact
    <3>2. q[m[i]] = r[m[i]]
      BY <3>1, <1>1, <1>5
    <3>3. QED BY <3>1, <3>2, <1>2
  <2>3. QED BY <2>1, <2>2
<1>8. PairsIn(q) = PairsIn(r) \cup {<<id, v>>}
  <2>1. \A s \in AliveIn(r) : q[s] = r[s]
    BY <1>1 DEF AliveIn
  <2>2. q[n].id = id /\ q[n].val = v
    BY <1>1
  <2>3. QED BY <1>2, <2>1, <2>2 DEF PairsIn
<1>9. QED BY <1>2, <1>4, <1>6, <1>7, <1>8 DEF Exact

\* A record in the slot it has.
LEMMA ExactUpdate ==
    ASSUME NEW r \in Seq(Record), NEW m \in [Ids -> Nat], NEW c \in Int,
           Exact(r, m, c), NEW k \in 1 .. Len(r), NEW v \in Vals
    PROVE  Exact([r EXCEPT ![k].val = v], m, c)
<1> DEFINE q == [r EXCEPT ![k].val = v]
<1>1. /\ Len(q) = Len(r)
      /\ \A s \in 1 .. Len(r) : q[s].id = r[s].id /\ q[s].alive = r[s].alive
  BY DEF Record
<1>2. AliveIn(q) = AliveIn(r)
  BY <1>1 DEF AliveIn
<1>3. \A s \in AliveIn(r) : q[s].id = r[s].id
  BY <1>1 DEF AliveIn
<1>4. QED BY <1>2, <1>3 DEF Exact

LEMMA ExactDelete ==
    ASSUME NEW r \in Seq(Record), NEW m \in [Ids -> Nat], NEW c \in Int,
           Exact(r, m, c), NEW id \in Ids, m[id] # 0
    PROVE  Exact([r EXCEPT ![m[id]].alive = FALSE], [m EXCEPT ![id] = 0], c - 1)
<1> DEFINE k == m[id]
           q == [r EXCEPT ![k].alive = FALSE]
           p == [m EXCEPT ![id] = 0]
<1>0. k \in AliveIn(r) /\ r[k].id = id /\ k \in 1 .. Len(r)
  BY DEF Exact, AliveIn
<1>1. /\ Len(q) = Len(r) /\ \A s \in 1 .. Len(r) : q[s].id = r[s].id
      /\ q[k].alive = FALSE /\ \A s \in 1 .. Len(r) : s # k => q[s] = r[s]
  <2>1. \A s \in 1 .. Len(r) : r[s] \in Record
    OBVIOUS
  <2>2. Len(q) = Len(r) /\ \A s \in 1 .. Len(r) : s # k => q[s] = r[s]
    OBVIOUS
  <2>3. q[k] = [r[k] EXCEPT !.alive = FALSE]
    <3>1. k \in DOMAIN r
      BY <1>0
    <3>2. QED BY <3>1, Zenon
  <2>4. q[k].alive = FALSE /\ q[k].id = r[k].id
    <3>1. r[k] \in Record
      BY <1>0, <2>1
    <3>2. QED BY <3>1, <2>3 DEF Record
  <2>5. QED BY <2>2, <2>4
<1>2. AliveIn(q) = AliveIn(r) \ {k}
  BY <1>1 DEF AliveIn
<1>3. Cardinality(AliveIn(q)) = c - 1
  <2>1. Cardinality(AliveIn(r) \ {k}) = Cardinality(AliveIn(r)) - 1
    BY <1>0, AliveFinite, FS_RemoveElement
  <2>2. QED BY <1>2, <2>1 DEF Exact
<1>4. \A s \in AliveIn(q) : p[q[s].id] = s
  <2> SUFFICES ASSUME NEW s \in AliveIn(q) PROVE p[q[s].id] = s
    OBVIOUS
  <2>0. s \in AliveIn(r) /\ s # k /\ s \in 1 .. Len(r)
    BY <1>2 DEF AliveIn
  <2>1. q[s].id = r[s].id /\ r[s].id \in Ids
    <3>1. r[s] \in Record
      BY <2>0
    <3>2. QED BY <2>0, <3>1, <1>1 DEF Record
  <2>2. m[r[s].id] = s
    BY <2>0 DEF Exact
  <2>3. r[s].id # id
    BY <2>0, <2>2
  <2>4. QED BY <2>1, <2>2, <2>3
<1>5. \A i \in Ids : p[i] # 0 => p[i] \in AliveIn(q) /\ q[p[i]].id = i
  <2> SUFFICES ASSUME NEW i \in Ids, p[i] # 0 PROVE p[i] \in AliveIn(q) /\ q[p[i]].id = i
    OBVIOUS
  <2>1. i # id /\ p[i] = m[i]
    OBVIOUS
  <2>2. m[i] \in AliveIn(r) /\ r[m[i]].id = i
    BY <2>1 DEF Exact
  <2>3. m[i] # k
    BY <2>1, <2>2, <1>0
  <2>4. QED BY <2>1, <2>2, <2>3, <1>1, <1>2 DEF AliveIn
<1>6. QED BY <1>3, <1>4, <1>5 DEF Exact

LEMMA ExactEmpty == Exact(<<>>, NoMap, 0) /\ AliveIn(<<>>) = {}
<1>1. AliveIn(<<>>) = {}
  BY DEF AliveIn
<1>2. QED BY <1>1, FS_EmptySet DEF Exact, NoMap

-----------------------------------------------------------------------------
(***************************************************************************)
(* What the parts of the actions do to the memory.                         *)
(***************************************************************************)
Others == Opens \/ Crash \/ PowerLoss \/ Settle

LEMMA NextCases == Next => Calls \/ Loops \/ Others
BY DEF Next, Others

\* Steps of a call that leave the database and the disk alone.
Aside(t) == Copy(t) \/ Enter(t) \/ Leave(t) \/ CloseClean(t) \/ ClearHandle(t)

LEMMA AsideKeeps ==
    ASSUME NEW t \in Threads, Aside(t)
    PROVE  UNCHANGED <<open, recs, map, count, dim, dirty, task, build, file, tmp, synced, medium>>
BY DEF Aside, Copy, Enter, Leave, CloseClean, ClearHandle, object, memory, disk

LEMMA RecordTypes ==
    ASSUME NEW r \in Seq(Record)
    PROVE  \A s \in 1 .. Len(r) : r[s].id \in Ids /\ r[s].val \in Vals /\ r[s].alive \in BOOLEAN
<1> SUFFICES ASSUME NEW s \in 1 .. Len(r)
             PROVE  r[s].id \in Ids /\ r[s].val \in Vals /\ r[s].alive \in BOOLEAN
  OBVIOUS
<1>1. r[s] \in Record
  OBVIOUS
<1>2. QED BY <1>1 DEF Record

LEMMA StoreMemory ==
    ASSUME TypeOK, MapExact, NEW id \in Ids, NEW v \in Vals, Store(id, v),
           \A s \in Slots : recs[s].val.dim \in {0, dim}, Fits(v), dim' = Learned(v)
    PROVE  /\ recs' \in Seq(Record) /\ map' \in [Ids -> Nat] /\ count' \in Int
           /\ MapExact'
           /\ dim' \in Dims
           /\ \A s \in 1 .. Len(recs') : recs'[s].val.dim \in {0, dim'}
<1> USE MapIsExact
<1>0. /\ Exact(recs, map, count) /\ recs \in Seq(Record) /\ map \in [Ids -> Nat]
      /\ count \in Int /\ dim \in Dims
  BY DEF TypeOK
<1>1. dim' \in Dims /\ v.dim \in {0, dim'} /\ dim' \in {dim, v.dim} /\ (dim # 0 => dim' = dim)
  BY DEF Fits, Learned, Dims, TypeOK
<1>2. \A s \in Slots : recs[s].val.dim \in {0, dim'}
  BY <1>1
<1>3. CASE StoreOver(id, v)
  <2> DEFINE k == map[id]
  <2>1. /\ k \in 1 .. Len(recs) /\ recs' = [recs EXCEPT ![k].val = v]
        /\ map' = map /\ count' = count
    BY <1>3, <1>0 DEF StoreOver, Held, Exact, AliveIn
  <2>2. Exact(recs', map', count')
    BY <2>1, <1>0, ExactUpdate
  <2>3. recs[k] \in Record
    BY <2>1, <1>0
  <2>4. /\ Len(recs') = Len(recs) /\ \A s \in Slots : s # k => recs'[s] = recs[s]
        /\ recs'[k] = [recs[k] EXCEPT !.val = v]
    <3>1. k \in DOMAIN recs
      BY <2>1, <1>0
    <3>2. recs'[k] = [recs[k] EXCEPT !.val = v]
      BY <3>1, <2>1, Zenon
    <3>3. QED BY <3>2, <2>1, <1>0 DEF Slots
  <2>5. recs'[k].val = v /\ [recs[k] EXCEPT !.val = v] \in Record
    BY <2>3, <2>4 DEF Record
  <2>6. recs' \in Seq(Record)
    BY <2>1, <2>5, <1>0
  <2>7. \A s \in 1 .. Len(recs') : recs'[s].val.dim \in {0, dim'}
    BY <2>4, <2>5, <1>1, <1>2 DEF Slots
  <2>8. MapExact'
    BY <2>2 DEF MapExact, Exact, Alive, AliveIn, Slots
  <2>9. QED BY <1>0, <1>1, <2>1, <2>6, <2>7, <2>8
<1>4. CASE StoreNew(id, v)
  <2> DEFINE e == [id |-> id, val |-> v, alive |-> TRUE]
  <2>0. e \in Record /\ e.alive /\ e.id = id /\ e.val = v
    BY <1>0 DEF Record
  <2>1. /\ map[id] = 0 /\ recs' = Append(recs, e)
        /\ map' = [map EXCEPT ![id] = Len(recs) + 1] /\ count' = count + 1
    BY <1>4 DEF StoreNew, Held
  <2>2. Exact(recs', map', count')
    BY <2>0, <2>1, <1>0, ExactAppend
  <2>4. recs' \in Seq(Record) /\ Len(recs') = Len(recs) + 1
    BY <2>1, <2>0, <1>0
  <2>5. recs'[Len(recs) + 1] = e /\ \A s \in Slots : recs'[s] = recs[s]
    BY <2>1, <1>0 DEF Slots
  <2>6. \A s \in 1 .. Len(recs') : recs'[s].val.dim \in {0, dim'}
    BY <2>0, <2>4, <2>5, <1>0, <1>1, <1>2 DEF Slots
  <2>7. MapExact'
    BY <2>2 DEF MapExact, Exact, Alive, AliveIn, Slots
  <2>8. map' \in [Ids -> Nat] /\ count' \in Int
    BY <2>1, <1>0
  <2>9. QED BY <1>1, <2>4, <2>6, <2>7, <2>8
<1>5. QED BY <1>3, <1>4 DEF Store

LEMMA DeleteMemory ==
    ASSUME TypeOK, MapExact, NEW t, NEW id \in Ids, Delete(t, id),
           \A s \in Slots : recs[s].val.dim \in {0, dim}
    PROVE  /\ recs' \in Seq(Record) /\ map' \in [Ids -> Nat] /\ count' \in Int
           /\ MapExact'
           /\ \A s \in 1 .. Len(recs') : recs'[s].val.dim \in {0, dim}
<1> USE MapIsExact
<1> DEFINE k == map[id]
<1>0. Exact(recs, map, count) /\ recs \in Seq(Record) /\ map \in [Ids -> Nat] /\ count \in Int
  BY DEF TypeOK
<1>1. /\ k # 0 /\ recs' = [recs EXCEPT ![k].alive = FALSE]
      /\ map' = [map EXCEPT ![id] = 0] /\ count' = count - 1
  BY DEF Delete, Held, Dropped
<1>2. Exact(recs', map', count')
  BY <1>0, <1>1, ExactDelete
<1>3. k \in 1 .. Len(recs) /\ recs[k] \in Record
  BY <1>0, <1>1 DEF Exact, AliveIn
<1>4. [recs[k] EXCEPT !.alive = FALSE] \in Record /\ [recs[k] EXCEPT !.alive = FALSE].val = recs[k].val
  BY <1>3 DEF Record
<1>5. /\ Len(recs') = Len(recs) /\ \A s \in Slots : s # k => recs'[s] = recs[s]
  BY <1>1, <1>0 DEF Slots
<1>6. recs'[k] = [recs[k] EXCEPT !.alive = FALSE]
  <2>1. k \in DOMAIN recs
    BY <1>3, <1>0
  <2>2. QED BY <2>1, <1>1, Zenon
<1>7. recs' \in Seq(Record)
  <2>1. \A s \in 1 .. Len(recs) : recs'[s] \in Record
    BY <1>0, <1>4, <1>5, <1>6 DEF Slots
  <2>2. recs' \in [DOMAIN recs -> Record]
    <3>1. DOMAIN recs = 1 .. Len(recs)
      BY <1>0
    <3>2. recs' = [s \in DOMAIN recs |-> recs'[s]]
      BY <1>1, Zenon
    <3>3. QED BY <3>1, <3>2, <2>1, Zenon
  <2>3. QED BY <2>2, <1>0
<1>8. \A s \in 1 .. Len(recs') : recs'[s].val.dim \in {0, dim}
  BY <1>3, <1>4, <1>5, <1>6 DEF Slots
<1>9. MapExact'
  BY <1>2 DEF MapExact, Exact, Alive, AliveIn, Slots
<1>10. QED BY <1>0, <1>1, <1>7, <1>8, <1>9

LEMMA ReleaseMemory ==
    ASSUME Release
    PROVE  /\ recs' \in Seq(Record) /\ map' \in [Ids -> Nat] /\ count' \in Int
           /\ dim' = 0 /\ 0 \in Dims /\ dirty' = FALSE /\ open' = FALSE
           /\ MapExact'
           /\ \A s \in 1 .. Len(recs') : recs'[s].val.dim \in {0, dim'}
<1>1. /\ recs' = <<>> /\ map' = NoMap /\ count' = 0
      /\ dim' = 0 /\ dirty' = FALSE /\ open' = FALSE
  BY DEF Release
<1>2. Exact(recs', map', count')
  BY <1>1, ExactEmpty
<1>3. MapExact'
  BY <1>2 DEF MapExact, Exact, Alive, AliveIn, Slots
<1>4. QED BY <1>1, <1>3 DEF NoMap, Dims

-----------------------------------------------------------------------------
(***************************************************************************)
(* Every step keeps the invariant.                                         *)
(***************************************************************************)
\* What each step keeps of the memory.
MemoryOK ==
    /\ recs \in Seq(Record) /\ map \in [Ids -> Nat] /\ count \in Int /\ dim \in Dims
    /\ MapExact
    /\ \A s \in Slots : recs[s].val.dim \in {0, dim}

LEMMA IInvMemory == IInv => MemoryOK
BY DEF IInv, TypeOK, LockInv, MemoryOK

LEMMA MemorySame ==
    ASSUME MemoryOK, UNCHANGED <<memory, dim>> PROVE MemoryOK'
BY DEF MemoryOK, memory, MapExact, Alive, Slots

LEMMA MemoryReleased == ASSUME Release PROVE MemoryOK'
BY ReleaseMemory DEF MemoryOK, Slots

LEMMA MemoryCall == ASSUME IInv, Calls PROVE MemoryOK'
<1> USE IInvMemory
<1>1. ASSUME NEW t \in Threads, NEW id \in Ids, NEW v \in Vals, Put(t, id, v)
      PROVE  MemoryOK'
  <2>1. Store(id, v) /\ Fits(v) /\ dim' = Learned(v)
    BY <1>1 DEF Put
  <2>2. QED BY <2>1, StoreMemory DEF IInv, MemoryOK, Slots
<1>2. ASSUME NEW t \in Threads, NEW id \in Ids, NEW v \in Vals, PutExists(t, id, v)
      PROVE  MemoryOK'
  <2>1. Fits(v) /\ dim' = Learned(v) /\ UNCHANGED memory
    BY <1>2 DEF PutExists
  <2>2. dim' \in Dims /\ (dim # 0 => dim' = dim)
    BY <2>1 DEF Fits, Learned, Dims, IInv, TypeOK
  <2>3. QED BY <2>1, <2>2 DEF MemoryOK, memory, MapExact, Alive, Slots
<1>3. ASSUME NEW t \in Threads, NEW id \in Ids, Delete(t, id) PROVE MemoryOK'
  <2>1. dim' = dim
    BY <1>3 DEF Delete
  <2>2. QED BY <1>3, <2>1, DeleteMemory DEF IInv, MemoryOK, Slots
<1>4. ASSUME NEW t \in Threads, Free(t) PROVE MemoryOK'
  BY <1>4, MemoryReleased DEF Free
<1>5. ASSUME NEW t \in Threads, NEW id \in Ids, Get(t, id) PROVE MemoryOK'
  BY <1>5, MemorySame DEF Get, object
<1>6. ASSUME NEW t \in Threads, Aside(t) \/ CompactStart(t) PROVE MemoryOK'
  BY <1>6, AsideKeeps, MemorySame DEF CompactStart, object, memory
<1>7. ASSUME NEW t \in Threads, NEW op \in {"flush", "close"}, SaveStart(t, op) PROVE MemoryOK'
  BY <1>7, MemorySame DEF SaveStart, object
<1>8. QED BY <1>1, <1>2, <1>3, <1>4, <1>5, <1>6, <1>7 DEF Calls, Aside

LEMMA MemoryLoop == ASSUME IInv, Loops PROVE MemoryOK'
<1> USE IInvMemory
<1>1. CASE LoadRecord
  <2> DEFINE e == file.recs[task.at]
  <2>1. Store(e.id, e.val) /\ Fits(e.val) /\ dim' = Learned(e.val)
    BY <1>1 DEF LoadRecord, IInv, LoadInv, Fits, Learned
  <2>2. file \in Content /\ task.at \in 1 .. Len(file.recs)
    BY <1>1 DEF LoadRecord, IInv, LoadInv, TypeOK, Content
  <2>3. e \in Entry
    BY <2>2 DEF Content
  <2>4. e.id \in Ids /\ e.val \in Vals
    BY <2>3 DEF Entry
  <2>5. QED BY <2>1, <2>4, StoreMemory DEF IInv, MemoryOK, Slots
<1>2. CASE CompactDone
  <2>1. /\ recs' = build.recs /\ map' = build.map /\ count' = build.count /\ dim' = dim
        /\ Exact(build.recs, build.map, build.count)
        /\ \A s \in 1 .. Len(build.recs) : build.recs[s].val.dim \in {0, dim}
    BY <1>2 DEF CompactDone, IInv, CompactInv
  <2>2. MapExact'
    BY <2>1 DEF MapExact, Exact, Alive, AliveIn, Slots
  <2>3. QED BY <2>1, <2>2 DEF MemoryOK, Slots, IInv, TypeOK
<1>3. CASE SaveRename \/ SaveFails
  <2>1. UNCHANGED <<memory, dim>>
    BY <1>3 DEF SaveRename, SaveFails, SaveEnd
  <2>2. QED BY <2>1, MemorySame
<1>4. CASE LoadDone \/ CompactRecord \/ SaveRecord \/ SaveSync
  BY <1>4, MemorySame DEF LoadDone, CompactRecord, SaveRecord, SaveSync, object
<1>5. CASE LoadFails
  BY <1>5, MemoryReleased DEF LoadFails
<1>6. QED BY <1>1, <1>2, <1>3, <1>4, <1>5 DEF Loops

LEMMA MemoryOther == ASSUME IInv, Others PROVE MemoryOK'
<1> USE IInvMemory
<1>1. ASSUME NEW d \in Dims, OpenNew(d) \/ LoadStart(d) PROVE MemoryOK'
  <2>1. /\ UNCHANGED memory /\ ~open /\ task = NoTask
        /\ dim' = d \/ (dim' = file.dim /\ file # None)
    BY <1>1 DEF OpenNew, LoadStart, Closed
  <2>2. dim' \in Dims
    BY <1>1, <2>1 DEF IInv, TypeOK, Content
  <2>3. recs = <<>>
    BY <2>1 DEF IInv, LockInv, NoTask
  <2>4. QED BY <2>1, <2>2, <2>3 DEF MemoryOK, memory, MapExact, Alive, Slots
<1>2. CASE Crash \/ PowerLoss
  BY <1>2, MemoryReleased DEF Crash, PowerLoss, Die
<1>3. CASE Settle
  BY <1>3, MemorySame DEF Settle, object
<1>4. QED BY <1>1, <1>2, <1>3 DEF Others, Opens

LEMMA MemoryStep == ASSUME IInv, [Next]_vars PROVE MemoryOK'
<1>1. CASE UNCHANGED vars
  BY <1>1, IInvMemory, MemorySame DEF vars, object
<1>2. QED BY <1>1, NextCases, MemoryCall, MemoryLoop, MemoryOther

\* At the end of its loop a save has written a file that loads.
LEMMA SaveComplete ==
    ASSUME IInv, Saving, task.at > Len(recs)
    PROVE  /\ tmp \in Content /\ tmp # None
           /\ Whole(tmp) /\ Stored(tmp) = Present
<1>1. Len(recs) \in Nat /\ task.at \in Nat /\ Slots = 1 .. Len(recs) /\ MapExact
  BY DEF IInv, TypeOK, Slots
<1>2. Before = Alive /\ PairsBefore = Present
  BY <1>1 DEF Before, PairsBefore, Present, Alive
<1>3. tmp \in Content /\ tmp # None /\ SaveInv
  BY DEF IInv, TypeOK, SaveInv
<1>4. tmp.count = Len(tmp.recs)
  BY <1>1, <1>2, <1>3 DEF SaveInv, MapExact
<1>5. \A i \in 1 .. Len(tmp.recs) : tmp.recs[i].val.dim \in {0, tmp.dim}
  <2> SUFFICES ASSUME NEW i \in 1 .. Len(tmp.recs)
               PROVE  tmp.recs[i].val.dim \in {0, tmp.dim}
    OBVIOUS
  <2>1. <<tmp.recs[i].id, tmp.recs[i].val>> \in Present
    BY <1>2, <1>3 DEF SaveInv, Stored
  <2>2. PICK s \in Alive : <<tmp.recs[i].id, tmp.recs[i].val>> = <<recs[s].id, recs[s].val>>
    BY <2>1 DEF Present
  <2>3. QED BY <2>2, <1>3 DEF IInv, LockInv, SaveInv, Alive
<1>6. QED BY <1>2, <1>3, <1>4, <1>5 DEF SaveInv, Whole

LEMMA CountIsNat == IInv => count \in Nat
<1> SUFFICES ASSUME IInv PROVE count \in Nat
  OBVIOUS
<1>1. IsFiniteSet(AliveIn(recs)) /\ AliveIn(recs) = Alive
  BY AliveFinite DEF IInv, TypeOK, AliveIn, Alive, Slots
<1>2. QED BY <1>1, FS_CardinalityType DEF IInv, MapExact

Borrows == [id : Ids \cup {0}, slot : Nat, changed : BOOLEAN, stale : BOOLEAN]
Places == {"out", "in", "lock", "release", "clear", "lost"}

LEMMA CallTypes ==
    ASSUME IInv, [Next]_vars
    PROVE  handle' \in BOOLEAN /\ call' \in [Threads -> Places]
<1>t. handle \in BOOLEAN /\ call \in [Threads -> Places]
  BY DEF IInv, TypeOK, Places
<1>g. ASSUME NEW t \in Threads, NEW p \in Places, Goes(t, p)
      PROVE  handle' \in BOOLEAN /\ call' \in [Threads -> Places]
  BY <1>g, <1>t DEF Goes
<1>h. ASSUME NEW p \in Places, HolderGoes(p)
      PROVE  handle' \in BOOLEAN /\ call' \in [Threads -> Places]
  BY <1>h, <1>t DEF HolderGoes
<1>p. "out" \in Places /\ "in" \in Places /\ "lock" \in Places /\ "release" \in Places
      /\ "clear" \in Places /\ "lost" \in Places
  BY DEF Places
<1>1. CASE UNCHANGED calls
  BY <1>1, <1>t DEF calls
<1>2. CASE Calls
  <2>1. ASSUME NEW t \in Threads, Enter(t) \/ Leave(t) \/ ClearHandle(t) \/ Free(t)
        PROVE  handle' \in BOOLEAN /\ call' \in [Threads -> Places]
    BY <2>1, <1>t, <1>p DEF Enter, Leave, ClearHandle, Free
  <2>2. ASSUME NEW t \in Threads, NEW op, SaveStart(t, op)
        PROVE  handle' \in BOOLEAN /\ call' \in [Threads -> Places]
    BY <2>2, <1>g, <1>p DEF SaveStart
  <2>3. ASSUME NEW t \in Threads, CompactStart(t) \/ CloseClean(t) \/ Copy(t)
        PROVE  handle' \in BOOLEAN /\ call' \in [Threads -> Places]
    BY <2>3, <1>1, <1>g, <1>p DEF CompactStart, CloseClean, Copy
  <2>4. ASSUME NEW t \in Threads, NEW id, Delete(t, id) \/ Get(t, id)
        PROVE  handle' \in BOOLEAN /\ call' \in [Threads -> Places]
    BY <2>4, <1>g, <1>p DEF Delete, Get
  <2>5. ASSUME NEW t \in Threads, NEW id, NEW v, Put(t, id, v) \/ PutExists(t, id, v)
        PROVE  handle' \in BOOLEAN /\ call' \in [Threads -> Places]
    BY <2>5, <1>g, <1>p DEF Put, PutExists
  <2>6. QED BY <1>2, <2>1, <2>2, <2>3, <2>4, <2>5 DEF Calls
<1>3. CASE CompactDone \/ SaveRename \/ SaveFails
  BY <1>3, <1>h, <1>p DEF CompactDone, SaveRename, SaveFails, SaveEnd
<1>4. CASE LoadRecord \/ LoadFails \/ SaveRecord \/ SaveSync \/ CompactRecord
  BY <1>4, <1>1 DEF LoadRecord, LoadFails, SaveRecord, SaveSync, CompactRecord
<1>5. CASE LoadDone \/ Opens
  BY <1>5, <1>1, <1>t DEF LoadDone, Opens, OpenNew, LoadStart, Returned
<1>6. CASE Crash \/ PowerLoss
  BY <1>6, <1>p DEF Crash, PowerLoss, Die
<1>7. CASE Settle \/ UNCHANGED vars
  BY <1>7, <1>1 DEF Settle, vars
<1>8. QED BY <1>2, <1>3, <1>4, <1>5, <1>6, <1>7, NextCases DEF Loops, Others

LEMMA TypeStep == ASSUME IInv, [Next]_vars PROVE TypeOK'
<1>m. MemoryOK'
  BY MemoryStep
<1>a. /\ recs' \in Seq(Record) /\ map' \in [Ids -> Nat] /\ count' \in Int /\ dim' \in Dims
      /\ handle' \in BOOLEAN /\ call' \in [Threads -> Places]
  BY <1>m, CallTypes DEF MemoryOK
<1>t. TypeOK
  BY DEF IInv
<1> USE DEF Borrows, Places
<1>c. ASSUME NEW S, NEW I, Clear(S, I)
      PROVE  borrow' \in [Threads -> Borrows]
  <2>1. borrow \in [Threads -> Borrows]
    BY <1>t DEF TypeOK
  <2>2. ASSUME NEW b \in Borrows, NEW x \in BOOLEAN, NEW y \in BOOLEAN
        PROVE  [b EXCEPT !.changed = @ \/ x, !.stale = @ \/ y] \in Borrows
    <3>1. (b.changed \/ x) \in BOOLEAN /\ (b.stale \/ y) \in BOOLEAN
      BY <2>2, Zenon
    <3>2. QED BY <3>1
  <2>3. ASSUME NEW t \in Threads
        PROVE  [borrow[t] EXCEPT !.changed = @ \/ borrow[t].id \in I,
                                 !.stale = @ \/ borrow[t].slot \in S] \in Borrows
    <3>1. (borrow[t].id \in I) \in BOOLEAN /\ (borrow[t].slot \in S) \in BOOLEAN
      OBVIOUS
    <3>2. borrow[t] \in Borrows
      BY <2>1
    <3>3. QED BY <3>1, <3>2, <2>2, Zenon
  <2>4. QED BY <1>c, <2>3, Zenon DEF Clear
<1>n. NoTask \in [op : {"none", "load", "flush", "close", "compact"}, at : Nat]
  BY DEF NoTask
<1>k. [task EXCEPT !.at = @ + 1] \in [op : {"none", "load", "flush", "close", "compact"}, at : Nat]
  <2>1. task \in [op : {"none", "load", "flush", "close", "compact"}, at : Nat]
    BY <1>t DEF TypeOK
  <2>2. QED BY <2>1
<1>b. NoBuild \in [recs : Seq(Record), map : [Ids -> Nat], count : Nat]
  BY DEF NoBuild, NoMap
<1>1. CASE UNCHANGED vars
  <2>1. UNCHANGED <<handle, call, open, recs, map, count, dim, dirty, task, build, borrow,
                    file, tmp, synced, medium>>
    BY <1>1 DEF vars, calls, object, memory, disk
  <2>2. QED BY <2>1, <1>t, Zenon DEF TypeOK
<1>2. ASSUME NEW t \in Threads, NEW id \in Ids, NEW v \in Vals, Put(t, id, v) \/ PutExists(t, id, v)
      PROVE  TypeOK'
  BY <1>2, <1>a, <1>t, <1>c DEF Put, PutExists, disk, TypeOK
<1>3. ASSUME NEW t \in Threads, NEW id \in Ids, Delete(t, id) PROVE TypeOK'
  BY <1>3, <1>a, <1>t, <1>c DEF Delete, disk, TypeOK
<1>4. ASSUME NEW t \in Threads, NEW id \in Ids, Get(t, id) PROVE TypeOK'
  <2>1. borrow' = [borrow EXCEPT ![t] = [id |-> id, slot |-> map[id], changed |-> FALSE, stale |-> FALSE]]
    BY <1>4 DEF Get, Held
  <2>2. [id |-> id, slot |-> map[id], changed |-> FALSE, stale |-> FALSE] \in Borrows
    BY <1>t DEF TypeOK
  <2>3. QED BY <1>4, <2>1, <2>2, <1>t, <1>a DEF Get, object, memory, disk, TypeOK
<1>5. ASSUME NEW t \in Threads, Aside(t) PROVE TypeOK'
  <2>1. borrow' = borrow \/ borrow' = [borrow EXCEPT ![t] = NoBorrow]
    BY <1>5 DEF Aside, Copy, Enter, Leave, CloseClean, ClearHandle
  <2>2. NoBorrow \in Borrows
    BY DEF NoBorrow
  <2>3. borrow' \in [Threads -> Borrows]
    BY <2>1, <2>2, <1>t DEF TypeOK
  <2>4. QED BY <1>5, <2>3, AsideKeeps, <1>t, <1>a DEF TypeOK
<1>6. ASSUME NEW t \in Threads, CompactStart(t) \/ Free(t) PROVE TypeOK'
  <2>1. CASE CompactStart(t)
    BY <2>1, <1>a, <1>t, <1>b DEF CompactStart, object, memory, disk, TypeOK
  <2>2. CASE Free(t)
    BY <2>2, <1>a, <1>t, <1>c, <1>n, <1>b, ReleaseMemory DEF Free, disk, TypeOK
  <2>3. QED BY <1>6, <2>1, <2>2
<1>7. ASSUME NEW t \in Threads, NEW op \in {"flush", "close"}, SaveStart(t, op) PROVE TypeOK'
  <2>1. count \in Nat
    BY CountIsNat
  <2>2. tmp' \in Content
    BY <1>7, <2>1, <1>t DEF SaveStart, Content, TypeOK
  <2>3. QED BY <1>7, <2>2, <1>a, <1>t DEF SaveStart, object, memory, disk, TypeOK
<1>8. CASE LoadRecord \/ LoadDone
  <2>1. task' \in [op : {"none", "load", "flush", "close", "compact"}, at : Nat]
    BY <1>8, <1>n, <1>k DEF LoadRecord, LoadDone
  <2>2. QED BY <1>8, <2>1, <1>a, <1>t DEF LoadRecord, LoadDone, Returned, object, memory, disk, TypeOK
<1>8a. CASE LoadFails
  BY <1>8a, <1>a, <1>n, <1>t, ReleaseMemory DEF LoadFails, disk, TypeOK
<1>9. CASE CompactRecord
  <2>1. build' \in [recs : Seq(Record), map : [Ids -> Nat], count : Nat]
    <3>1. recs[task.at] \in Record
      BY <1>9, <1>t DEF CompactRecord, Slots, TypeOK
    <3>2. recs[task.at].id \in Ids
      BY <3>1 DEF Record
    <3>3. /\ Append(build.recs, recs[task.at]) \in Seq(Record)
          /\ [build.map EXCEPT ![recs[task.at].id] = Len(build.recs) + 1] \in [Ids -> Nat]
          /\ build.count + 1 \in Nat
      BY <3>1, <3>2, <1>t DEF TypeOK
    <3>4. QED BY <3>3, <1>9, <1>t DEF CompactRecord, TypeOK
  <2>2. QED BY <1>9, <2>1, <1>a, <1>k, <1>t DEF CompactRecord, object, memory, disk, TypeOK
<1>10. CASE CompactDone
  BY <1>10, <1>a, <1>t, <1>c, <1>n, <1>b DEF CompactDone, disk, TypeOK
<1>11. CASE SaveRecord \/ SaveSync
  <2>1. CASE SaveRecord
    <3>1. recs[task.at] \in Record /\ Saving
      BY <2>1, <1>t DEF SaveRecord, Slots, TypeOK
    <3>2. [id |-> recs[task.at].id, val |-> recs[task.at].val] \in Entry
      BY <3>1 DEF Record, Entry
    <3>3. tmp \in Content
      BY <3>1, <1>t DEF IInv, SaveInv, TypeOK
    <3>4. tmp' \in Content
      <4>1. Append(tmp.recs, [id |-> recs[task.at].id, val |-> recs[task.at].val]) \in Seq(Entry)
        BY <3>2, <3>3 DEF Content
      <4>2. QED BY <2>1, <4>1, <3>3 DEF SaveRecord, Content
    <3>5. task' \in [op : {"none", "load", "flush", "close", "compact"}, at : Nat]
      BY <2>1, <1>k DEF SaveRecord
    <3>6. QED BY <2>1, <3>4, <3>5, <1>a, <1>t DEF SaveRecord, object, memory, TypeOK
  <2>2. CASE SaveSync
    BY <2>2, <1>a, <1>t DEF SaveSync, object, memory, TypeOK
  <2>3. QED BY <1>11, <2>1, <2>2
<1>12. CASE SaveRename \/ SaveFails
  <2>1. file' \in Content \cup {None} /\ medium' \subseteq Content \cup {None}
    <3>1. CASE SaveRename
      <4>1. tmp \in Content /\ synced /\ file' = tmp
        BY <3>1, SaveComplete DEF SaveRename, Complete, IInv, TypeOK
      <4>2. Survivors(tmp, synced) = {tmp}
        BY <4>1 DEF Survivors
      <4>3. QED BY <3>1, <4>1, <4>2, <1>t DEF SaveRename, TypeOK
    <3>2. CASE SaveFails
      BY <3>2, <1>t DEF SaveFails, TypeOK
    <3>3. QED BY <1>12, <3>1, <3>2
  <2>2. \E c \in {FALSE, AfterFailure} : SaveEnd(c)
    BY <1>12 DEF SaveRename, SaveFails
  <2>3. PICK c \in BOOLEAN : SaveEnd(c)
    BY <2>2, <1>t DEF AfterFailure, TypeOK
  <2>4. /\ open' \in BOOLEAN /\ dirty' \in BOOLEAN
        /\ borrow' \in [Threads -> Borrows]
    BY <2>3, <1>t DEF SaveEnd, TypeOK
  <2>5. QED BY <2>1, <2>3, <2>4, <1>a, <1>n, <1>t DEF SaveEnd, TypeOK
<1>13. ASSUME NEW d \in Dims, OpenNew(d) \/ LoadStart(d) PROVE TypeOK'
  <2>1. CASE OpenNew(d)
    BY <2>1, <1>a, <1>t DEF OpenNew, Returned, memory, disk, TypeOK
  <2>2. CASE LoadStart(d)
    BY <2>2, <1>a, <1>t DEF LoadStart, disk, TypeOK
  <2>3. QED BY <1>13, <2>1, <2>2
<1>14. CASE Crash \/ PowerLoss
  <2>1. file' \in Content \cup {None} /\ medium' \subseteq Content \cup {None}
    BY <1>14, <1>t DEF Crash, PowerLoss, TypeOK
  <2>2. borrow' = [t \in Threads |-> NoBorrow] /\ tmp' = None /\ synced' = FALSE
        /\ task' = NoTask /\ build' = NoBuild /\ Release
    BY <1>14 DEF Crash, PowerLoss, Die
  <2>3. QED BY <2>1, <2>2, <1>a, <1>n, <1>b, ReleaseMemory DEF NoBorrow, TypeOK
<1>15. CASE Settle
  BY <1>15, <1>a, <1>t DEF Settle, object, memory, TypeOK
<1>16. QED
  BY <1>1, <1>2, <1>3, <1>4, <1>5, <1>6, <1>7, <1>8, <1>8a, <1>9, <1>10, <1>11, <1>12,
     <1>13, <1>14, <1>15, NextCases DEF Calls, Aside, Loops, Others, Opens

\* The calls that take the lock find it free.
LEMMA CallTasks ==
    ASSUME Calls
    PROVE  \/ \E t \in Threads : Aside(t)
           \/ \E t \in Threads, op \in {"flush", "close"} : SaveStart(t, op)
           \/ \E t \in Threads : Free(t)
           \/ open /\ open' = open /\ task = NoTask
              /\ (task' = NoTask \/ task' = [op |-> "compact", at |-> 1])
<1>1. ASSUME NEW t \in Threads, NEW id \in Ids, NEW v \in Vals, Put(t, id, v) \/ PutExists(t, id, v)
      PROVE  open /\ open' = open /\ task = NoTask /\ task' = NoTask
  BY <1>1 DEF Put, PutExists, Ready
<1>2. ASSUME NEW t \in Threads, NEW id \in Ids, Delete(t, id) \/ Get(t, id)
      PROVE  open /\ open' = open /\ task = NoTask /\ task' = NoTask
  BY <1>2 DEF Delete, Get, Ready
<1>3. ASSUME NEW t \in Threads, CompactStart(t)
      PROVE  open /\ open' = open /\ task = NoTask /\ task' = [op |-> "compact", at |-> 1]
  BY <1>3 DEF CompactStart, Ready
<1>4. QED BY <1>1, <1>2, <1>3 DEF Calls, Aside

LEMMA LockStep == ASSUME IInv, [Next]_vars PROVE LockInv'
<1>m. \A s \in Slots' : recs'[s].val.dim \in {0, dim'}
  BY MemoryStep DEF MemoryOK
<1>l. LockInv
  BY DEF IInv
<1>1. CASE UNCHANGED vars
  BY <1>1, <1>l, <1>m DEF vars, object, memory, LockInv
<1>2. CASE Calls
  <2>1. ASSUME NEW t \in Threads, Free(t) PROVE LockInv'
    BY <2>1, <1>m DEF Free, NoTask, Release, LockInv
  <2>2. ASSUME NEW t \in Threads, Aside(t) PROVE LockInv'
    BY <2>2, AsideKeeps, <1>l, <1>m DEF LockInv
  <2>3. CASE /\ Calls
             /\ ~\E t \in Threads : Free(t) \/ Aside(t)
    <3>1. open /\ open' = open
          /\ (task' = NoTask \/ task'.op \in {"flush", "close", "compact"})
      <4>1. ASSUME NEW t \in Threads, NEW op \in {"flush", "close"}, SaveStart(t, op)
            PROVE  open /\ open' = open /\ task'.op \in {"flush", "close", "compact"}
        BY <4>1 DEF SaveStart, Ready
      <4>2. QED BY <2>3, <4>1, CallTasks
    <3>2. QED BY <3>1, <1>m DEF NoTask, LockInv
  <2>4. QED BY <1>2, <2>1, <2>2, <2>3
<1>3. CASE LoadRecord \/ LoadDone \/ CompactRecord \/ CompactDone \/ SaveRecord \/ SaveSync
  BY <1>3, <1>l, <1>m
     DEF LoadRecord, LoadDone, CompactRecord, CompactDone, SaveRecord, SaveSync, Returned,
         Saving, NoTask, object, memory, LockInv, IInv, TypeOK
<1>4. CASE SaveRename \/ SaveFails \/ LoadFails
  BY <1>4, <1>l, <1>m
     DEF SaveRename, SaveFails, LoadFails, SaveEnd, Release, Saving, NoTask, memory, LockInv
<1>5. CASE Others
  BY <1>5, <1>l, <1>m
     DEF Others, Opens, OpenNew, LoadStart, Returned, Closed, Crash, PowerLoss, Die, Settle,
         Release, NoTask, object, memory, LockInv
<1>6. QED BY <1>1, <1>2, <1>3, <1>4, <1>5, NextCases DEF Loops

LEMMA FileStep == ASSUME IInv, [Next]_vars PROVE FileWhole'
<1>1. CASE SaveRename
  <2>1. Whole(tmp) /\ synced /\ file' = tmp /\ medium' = medium \cup Survivors(tmp, synced)
    BY <1>1, SaveComplete DEF SaveRename, Complete, IInv, TypeOK
  <2>2. Survivors(tmp, synced) = {tmp}
    BY <2>1 DEF Survivors
  <2>3. QED BY <2>1, <2>2 DEF IInv, FileWhole, Whole
<1>2. CASE PowerLoss
  BY <1>2 DEF PowerLoss, IInv, FileWhole, Whole
<1>3. CASE Settle
  BY <1>3 DEF Settle, IInv, FileWhole, Whole
<1>4. CASE UNCHANGED vars \/ Calls \/ LoadRecord \/ LoadDone \/ LoadFails
           \/ CompactRecord \/ CompactDone \/ SaveRecord \/ SaveSync \/ SaveFails \/ Crash
           \/ \E d \in Dims : OpenNew(d) \/ LoadStart(d)
  <2>1. file' = file /\ medium' = medium
    BY <1>4, AsideKeeps
       DEF vars, disk, Calls, Aside, Put, PutExists, Delete, Get, CompactStart, Free, SaveStart, LoadRecord, LoadDone, LoadFails, CompactRecord, CompactDone,
                SaveRecord, SaveSync, SaveFails, Crash, OpenNew, LoadStart
  <2>2. QED BY <2>1 DEF IInv, FileWhole, Whole
<1>5. QED BY <1>1, <1>2, <1>3, <1>4, NextCases DEF Loops, Others, Opens

LEMMA LoadStep == ASSUME IInv, [Next]_vars PROVE LoadInv'
<1>1. CASE LoadRecord
  <2> DEFINE e == file.recs[task.at]
  <2>1. /\ LoadInv /\ task.op = "load" /\ task.at \in 1 .. file.count
        /\ file # None /\ file \in Content /\ Whole(file) /\ MapExact
    BY <1>1 DEF IInv, LoadRecord, LoadInv, FileWhole, TypeOK
  <2>2. /\ task.at = Len(recs) + 1 /\ Len(recs) \in Nat /\ Slots = 1 .. Len(recs)
        /\ task.at \in 1 .. Len(file.recs)
    BY <1>1, <2>1 DEF LoadInv, LoadRecord, Slots, IInv, TypeOK
  <2>3. e.id \in Ids
    <3>1. e \in Entry
      BY <2>1, <2>2 DEF Content
    <3>2. QED BY <3>1 DEF Entry
  <2>4. map[e.id] = 0
    <3>1. SUFFICES ASSUME map[e.id] # 0 PROVE FALSE
      OBVIOUS
    <3>2. map[e.id] \in Slots /\ recs[map[e.id]].id = e.id
      BY <2>1, <2>3, <3>1 DEF MapExact, Alive
    <3>3. file.recs[map[e.id]].id = file.recs[task.at].id
      BY <2>1, <3>2 DEF LoadInv
    <3>4. map[e.id] \in 1 .. Len(file.recs) /\ map[e.id] # task.at
      BY <3>2, <2>2
    <3>5. QED BY <3>3, <3>4, <2>1, <2>2 DEF Whole
  <2>5. StoreNew(e.id, e.val) /\ dim' = dim /\ file' = file
        /\ task' = [task EXCEPT !.at = @ + 1]
    BY <1>1, <2>4 DEF LoadRecord, Store, StoreOver, Held, disk
  <2>7. recs' = Append(recs, [id |-> e.id, val |-> e.val, alive |-> TRUE])
    BY <2>5 DEF StoreNew
  <2>8. Len(recs') = Len(recs) + 1 /\ \A s \in Slots : recs'[s] = recs[s]
    BY <2>7, <2>2 DEF IInv, TypeOK
  <2>9. recs'[task.at] = [id |-> e.id, val |-> e.val, alive |-> TRUE]
    BY <2>7, <2>2 DEF IInv, TypeOK
  <2>10. \A s \in 1 .. Len(recs') : /\ recs'[s].alive
                                    /\ recs'[s].id = file.recs[s].id
                                    /\ recs'[s].val = file.recs[s].val
    <3> SUFFICES ASSUME NEW s \in 1 .. Len(recs')
                 PROVE  /\ recs'[s].alive
                        /\ recs'[s].id = file.recs[s].id
                        /\ recs'[s].val = file.recs[s].val
      OBVIOUS
    <3>1. CASE s \in Slots
      BY <3>1, <2>1, <2>8 DEF LoadInv
    <3>2. CASE s = task.at
      BY <3>2, <2>9
    <3>3. QED BY <3>1, <3>2, <2>2, <2>8
  <2>11. task'.at = task.at + 1 /\ file.count \in Nat
    BY <2>1, <2>5 DEF IInv, TypeOK, Content
  <2>12. task'.at = Len(recs') + 1 /\ task'.at <= file'.count + 1
    BY <2>1, <2>2, <2>5, <2>8, <2>11
  <2>13. QED BY <2>1, <2>5, <2>10, <2>12 DEF LoadInv, Slots
<1>2. ASSUME NEW d \in Dims, LoadStart(d) PROVE LoadInv'
  <2>1. recs = <<>> /\ file \in Content
    BY <1>2 DEF LoadStart, Closed, IInv, LockInv, TypeOK, NoTask
  <2>2. QED BY <1>2, <2>1 DEF LoadStart, LoadInv, memory, disk, Slots, Content
<1>3. CASE UNCHANGED vars \/ Settle
  BY <1>3 DEF vars, Settle, object, memory, disk, IInv, LoadInv, Slots
<1>4. ASSUME NEW t \in Threads, Aside(t) PROVE LoadInv'
  BY <1>4, AsideKeeps DEF IInv, LoadInv, Slots
<1>5. CASE /\ Calls \/ LoadDone \/ LoadFails \/ CompactRecord \/ CompactDone \/ SaveRecord \/ SaveSync
              \/ SaveRename \/ SaveFails \/ Crash \/ PowerLoss \/ \E d \in Dims : OpenNew(d)
           /\ ~\E t \in Threads : Aside(t)
  <2>1. CASE Calls
    <3>1. ASSUME NEW t \in Threads, NEW op \in {"flush", "close"}, SaveStart(t, op) PROVE LoadInv'
      BY <3>1 DEF SaveStart, LoadInv
    <3>2. ASSUME NEW t \in Threads, Free(t) PROVE LoadInv'
      BY <3>2 DEF Free, NoTask, LoadInv
    <3>3. QED BY <2>1, <1>5, <3>1, <3>2, CallTasks DEF NoTask, LoadInv
  <2>2. CASE CompactRecord \/ SaveRecord \/ SaveSync
    <3>1. task'.op = task.op /\ task.op # "load"
      BY <2>2 DEF CompactRecord, SaveRecord, SaveSync, Saving, IInv, TypeOK
    <3>2. QED BY <3>1 DEF LoadInv
  <2>3. CASE LoadDone \/ LoadFails \/ CompactDone \/ SaveRename \/ SaveFails \/ Crash
             \/ PowerLoss \/ \E d \in Dims : OpenNew(d)
    BY <2>3 DEF LoadDone, LoadFails, CompactDone, SaveRename, SaveFails, SaveEnd, Crash, PowerLoss, Die,
                OpenNew, Closed, NoTask, LoadInv
  <2>4. QED BY <1>5, <2>1, <2>2, <2>3
<1>6. QED BY <1>1, <1>2, <1>3, <1>4, <1>5, NextCases DEF Loops, Others, Opens

\* The loops go from slot to slot.
LEMMA BeforeNext ==
    ASSUME TypeOK, task.at \in Slots, task' = [task EXCEPT !.at = @ + 1], recs' = recs
    PROVE  /\ Before' = IF recs[task.at].alive THEN Before \cup {task.at} ELSE Before
           /\ PairsBefore' = IF recs[task.at].alive
                             THEN PairsBefore \cup {<<recs[task.at].id, recs[task.at].val>>}
                             ELSE PairsBefore
           /\ task.at \notin Before /\ IsFiniteSet(Before)
<1>1. task'.at = task.at + 1 /\ task.at \in Nat /\ Alive' = Alive /\ Alive \subseteq Slots
      /\ Slots = 1 .. Len(recs) /\ Len(recs) \in Nat
  BY DEF TypeOK, Alive, Slots
<1>2. Before' = IF recs[task.at].alive THEN Before \cup {task.at} ELSE Before
  BY <1>1 DEF Before, Alive
<1>3. PairsBefore' = {<<recs[s].id, recs[s].val>> : s \in Before'}
  BY DEF PairsBefore
<1>4. PairsBefore' = IF recs[task.at].alive
                     THEN PairsBefore \cup {<<recs[task.at].id, recs[task.at].val>>}
                     ELSE PairsBefore
  BY <1>2, <1>3 DEF PairsBefore
<1>5. IsFiniteSet(Slots) /\ Before \subseteq Slots
  <2>1. Len(recs) \in Int
    BY <1>1
  <2>2. IsFiniteSet(1 .. Len(recs))
    BY <2>1, FS_Interval
  <2>3. QED BY <1>1, <2>2 DEF Before
<1>6. QED BY <1>1, <1>2, <1>4, <1>5, FS_Subset DEF Before

LEMMA BeforeFirst ==
    ASSUME TypeOK, task.at = 1 PROVE Before = {} /\ PairsBefore = {}
BY DEF TypeOK, Before, PairsBefore, Alive, Slots

LEMMA SaveStep == ASSUME IInv, [Next]_vars PROVE SaveInv'
<1>1. ASSUME NEW t \in Threads, NEW op \in {"flush", "close"}, SaveStart(t, op) PROVE SaveInv'
  <2>1. /\ task' = [op |-> op, at |-> 1] /\ dirty' /\ TypeOK'
        /\ tmp' = [dim |-> dim, count |-> count, recs |-> <<>>]
        /\ dim' = dim /\ count' = count /\ recs' = recs
    BY <1>1, TypeStep DEF SaveStart, object, memory
  <2>2. Before' = {} /\ PairsBefore' = {}
    <3>1. (TypeOK /\ task.at = 1 => Before = {} /\ PairsBefore = {})'
      BY BeforeFirst, PTL
    <3>2. QED BY <2>1, <3>1
  <2>3. tmp' # None /\ tmp'.recs = <<>> /\ Stored(tmp') = {}
    <3>1. tmp' \in Content
      BY <2>1, IInvMemory, CountIsNat DEF MemoryOK, Content
    <3>2. QED BY <2>1, <3>1, DbAssumption DEF Stored
  <2>4. Cardinality({}) = 0
    BY FS_EmptySet
  <2>5. QED BY <2>1, <2>2, <2>3, <2>4 DEF SaveInv, TypeOK
<1>2. CASE SaveRecord
  <2> DEFINE e == [id |-> recs[task.at].id, val |-> recs[task.at].val]
             n == Len(tmp.recs) + 1
  <2>1. /\ Saving /\ SaveInv /\ TypeOK /\ task.at \in Slots
        /\ task' = [task EXCEPT !.at = @ + 1] /\ recs' = recs /\ dim' = dim /\ count' = count
        /\ dirty' = dirty /\ tmp \in Content /\ MapExact
    BY <1>2 DEF SaveRecord, object, memory, IInv, SaveInv, TypeOK
  <2>2. task'.op = task.op /\ task'.at = task.at + 1 /\ task'.at \in 1 .. Len(recs) + 1
    BY <2>1 DEF TypeOK, Slots
  <2>3. /\ Before' = IF recs[task.at].alive THEN Before \cup {task.at} ELSE Before
        /\ PairsBefore' = IF recs[task.at].alive
                          THEN PairsBefore \cup {<<recs[task.at].id, recs[task.at].val>>}
                          ELSE PairsBefore
        /\ task.at \notin Before /\ IsFiniteSet(Before)
    BY <2>1, BeforeNext
  <2>4. CASE ~recs[task.at].alive
    <3>1. tmp' = tmp /\ Before' = Before /\ PairsBefore' = PairsBefore
      BY <2>3, <2>4, <1>2 DEF SaveRecord, Written
    <3>2. QED BY <2>1, <2>2, <3>1 DEF SaveInv, Saving, Stored
  <2>5. CASE recs[task.at].alive
    <3>1. tmp' = [tmp EXCEPT !.recs = Append(@, e)]
      BY <2>5, <1>2 DEF SaveRecord, Written
    <3>2. /\ tmp'.recs = Append(tmp.recs, e) /\ tmp'.dim = tmp.dim /\ tmp'.count = tmp.count
          /\ tmp.recs \in Seq(Entry)
      BY <3>1, <2>1 DEF Content
    <3>3. e \in Entry
      BY <2>1, RecordTypes DEF TypeOK, Slots, Entry
    <3>4. /\ tmp'.recs \in Seq(Entry) /\ Len(tmp'.recs) = n /\ n \in Nat /\ tmp'.recs[n] = e
          /\ \A i \in 1 .. Len(tmp.recs) : tmp'.recs[i] = tmp.recs[i]
      BY <3>2, <3>3
    <3>5. Len(tmp'.recs) = Cardinality(Before')
      <4>1. Cardinality(Before \cup {task.at}) = Cardinality(Before) + 1
        BY <2>3, FS_AddElement
      <4>2. QED BY <4>1, <2>1, <2>3, <2>5, <3>4 DEF SaveInv
    <3>6. tmp' \in Content /\ tmp' # None
      BY <3>2, <3>4, <2>1, <3>1, DbAssumption DEF Content
    <3>7. Stored(tmp') = PairsBefore'
      <4>1. Stored(tmp') = Stored(tmp) \cup {<<e.id, e.val>>}
        <5>1. 1 .. n = (1 .. Len(tmp.recs)) \cup {n}
          BY <3>4
        <5>2. tmp # None
          BY <2>1 DEF SaveInv
        <5>3. QED BY <3>4, <3>6, <5>1, <5>2 DEF Stored
      <4>2. QED BY <4>1, <2>1, <2>3, <2>5 DEF SaveInv
    <3>8. \A i \in 1 .. Len(tmp.recs) : tmp.recs[i].id # e.id
      <4> SUFFICES ASSUME NEW i \in 1 .. Len(tmp.recs), tmp.recs[i].id = e.id PROVE FALSE
        OBVIOUS
      <4>1. <<tmp.recs[i].id, tmp.recs[i].val>> \in PairsBefore
        BY <2>1 DEF SaveInv, Stored
      <4>2. PICK s \in Before : recs[s].id = tmp.recs[i].id
        BY <4>1 DEF PairsBefore
      <4>3. s \in Alive /\ task.at \in Alive /\ recs[s].id = recs[task.at].id
        BY <4>2, <2>1, <2>5 DEF Before, Alive
      <4>4. s = task.at
        BY <4>3, <2>1 DEF MapExact
      <4>5. QED BY <4>4, <2>3
    <3>9. \A i, j \in 1 .. Len(tmp'.recs) : tmp'.recs[i].id = tmp'.recs[j].id => i = j
      <4> SUFFICES ASSUME NEW i \in 1 .. n, NEW j \in 1 .. n,
                          tmp'.recs[i].id = tmp'.recs[j].id
                   PROVE  i = j
        BY <3>4
      <4>1. \A k \in 1 .. n : k = n \/ k \in 1 .. Len(tmp.recs)
        BY <3>4
      <4>2. CASE i # n /\ j # n
        BY <4>1, <4>2, <3>4, <2>1 DEF SaveInv
      <4>3. CASE i = n \/ j = n
        BY <4>1, <4>3, <3>4, <3>8
      <4>4. QED BY <4>2, <4>3
    <3>10. QED BY <2>1, <2>2, <3>2, <3>5, <3>6, <3>7, <3>9 DEF SaveInv, Saving
  <2>6. QED BY <2>4, <2>5
<1>3. CASE SaveSync \/ UNCHANGED vars \/ Settle \/ \E t \in Threads : Aside(t)
  <2>1. UNCHANGED <<recs, dim, count, dirty, task, tmp>>
    BY <1>3, AsideKeeps DEF SaveSync, vars, Settle, object, memory, disk
  <2>2. UNCHANGED <<Before, PairsBefore, Saving>>
    BY <2>1 DEF Before, PairsBefore, Alive, Slots, Saving
  <2>3. QED BY <2>1, <2>2 DEF IInv, SaveInv, Stored
<1>4. ASSUME Calls \/ Loops \/ Others,
             ~\E t \in Threads, op \in {"flush", "close"} : SaveStart(t, op),
             ~SaveRecord, ~SaveSync, ~Settle, ~\E t \in Threads : Aside(t)
      PROVE  ~Saving'
  <2>1. CASE Calls
    BY <2>1, <1>4, CallTasks DEF Free, NoTask, Saving
  <2>2. CASE Loops
    <3>1. CASE LoadRecord \/ CompactRecord
      BY <3>1 DEF LoadRecord, CompactRecord, Saving, IInv, TypeOK
    <3>2. CASE LoadDone \/ LoadFails \/ CompactDone \/ SaveRename \/ SaveFails
      BY <3>2 DEF LoadDone, LoadFails, CompactDone, SaveRename, SaveFails, SaveEnd, NoTask, Saving
    <3>3. QED BY <2>2, <3>1, <3>2, <1>4 DEF Loops
  <2>3. CASE Others
    BY <2>3, <1>4 DEF Others, Opens, OpenNew, LoadStart, Closed, Crash, PowerLoss, Die, NoTask, Saving
  <2>4. QED BY <1>4, <2>1, <2>2, <2>3
<1>5. QED BY <1>1, <1>2, <1>3, <1>4, NextCases DEF SaveInv

LEMMA CompactStep == ASSUME IInv, [Next]_vars PROVE CompactInv'
<1>1. ASSUME NEW t \in Threads, CompactStart(t) PROVE CompactInv'
  <2>1. task' = [op |-> "compact", at |-> 1] /\ TypeOK' /\ build' = NoBuild /\ recs' = recs
    BY <1>1, TypeStep DEF CompactStart, object, memory
  <2>2. PairsBefore' = {}
    <3>1. (TypeOK /\ task.at = 1 => Before = {} /\ PairsBefore = {})'
      BY BeforeFirst, PTL
    <3>2. QED BY <2>1, <3>1
  <2>3. Exact(build'.recs, build'.map, build'.count) /\ PairsIn(build'.recs) = {}
        /\ Len(build'.recs) = 0
    BY <2>1, ExactEmpty DEF NoBuild, PairsIn
  <2>4. QED BY <2>1, <2>2, <2>3 DEF CompactInv, TypeOK
<1>2. CASE CompactRecord
  <2> DEFINE id == recs[task.at].id
             v == recs[task.at].val
  <2>1. /\ CompactInv /\ task.op = "compact" /\ TypeOK /\ MapExact /\ task.at \in Slots
        /\ task' = [task EXCEPT !.at = @ + 1] /\ recs' = recs /\ dim' = dim
    BY <1>2 DEF CompactRecord, object, memory, IInv
  <2>2. task'.op = "compact" /\ task'.at = task.at + 1 /\ task'.at \in 1 .. Len(recs) + 1
    BY <2>1 DEF TypeOK, Slots
  <2>3. /\ PairsBefore' = IF recs[task.at].alive THEN PairsBefore \cup {<<id, v>>} ELSE PairsBefore
        /\ task.at \notin Before
    BY <2>1, BeforeNext
  <2>4. CASE ~recs[task.at].alive
    <3>1. build' = build
      BY <2>4, <1>2 DEF CompactRecord
    <3>2. QED BY <2>1, <2>2, <2>3, <2>4, <3>1 DEF CompactInv
  <2>5. CASE recs[task.at].alive
    <3>1. build' = [recs |-> Append(build.recs, recs[task.at]),
                    map |-> [build.map EXCEPT ![id] = Len(build.recs) + 1],
                    count |-> build.count + 1]
      BY <2>5, <1>2 DEF CompactRecord
    <3>2. id \in Ids /\ v \in Vals /\ recs[task.at] = [id |-> id, val |-> v, alive |-> TRUE]
      <4>1. recs[task.at] \in Record
        BY <2>1 DEF TypeOK, Slots
      <4>2. QED BY <4>1, <2>5 DEF Record
    <3>3. build.map[id] = 0
      <4> SUFFICES ASSUME build.map[id] # 0 PROVE FALSE
        OBVIOUS
      <4>1. build.map[id] \in AliveIn(build.recs) /\ build.recs[build.map[id]].id = id
        BY <2>1, <3>2 DEF CompactInv, Exact
      <4>2. PICK w : <<id, w>> \in PairsBefore
        BY <4>1, <2>1 DEF CompactInv, PairsIn
      <4>3. PICK s \in Before : recs[s].id = id
        BY <4>2 DEF PairsBefore
      <4>4. s \in Alive /\ task.at \in Alive
        BY <4>3, <2>1, <2>5 DEF Before, Alive
      <4>5. s = task.at
        BY <4>3, <4>4, <2>1 DEF MapExact
      <4>6. QED BY <4>5, <2>3
    <3>4. /\ build.recs \in Seq(Record) /\ build.map \in [Ids -> Nat] /\ build.count \in Int
          /\ Exact(build.recs, build.map, build.count)
      BY <2>1 DEF TypeOK, CompactInv
    <3>5. /\ Exact(build'.recs, build'.map, build'.count)
          /\ PairsIn(build'.recs) = PairsIn(build.recs) \cup {<<id, v>>}
      <4>1. /\ recs[task.at] \in Record /\ recs[task.at].alive
            /\ build.map[recs[task.at].id] = 0
        BY <3>2, <3>3, <2>5 DEF Record
      <4>2. PICK e : e = recs[task.at]
        OBVIOUS
      <4>3. /\ Exact(Append(build.recs, e), [build.map EXCEPT ![e.id] = Len(build.recs) + 1],
                     build.count + 1)
            /\ PairsIn(Append(build.recs, e)) = PairsIn(build.recs) \cup {<<e.id, e.val>>}
        BY <3>4, <4>1, <4>2, ExactAppend
      <4>4. /\ build'.recs = Append(build.recs, e) /\ build'.count = build.count + 1
            /\ build'.map = [build.map EXCEPT ![e.id] = Len(build.recs) + 1]
        BY <3>1, <4>2
      <4>5. QED BY <4>2, <4>3, <4>4
    <3>6. /\ Len(build'.recs) = Len(build.recs) + 1
          /\ build'.recs[Len(build.recs) + 1] = recs[task.at]
          /\ \A s \in 1 .. Len(build.recs) : build'.recs[s] = build.recs[s]
      BY <3>1, <3>2, <3>4 DEF Record
    <3>7. v.dim \in {0, dim}
      BY <2>1 DEF IInv, LockInv
    <3>8. \A s \in 1 .. Len(build'.recs) :
             build'.recs[s].alive /\ build'.recs[s].val.dim \in {0, dim}
      <4> SUFFICES ASSUME NEW s \in 1 .. Len(build'.recs)
                   PROVE  build'.recs[s].alive /\ build'.recs[s].val.dim \in {0, dim}
        OBVIOUS
      <4>1. s \in 1 .. Len(build.recs) \/ s = Len(build.recs) + 1
        BY <3>4, <3>6
      <4>2. CASE s \in 1 .. Len(build.recs)
        BY <4>2, <3>6, <2>1 DEF CompactInv
      <4>3. CASE s = Len(build.recs) + 1
        BY <4>3, <3>6, <3>7, <2>5
      <4>4. QED BY <4>1, <4>2, <4>3
    <3>9. PairsIn(build'.recs) = PairsBefore'
      BY <3>5, <2>1, <2>3, <2>5 DEF CompactInv
    <3>10. QED BY <2>1, <2>2, <3>5, <3>8, <3>9 DEF CompactInv
  <2>6. QED BY <2>4, <2>5
<1>3. CASE UNCHANGED vars \/ Settle \/ \E t \in Threads : Aside(t)
  <2>1. UNCHANGED <<recs, dim, task, build>>
    BY <1>3, AsideKeeps DEF vars, Settle, object, memory, disk
  <2>2. UNCHANGED PairsBefore
    BY <2>1 DEF Before, PairsBefore, Alive, Slots
  <2>3. QED BY <2>1, <2>2 DEF IInv, CompactInv
<1>4. ASSUME Calls \/ Loops \/ Others,
             ~\E t \in Threads : CompactStart(t) \/ Aside(t), ~CompactRecord, ~Settle
      PROVE  task'.op # "compact"
  <2>1. CASE Calls
    <3>1. ASSUME NEW t \in Threads, NEW id \in Ids, NEW v \in Vals, Put(t, id, v) \/ PutExists(t, id, v)
          PROVE  task' = NoTask
      BY <3>1 DEF Put, PutExists, Ready
    <3>2. ASSUME NEW t \in Threads, NEW id \in Ids, Delete(t, id) \/ Get(t, id)
          PROVE  task' = NoTask
      BY <3>2 DEF Delete, Get, Ready
    <3>3. ASSUME NEW t \in Threads, Free(t) PROVE task' = NoTask
      BY <3>3 DEF Free
    <3>4. ASSUME NEW t \in Threads, NEW op \in {"flush", "close"}, SaveStart(t, op)
          PROVE  task'.op # "compact"
      BY <3>4 DEF SaveStart
    <3>5. QED BY <2>1, <3>1, <3>2, <3>3, <3>4, <1>4 DEF Calls, Aside, NoTask
  <2>2. CASE Loops
    <3>1. CASE LoadRecord \/ SaveRecord \/ SaveSync
      BY <3>1 DEF LoadRecord, SaveRecord, SaveSync, Saving, IInv, TypeOK
    <3>2. CASE LoadDone \/ LoadFails \/ CompactDone \/ SaveRename \/ SaveFails
      BY <3>2 DEF LoadDone, LoadFails, CompactDone, SaveRename, SaveFails, SaveEnd, NoTask
    <3>3. QED BY <2>2, <3>1, <3>2, <1>4 DEF Loops
  <2>3. CASE Others
    BY <2>3, <1>4 DEF Others, Opens, OpenNew, LoadStart, Closed, Crash, PowerLoss, Die, NoTask
  <2>4. QED BY <1>4, <2>1, <2>2, <2>3
<1>5. QED BY <1>1, <1>2, <1>3, <1>4, NextCases DEF CompactInv

LEMMA CleanStep == ASSUME IInv, [Next]_vars PROVE CleanIsSaved'
<1>1. CASE SaveRename
  <2>1. /\ Stored(tmp) = Present /\ file' = tmp
    BY <1>1, SaveComplete DEF SaveRename, Complete, IInv, TypeOK
  <2>2. recs' = recs
    BY <1>1 DEF SaveRename, SaveEnd, memory
  <2>3. QED BY <2>1, <2>2 DEF CleanIsSaved, Present, Alive, Slots, Stored
<1>2. CASE LoadDone
  <2>1. /\ LoadInv /\ task.op = "load" /\ task.at > file.count /\ file \in Content /\ file # None
        /\ Whole(file) /\ Len(recs) \in Nat
    BY <1>2 DEF LoadDone, IInv, LoadInv, FileWhole, TypeOK
  <2>2. Len(recs) = Len(file.recs) /\ Slots = 1 .. Len(file.recs)
    BY <2>1 DEF LoadInv, Whole, Content, Slots
  <2>3. Alive = Slots
    BY <2>1 DEF LoadInv, Alive
  <2>4. Stored(file) = Present
    BY <2>1, <2>2, <2>3 DEF Stored, Present, LoadInv
  <2>5. recs' = recs /\ file' = file
    BY <1>2 DEF LoadDone, memory, disk
  <2>6. QED BY <2>4, <2>5 DEF CleanIsSaved, Present, Alive, Slots, Stored
<1>3. CASE SaveFails
  <2>1. UNCHANGED <<recs, file, open, dirty>>
    BY <1>3 DEF SaveFails, SaveEnd, AfterFailure, memory
  <2>2. QED BY <2>1 DEF IInv, CleanIsSaved, Present, Alive, Slots, Stored
<1>4. ASSUME UNCHANGED <<recs, file, open, dirty>> PROVE CleanIsSaved'
  BY <1>4 DEF IInv, CleanIsSaved, Present, Alive, Slots, Stored
<1>5. CASE Calls
  <2>1. ASSUME NEW t \in Threads, NEW id \in Ids, NEW v \in Vals, Put(t, id, v) PROVE dirty'
    BY <2>1 DEF Put
  <2>2. ASSUME NEW t \in Threads, NEW id \in Ids, Delete(t, id) PROVE dirty'
    BY <2>2 DEF Delete
  <2>3. ASSUME NEW t \in Threads, Free(t) PROVE ~open'
    BY <2>3 DEF Free, Release
  <2>4. ASSUME NEW t \in Threads, NEW id \in Ids, NEW v \in Vals, PutExists(t, id, v)
        PROVE  UNCHANGED <<recs, file, open, dirty>>
    BY <2>4 DEF PutExists, memory, disk
  <2>5. ASSUME NEW t \in Threads, NEW id \in Ids, Get(t, id)
        PROVE  UNCHANGED <<recs, file, open, dirty>>
    BY <2>5 DEF Get, object, memory, disk
  <2>6. ASSUME NEW t \in Threads, Aside(t) \/ CompactStart(t)
        PROVE  UNCHANGED <<recs, file, open, dirty>>
    BY <2>6, AsideKeeps DEF CompactStart, object, memory, disk
  <2>7. ASSUME NEW t \in Threads, NEW op \in {"flush", "close"}, SaveStart(t, op)
        PROVE  UNCHANGED <<recs, file, open, dirty>>
    BY <2>7 DEF SaveStart, object, memory
  <2>8. QED BY <1>5, <2>1, <2>2, <2>3, <2>4, <2>5, <2>6, <2>7, <1>4 DEF Calls, Aside, CleanIsSaved
<1>6. CASE LoadRecord \/ CompactDone
  BY <1>6 DEF LoadRecord, CompactDone, CleanIsSaved
<1>7. CASE CompactRecord \/ SaveRecord \/ SaveSync \/ Settle \/ UNCHANGED vars
  BY <1>7, <1>4 DEF CompactRecord, SaveRecord, SaveSync, Settle, vars, object, memory, disk
<1>8. CASE Opens \/ LoadFails \/ Crash \/ PowerLoss
  BY <1>8 DEF Opens, Closed, OpenNew, LoadStart, LoadFails, Crash, PowerLoss, Die, Release, CleanIsSaved
<1>9. QED BY <1>1, <1>2, <1>3, <1>5, <1>6, <1>7, <1>8, NextCases DEF Loops, Others

LEMMA InitStep == Init => IInv
<1> SUFFICES ASSUME Init PROVE IInv
  OBVIOUS
<1>1. /\ open = FALSE /\ recs = <<>> /\ map = NoMap /\ count = 0 /\ dim = 0 /\ dirty = FALSE
      /\ handle = FALSE /\ call = [t \in Threads |-> "out"]
      /\ task = NoTask /\ build = NoBuild /\ borrow = [t \in Threads |-> NoBorrow]
      /\ file = None /\ tmp = None /\ synced = FALSE /\ medium = {None}
  BY DEF Init
<1>2. TypeOK
  <2>1. NoTask \in [op : {"none", "load", "flush", "close", "compact"}, at : Nat]
    BY DEF NoTask
  <2>2. NoBuild \in [recs : Seq(Record), map : [Ids -> Nat], count : Nat] /\ NoMap \in [Ids -> Nat]
    BY DEF NoBuild, NoMap
  <2>3. [t \in Threads |-> NoBorrow] \in [Threads -> Borrows]
        /\ [t \in Threads |-> "out"] \in [Threads -> Places]
    BY DEF NoBorrow, Borrows, Places
  <2>4. recs \in Seq(Record) /\ dim \in Dims /\ count \in Int
    BY <1>1 DEF Dims
  <2>7. handle \in BOOLEAN /\ open \in BOOLEAN /\ dirty \in BOOLEAN /\ synced \in BOOLEAN
    BY <1>1, Zenon
  <2>5. /\ file \in Content \cup {None} /\ tmp \in Content \cup {None}
        /\ medium \subseteq Content \cup {None}
    BY <1>1
  <2>6. QED BY <1>1, <2>1, <2>2, <2>3, <2>4, <2>5, <2>7, Zenon DEF TypeOK, Borrows, Places
<1>3. MapExact
  <2>1. Exact(recs, map, count)
    BY <1>1, ExactEmpty
  <2>2. QED BY <2>1, MapIsExact
<1>4. FileWhole /\ CleanIsSaved /\ LoadInv /\ SaveInv /\ CompactInv
  BY <1>1 DEF FileWhole, CleanIsSaved, LoadInv, SaveInv, CompactInv, Saving, NoTask
<1>5. LockInv
  BY <1>1 DEF LockInv, NoTask, Slots
<1>6. QED BY <1>2, <1>3, <1>4, <1>5 DEF IInv

THEOREM Invariance == Spec => []IInv
<1>1. IInv /\ [Next]_vars => IInv'
  <2> SUFFICES ASSUME IInv, [Next]_vars PROVE IInv'
    OBVIOUS
  <2>1. MapExact'
    BY MemoryStep DEF MemoryOK
  <2>2. QED
    BY <2>1, TypeStep, FileStep, CleanStep, LockStep, LoadStep, SaveStep, CompactStep DEF IInv
<1>2. QED BY <1>1, InitStep, PTL DEF Spec

\* Whatever a crash, a failed write or a loss of power interrupts, the path
\* holds no file or one that is whole (db_save).
THEOREM FileStaysWhole == Spec => []FileWhole
<1>1. IInv => FileWhole
  BY DEF IInv
<1>2. QED BY <1>1, Invariance, PTL

\* Each record is found by its id, and the count is that of the records
\* (put_locked, vecdb_delete, vecdb_compact, db_load).
THEOREM MapStaysExact == Spec => []MapExact
<1>1. IInv => MapExact
  BY DEF IInv
<1>2. QED BY <1>1, Invariance, PTL

\* What is not dirty is in the file (vecdb_flush, vecdb_close, db_load).
THEOREM CleanMeansSaved == Spec => []CleanIsSaved
<1>1. IInv => CleanIsSaved
  BY DEF IInv
<1>2. QED BY <1>1, Invariance, PTL

-----------------------------------------------------------------------------
(***************************************************************************)
(* What a get has borrowed.  No other id leads to its slot (SlotsApart),   *)
(* so what is done to another id leaves it alone; a compaction and the end *)
(* of a close change every id.                                             *)
(***************************************************************************)
BorrowInv ==
    /\ BorrowedUntilChanged
    /\ \A t \in Threads : Getting(t) => borrow[t].id \in Ids

LEMMA SlotsApart ==
    ASSUME MapExact
    PROVE  \A i, j \in Ids : i # j /\ map[i] # 0 => map[i] # map[j]
BY DEF MapExact

LEMMA BorrowKept ==
    ASSUME BorrowInv, UNCHANGED borrow, open => open' /\ map' = map
    PROVE  BorrowInv'
BY DEF BorrowInv, BorrowedUntilChanged, Getting

LEMMA BorrowCleared ==
    ASSUME TypeOK, BorrowInv, NEW S, NEW I, Clear(S, I),
           \A t \in Threads : Getting(t) /\ ~borrow[t].changed /\ borrow[t].id \notin I =>
               open' /\ borrow[t].slot \notin S /\ map'[borrow[t].id] = borrow[t].slot
    PROVE  BorrowInv'
<1> SUFFICES ASSUME NEW t \in Threads, Getting(t)'
             PROVE  /\ borrow'[t].id \in Ids
                    /\ ~borrow'[t].changed =>
                           open' /\ ~borrow'[t].stale /\ map'[borrow'[t].id] = borrow'[t].slot
  BY DEF BorrowInv, BorrowedUntilChanged, Getting
<1>1. borrow[t] \in Borrows
  BY DEF TypeOK, Borrows
<1>2. borrow'[t] = [borrow[t] EXCEPT !.changed = @ \/ borrow[t].id \in I,
                                     !.stale = @ \/ borrow[t].slot \in S]
  BY DEF Clear
<1>3. /\ borrow'[t].id = borrow[t].id /\ borrow'[t].slot = borrow[t].slot
      /\ borrow'[t].changed <=> (borrow[t].changed \/ borrow[t].id \in I)
      /\ borrow'[t].stale <=> (borrow[t].stale \/ borrow[t].slot \in S)
  BY <1>1, <1>2, Zenon DEF Borrows
<1>4. Getting(t)
  BY <1>3 DEF Getting
<1>5. QED BY <1>3, <1>4 DEF BorrowInv, BorrowedUntilChanged

\* What is done to one id.
LEMMA BorrowOfOthers ==
    ASSUME IInv, BorrowInv, NEW id \in Ids, NEW S, S \subseteq {map[id]}, 0 \notin S,
           Clear(S, {id}), open', \A i \in Ids \ {id} : map'[i] = map[i]
    PROVE  BorrowInv'
<1> SUFFICES ASSUME NEW t \in Threads, Getting(t), ~borrow[t].changed, borrow[t].id # id
             PROVE  borrow[t].slot \notin S /\ map'[borrow[t].id] = borrow[t].slot
  BY BorrowCleared DEF IInv
<1>1. borrow[t].id \in Ids /\ map[borrow[t].id] = borrow[t].slot /\ borrow[t].slot # 0
  BY DEF BorrowInv, BorrowedUntilChanged, Getting
<1>2. map[borrow[t].id] # map[id]
  BY <1>1, SlotsApart DEF IInv
<1>3. QED BY <1>1, <1>2

\* What is done to every id.
LEMMA BorrowOfAll ==
    ASSUME IInv, BorrowInv, NEW S, Clear(S, Ids) PROVE BorrowInv'
<1>1. \A t \in Threads : Getting(t) => borrow[t].id \in Ids
  BY DEF BorrowInv
<1>2. QED BY <1>1, BorrowCleared DEF IInv

LEMMA BorrowStep == ASSUME IInv, BorrowInv, [Next]_vars PROVE BorrowInv'
<1>1. ASSUME NEW t \in Threads, NEW id \in Ids, NEW v \in Vals, Put(t, id, v)
      PROVE  BorrowInv'
  <2>1. /\ Clear({map[id]} \ {0}, {id}) /\ open' = open /\ open /\ Store(id, v)
        /\ map \in [Ids -> Nat]
    BY <1>1 DEF Put, Ready, Held, IInv, TypeOK
  <2>2. \A i \in Ids \ {id} : map'[i] = map[i]
    BY <2>1 DEF Store, StoreOver, StoreNew
  <2>3. QED BY <2>1, <2>2, BorrowOfOthers
<1>2. ASSUME NEW t \in Threads, NEW id \in Ids, Delete(t, id) PROVE BorrowInv'
  <2>1. /\ Clear({map[id]}, {id}) /\ open' = open /\ open /\ map[id] # 0
        /\ map' = [map EXCEPT ![id] = 0] /\ map \in [Ids -> Nat]
    BY <1>2 DEF Delete, Ready, Held, IInv, TypeOK
  <2>2. \A i \in Ids \ {id} : map'[i] = map[i]
    BY <2>1
  <2>3. QED BY <2>1, <2>2, BorrowOfOthers
<1>3. ASSUME NEW t \in Threads, NEW id \in Ids, NEW v \in Vals, PutExists(t, id, v)
      PROVE  BorrowInv'
  BY <1>3, BorrowKept DEF PutExists, memory
<1>4. ASSUME NEW t \in Threads, NEW id \in Ids, Get(t, id) PROVE BorrowInv'
  <2> DEFINE b == [id |-> id, slot |-> map[id], changed |-> FALSE, stale |-> FALSE]
  <2>1. open /\ open' = open /\ map' = map /\ borrow' = [borrow EXCEPT ![t] = b]
    BY <1>4 DEF Get, Ready, Held, object, memory
  <2>2. borrow'[t] = b /\ \A u \in Threads \ {t} : borrow'[u] = borrow[u]
    BY <2>1 DEF IInv, TypeOK
  <2>3. QED BY <2>1, <2>2 DEF BorrowInv, BorrowedUntilChanged, Getting
<1>5. ASSUME NEW t \in Threads, Copy(t) PROVE BorrowInv'
  <2>1. open' = open /\ map' = map /\ borrow' = [borrow EXCEPT ![t] = NoBorrow]
    BY <1>5 DEF Copy, object, memory
  <2>2. borrow'[t].slot = 0 /\ \A u \in Threads \ {t} : borrow'[u] = borrow[u]
    BY <2>1 DEF IInv, TypeOK, NoBorrow
  <2>3. QED BY <2>1, <2>2 DEF BorrowInv, BorrowedUntilChanged, Getting
<1>6. ASSUME NEW t \in Threads,
             \/ Enter(t) \/ Leave(t) \/ CloseClean(t) \/ ClearHandle(t) \/ CompactStart(t)
             \/ \E op \in {"flush", "close"} : SaveStart(t, op)
      PROVE  BorrowInv'
  BY <1>6, BorrowKept
     DEF Enter, Leave, CloseClean, ClearHandle, CompactStart, SaveStart, object, memory
<1>7. ASSUME NEW t \in Threads, Free(t) PROVE BorrowInv'
  BY <1>7, BorrowOfAll DEF Free
<1>8. CASE Calls
  BY <1>8, <1>1, <1>2, <1>3, <1>4, <1>5, <1>6, <1>7 DEF Calls
<1>9. CASE CompactDone
  BY <1>9, BorrowOfAll DEF CompactDone
<1>10. CASE LoadRecord \/ LoadFails \/ LoadDone \/ Opens
  <2>1. ~open /\ UNCHANGED borrow
    BY <1>10 DEF LoadRecord, LoadFails, LoadDone, Opens, OpenNew, LoadStart, Closed, IInv, LockInv
  <2>2. QED BY <2>1, BorrowKept
<1>11. CASE SaveRecord \/ SaveSync \/ SaveRename \/ SaveFails \/ CompactRecord
            \/ Settle \/ UNCHANGED vars
  BY <1>11, BorrowKept
     DEF SaveRecord, SaveSync, SaveRename, SaveFails, SaveEnd, CompactRecord, Settle, vars,
         object, memory
<1>12. CASE Crash \/ PowerLoss
  <2>1. \A t \in Threads : borrow'[t].slot = 0
    BY <1>12 DEF Crash, PowerLoss, Die, NoBorrow
  <2>2. QED BY <2>1 DEF BorrowInv, BorrowedUntilChanged, Getting
<1>13. QED BY <1>8, <1>9, <1>10, <1>11, <1>12, NextCases DEF Loops, Others

\* A get copies the record of its id until the id is changed, or the database
\* compacted or freed, and never memory that was freed before that
\* (vecdb_get, l1_vecdb_get), whatever the other threads call meanwhile.
THEOREM GetsAreSafe == Spec => []BorrowedUntilChanged
<1>1. Init => BorrowInv
  BY DEF Init, BorrowInv, BorrowedUntilChanged, Getting, NoBorrow
<1>2. IInv /\ BorrowInv /\ [Next]_vars => BorrowInv'
  BY BorrowStep
<1>3. BorrowInv => BorrowedUntilChanged
  BY DEF BorrowInv
<1>4. QED BY <1>1, <1>2, <1>3, Invariance, PTL DEF Spec

-----------------------------------------------------------------------------
(***************************************************************************)
(* The database implements the store of records.                           *)
(***************************************************************************)
\* With an exact map, what is found by the map is what is alive.
LEMMA FoundIsPresent == ASSUME TypeOK, MapExact PROVE Found = Present
<1>1. \A i \in Ids : map[i] # 0 => map[i] \in Alive /\ recs[map[i]].id = i
  BY DEF MapExact
<1>2. \A s \in Alive : recs[s].id \in Ids /\ map[recs[s].id] = s /\ s # 0
  BY RecordTypes DEF TypeOK, MapExact, Alive, Slots
<1>3. Found \subseteq Present
  BY <1>1 DEF Found, Present
<1>4. Present \subseteq Found
  BY <1>2 DEF Found, Present
<1>5. QED BY <1>3, <1>4

LEMMA StoreOpen == ASSUME IInv, open PROVE StoreNow = Found /\ StoreNow = Present
BY FoundIsPresent DEF IInv, StoreNow

LEMMA DiskKept ==
    ASSUME UNCHANGED <<file, medium>> PROVE Stored(file)' = Stored(file) /\ UNCHANGED MediumNow
BY DEF MediumNow, Stored

LEMMA StoreKept == ASSUME UNCHANGED <<recs, map, open>> PROVE UNCHANGED StoreNow
BY DEF StoreNow, Found

\* What is done to one id leaves the others.
LEMMA OthersFound ==
    ASSUME NEW id \in Ids,
           \A i \in Ids \ {id} : /\ map'[i] = map[i]
                                 /\ map[i] # 0 => recs'[map[i]].val = recs[map[i]].val
    PROVE  {r \in Found' : r[1] # id} = {r \in Found : r[1] # id}
<1>1. ASSUME NEW r \in Found', r[1] # id PROVE r \in Found
  <2>1. PICK i \in Ids : map'[i] # 0 /\ r = <<i, recs'[map'[i]].val>>
    BY DEF Found
  <2>2. r = <<i, recs[map[i]].val>> /\ map[i] # 0
    BY <2>1, <1>1
  <2>3. QED BY <2>2 DEF Found
<1>2. ASSUME NEW r \in Found, r[1] # id PROVE r \in Found'
  <2>1. PICK i \in Ids : map[i] # 0 /\ r = <<i, recs[map[i]].val>>
    BY DEF Found
  <2>2. r = <<i, recs'[map'[i]].val>> /\ map'[i] # 0
    BY <2>1, <1>2
  <2>3. QED BY <2>2 DEF Found
<1>3. QED BY <1>1, <1>2

LEMMA PutMaps ==
    ASSUME IInv, IInv', NEW t \in Threads, NEW id \in Ids, NEW v \in Vals, Put(t, id, v)
    PROVE  Records!Put(id, v)
<1>1. open /\ open' = open /\ Store(id, v) /\ UNCHANGED <<file, medium>>
  BY DEF Put, Ready, disk
<1>2. recs \in Seq(Record) /\ map \in [Ids -> Nat] /\ MapExact
  BY DEF IInv, TypeOK
<1>3. /\ map'[id] # 0 /\ recs'[map'[id]].val = v
      /\ \A i \in Ids \ {id} : map'[i] = map[i] /\ (map[i] # 0 => recs'[map[i]] = recs[map[i]])
  <2>1. \A i \in Ids : map[i] # 0 => map[i] \in 1 .. Len(recs)
    BY <1>2 DEF MapExact, Alive, Slots
  <2>2. CASE StoreOver(id, v)
    <3>1. map[id] # 0 /\ recs' = [recs EXCEPT ![map[id]].val = v] /\ map' = map
      BY <2>2 DEF StoreOver, Held
    <3>2. \A i \in Ids \ {id} : map[i] # 0 => map[i] # map[id]
      BY <1>2, SlotsApart
    <3>3. recs[map[id]] \in Record /\ map[id] \in 1 .. Len(recs)
      BY <3>1, <2>1, <1>2
    <3>4. recs'[map[id]].val = v
      BY <3>1, <3>3, <1>2 DEF Record
    <3>5. \A s \in 1 .. Len(recs) : s # map[id] => recs'[s] = recs[s]
      BY <3>1, <1>2
    <3>6. QED BY <3>1, <3>2, <3>4, <3>5, <2>1
  <2>3. CASE StoreNew(id, v)
    <3> DEFINE e == [id |-> id, val |-> v, alive |-> TRUE]
    <3>1. map' = [map EXCEPT ![id] = Len(recs) + 1] /\ recs' = Append(recs, e)
      BY <2>3 DEF StoreNew, Held
    <3>2. Len(recs) \in Nat /\ recs'[Len(recs) + 1] = e
          /\ \A s \in 1 .. Len(recs) : recs'[s] = recs[s]
      BY <3>1, <1>2
    <3>3. QED BY <3>1, <3>2, <2>1, <1>2
  <2>4. QED BY <1>1, <2>2, <2>3 DEF Store
<1>4. {r \in Found' : r[1] # id} = {r \in Found : r[1] # id}
  BY <1>3, OthersFound
<1>5. {r \in Found' : r[1] = id} = {<<id, v>>}
  BY <1>3 DEF Found
<1>6. Found' = {r \in Found : r[1] # id} \cup {<<id, v>>}
  <2>1. Found' = {r \in Found' : r[1] # id} \cup {r \in Found' : r[1] = id}
    OBVIOUS
  <2>2. QED BY <2>1, <1>4, <1>5
<1>7. StoreNow = Found /\ StoreNow' = Found'
  BY <1>1 DEF StoreNow
<1>8. QED BY <1>1, <1>6, <1>7, DiskKept DEF Records!Put, Records!Without

LEMMA DeleteMaps ==
    ASSUME IInv, NEW t \in Threads, NEW id \in Ids, Delete(t, id)
    PROVE  Records!Delete(id)
<1>1. /\ open /\ open' = open /\ UNCHANGED <<file, medium>> /\ map[id] # 0
      /\ recs' = [recs EXCEPT ![map[id]].alive = FALSE] /\ map' = [map EXCEPT ![id] = 0]
  BY DEF Delete, Ready, Held, disk
<1>2. recs \in Seq(Record) /\ map \in [Ids -> Nat] /\ MapExact
  BY DEF IInv, TypeOK
<1>3. map'[id] = 0 /\ \A i \in Ids \ {id} : map'[i] = map[i]
  BY <1>1, <1>2
<1>4. \A i \in Ids \ {id} : map[i] # 0 => recs'[map[i]] = recs[map[i]]
  <2>1. \A i \in Ids \ {id} : map[i] # 0 => map[i] # map[id] /\ map[i] \in 1 .. Len(recs)
    BY <1>2, SlotsApart DEF MapExact, Alive, Slots
  <2>2. \A s \in 1 .. Len(recs) : s # map[id] => recs'[s] = recs[s]
    BY <1>1, <1>2
  <2>3. QED BY <2>1, <2>2
<1>5. {r \in Found' : r[1] # id} = {r \in Found : r[1] # id}
  BY <1>3, <1>4, OthersFound
<1>6. \A r \in Found' : r[1] # id
  BY <1>3 DEF Found
<1>7. Found' = {r \in Found : r[1] # id}
  BY <1>5, <1>6
<1>8. StoreNow = Found /\ StoreNow' = Found'
  BY <1>1 DEF StoreNow
<1>9. QED BY <1>1, <1>7, <1>8, DiskKept DEF Records!Delete, Records!Without

LEMMA SaveMaps == ASSUME IInv, SaveRename PROVE Records!Save
<1>1. open /\ StoreNow = Present /\ UNCHANGED <<open, recs, map>>
  BY StoreOpen DEF SaveRename, SaveEnd, Saving, IInv, LockInv, memory
<1>2. file' = tmp /\ medium' = medium \cup {tmp} /\ Stored(tmp) = Present
  <2>1. Survivors(tmp, synced) = {tmp}
    BY DEF SaveRename, Complete, Survivors
  <2>2. QED BY <2>1, SaveComplete DEF SaveRename, Complete, IInv, TypeOK
<1>3. Stored(file)' = StoreNow
  BY <1>1, <1>2 DEF Stored
<1>4. MediumNow' = MediumNow \cup {StoreNow}
  <2>1. MediumNow' = {Stored(c) : c \in medium \cup {tmp}}
    BY <1>2 DEF MediumNow, Stored
  <2>2. QED BY <2>1, <1>1, <1>2 DEF MediumNow
<1>5. QED BY <1>1, <1>3, <1>4, StoreKept DEF Records!Save

LEMMA ClosedMaps ==
    ASSUME open' = FALSE, UNCHANGED <<file, medium>> PROVE Records!Close
BY DiskKept DEF StoreNow, Records!Close

LEMMA StepMaps ==
    ASSUME IInv, IInv', [Next]_vars PROVE [Records!Next]_(Records!vars)
<1>k. ASSUME UNCHANGED <<recs, map, open, file, medium>> PROVE UNCHANGED Records!vars
  BY <1>k, StoreKept, DiskKept DEF Records!vars
<1>1. ASSUME NEW t \in Threads, NEW id \in Ids, NEW v \in Vals, Put(t, id, v)
      PROVE  Records!Next
  BY <1>1, PutMaps DEF Records!Next
<1>2. ASSUME NEW t \in Threads, NEW id \in Ids, Delete(t, id) PROVE Records!Next
  BY <1>2, DeleteMaps DEF Records!Next
<1>3. ASSUME NEW t \in Threads, Free(t) PROVE Records!Next
  BY <1>3, ClosedMaps DEF Free, Release, disk, Records!Next
<1>4. CASE Calls
  <2>1. ASSUME NEW t \in Threads, NEW id \in Ids, NEW v \in Vals, PutExists(t, id, v)
        PROVE  UNCHANGED Records!vars
    BY <2>1, <1>k DEF PutExists, memory, disk
  <2>2. ASSUME NEW t \in Threads, NEW id \in Ids, Get(t, id) PROVE UNCHANGED Records!vars
    BY <2>2, <1>k DEF Get, object, memory, disk
  <2>3. ASSUME NEW t \in Threads, Aside(t) PROVE UNCHANGED Records!vars
    BY <2>3, <1>k, AsideKeeps
  <2>4. ASSUME NEW t \in Threads, CompactStart(t) PROVE UNCHANGED Records!vars
    BY <2>4, <1>k DEF CompactStart, object, memory, disk
  <2>5. ASSUME NEW t \in Threads, NEW op \in {"flush", "close"}, SaveStart(t, op)
        PROVE  UNCHANGED Records!vars
    BY <2>5, <1>k DEF SaveStart, object, memory
  <2>6. QED BY <1>4, <1>1, <1>2, <1>3, <2>1, <2>2, <2>3, <2>4, <2>5 DEF Calls, Aside
<1>5. CASE CompactRecord \/ SaveRecord \/ SaveSync \/ SaveFails \/ UNCHANGED vars
  BY <1>5, <1>k DEF CompactRecord, SaveRecord, SaveSync, SaveFails, SaveEnd, vars, object, memory, disk
<1>6. CASE LoadRecord \/ LoadFails \/ \E d \in Dims : LoadStart(d)
  <2>1. ~open /\ ~open' /\ open' = open /\ UNCHANGED <<file, medium>>
    BY <1>6 DEF LoadRecord, LoadFails, LoadStart, Closed, Release, IInv, LockInv, TypeOK, disk
  <2>2. StoreNow' = StoreNow
    BY <2>1 DEF StoreNow
  <2>3. QED BY <2>1, <2>2, DiskKept DEF Records!vars
<1>7. CASE LoadDone
  <2>1. open = FALSE /\ open' = TRUE /\ ~dirty' /\ UNCHANGED <<file, medium>>
    BY <1>7 DEF LoadDone, Returned, IInv, LockInv, TypeOK, disk
  <2>2. Stored(file)' = Present'
    BY <2>1 DEF IInv, CleanIsSaved
  <2>3. StoreNow' = Present'
    <3>1. (IInv /\ open => StoreNow = Found /\ StoreNow = Present)'
      BY StoreOpen, PTL
    <3>2. QED BY <3>1, <2>1
  <2>4. QED BY <2>1, <2>2, <2>3, DiskKept DEF Records!Next, Records!Open
<1>8. ASSUME NEW d \in Dims, OpenNew(d) PROVE Records!Next
  <2>1. open = FALSE /\ open' = TRUE /\ recs = <<>> /\ UNCHANGED <<file, medium, recs, map>>
    BY <1>8 DEF OpenNew, Closed, Returned, IInv, LockInv, TypeOK, NoTask, memory, disk
  <2>2. Found = {} /\ Found' = Found
    BY <2>1, FoundIsPresent DEF Present, Alive, Slots, IInv, Found
  <2>3. StoreNow' = {}
    BY <2>1, <2>2 DEF StoreNow
  <2>4. QED BY <2>1, <2>3, DiskKept DEF Records!Next, Records!Open
<1>9. CASE CompactDone
  <2>1. /\ open /\ open' = open /\ UNCHANGED <<file, medium>> /\ recs' = build.recs
        /\ PairsIn(build.recs) = PairsBefore /\ task.at > Len(recs)
        /\ Len(recs) \in Nat /\ task.at \in Nat
    BY <1>9 DEF CompactDone, IInv, LockInv, CompactInv, TypeOK, disk
  <2>2. PairsBefore = Present
    BY <2>1 DEF PairsBefore, Before, Present, Alive, Slots
  <2>3. Present' = Present
    BY <2>1, <2>2 DEF Present, PairsIn, AliveIn, Alive, Slots
  <2>4. StoreNow' = Present'
    <3>1. (IInv /\ open => StoreNow = Found /\ StoreNow = Present)'
      BY StoreOpen, PTL
    <3>2. QED BY <3>1, <2>1
  <2>5. StoreNow' = StoreNow
    BY <2>1, <2>3, <2>4, StoreOpen
  <2>6. QED BY <2>1, <2>5, DiskKept DEF Records!vars
<1>10. CASE SaveRename
  BY <1>10, SaveMaps DEF Records!Next
<1>11. CASE Crash
  BY <1>11, ClosedMaps DEF Crash, Die, Release, Records!Next
<1>12. CASE PowerLoss
  <2>1. open' = FALSE /\ file' \in medium /\ medium' = {file'}
    BY <1>12 DEF PowerLoss, Die, Release
  <2>2. Stored(file)' = Stored(file') /\ MediumNow' = {Stored(file')} /\ StoreNow' = {}
    BY <2>1 DEF MediumNow, Stored, StoreNow
  <2>3. QED BY <2>1, <2>2 DEF Records!Next, Records!LosePower, MediumNow
<1>13. CASE Settle
  <2>1. UNCHANGED <<recs, map, open, file>> /\ medium' = {file}
    BY <1>13 DEF Settle, object, memory
  <2>2. Stored(file)' = Stored(file) /\ MediumNow' = {Stored(file)} /\ StoreNow' = StoreNow
    BY <2>1, StoreKept DEF MediumNow, Stored
  <2>3. QED BY <2>1, <2>2 DEF Records!Next, Records!Settle
<1>14. QED
  BY <1>4, <1>5, <1>6, <1>7, <1>8, <1>9, <1>10, <1>11, <1>12, <1>13, NextCases
     DEF Loops, Others, Opens

\* The database is a store that changes and is saved in one step, and after a
\* crash or a loss of power is one of the states that were saved; an fopen that
\* fails, a thread that is late with a call and a close that overlaps other
\* calls are among what it is interrupted by.
THEOREM Implementation == Spec => ImplementsRecordStore
<1>1. Init => Records!Init
  <2> SUFFICES ASSUME Init PROVE Records!Init
    OBVIOUS
  <2>1. open = FALSE /\ file = None /\ medium = {None}
    BY DEF Init
  <2>2. Stored(None) = {}
    BY DEF Stored
  <2>3. QED BY <2>1, <2>2 DEF Records!Init, StoreNow, MediumNow
<1>2. IInv /\ IInv' /\ [Next]_vars => [Records!Next]_(Records!vars)
  BY StepMaps
<1>3. QED BY <1>1, <1>2, Invariance, PTL DEF Spec, ImplementsRecordStore, Records!Spec
=============================================================================
