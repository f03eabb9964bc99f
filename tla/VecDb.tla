------------------------------- MODULE VecDb -------------------------------
(***************************************************************************)
(* The record store of vm/modules/vector-db/src/db.c, as the threads of a  *)
(* bytecode program use it through vm/modules/vecdb/vecdb.c: records in    *)
(* slots and a map from ids to slots, saved to a file by way of            *)
(* <path>.tmp, fsync and rename, and loaded from it again.                 *)
(*                                                                         *)
(* A call is one step for its critical section of the rwlock.  When it has *)
(* read the handle makes no difference but while the database is being     *)
(* closed: there that is a step of its own (Enter).  The loops that save,  *)
(* load and compact take one step a record, with a crash possible in       *)
(* between; the lock is held from task' = .. to the end.  A get has one    *)
(* more step: the wrapper copies through the pointers of vecdb_get after   *)
(* the lock is released.  A close has two more: it frees the database      *)
(* after it has released the lock, and clears the handle after that.       *)
(*                                                                         *)
(* Nothing makes threads wait for each other: any thread may call anything *)
(* at any time.  A call that has read the handle and has not got the lock, *)
(* or has it, when the database is freed, or reads the handle before it is *)
(* cleared, uses freed memory.  Its thread is lost, and as such a program  *)
(* has no defined behaviour, it is followed no further: it can only end.   *)
(*                                                                         *)
(* Slots count from 1 here.  A record is one value, of which dim (0: it    *)
(* has no vector) is told apart.  malloc does not fail, VECDB_SYNC is not  *)
(* used, and the path is opened again only after it was closed.  A file    *)
(* system keeps what was fsynced; a rename is seen at once and reaches the *)
(* medium some time later.                                                 *)
(***************************************************************************)
EXTENDS Integers, Sequences, FiniteSets

CONSTANTS
    Threads,
    Ids,
    Vals,      \* what a record may hold: records with a field dim
    MaxSlots,  \* bound: slots of a database, those of deleted records too
    Unsettled, \* bound: contents the medium may have
    MaxGets,   \* bound: gets that copy at the same time
    None

\* A slot of recs, a record of a file, and a file.
Dims == {0} \cup {v.dim : v \in Vals}
Record == [id : Ids, val : Vals, alive : BOOLEAN]
Entry == [id : Ids, val : Vals]
Content == [dim : Dims, count : Nat, recs : Seq(Entry)]

ASSUME DbAssumption ==
    /\ \A v \in Vals : v.dim \in Nat
    /\ MaxSlots \in Nat /\ Unsettled \in Nat /\ MaxGets \in Nat
    /\ None \notin Vals /\ None \notin Content

VARIABLES
    handle, \* the entry of vecdb_db is set
    open,   \* the database is in memory: vecdb_open has made it
    call,   \* where the call of a thread is
    recs,   \* recs and alive
    map,    \* the slot of an id, 0 without one
    count,  \* map.count
    dim,
    dirty,
    task,   \* the loop that holds the write lock, and the slot it is at
    build,  \* nr, na and nm of vecdb_compact
    borrow, \* the pointers a get holds: the slot, whether its id or the database
            \* was changed since, whether what they point to was freed
    file,   \* the content of the path, or None
    tmp,    \* the content of <path>.tmp, or None
    synced, \* tmp was fsynced
    medium  \* what the path may hold after a loss of power

memory == <<recs, map, count>>
object == <<memory, dim, dirty>>
disk == <<file, tmp, synced, medium>>
calls == <<handle, call>>
vars == <<calls, open, object, task, build, borrow, disk>>

NoMap == [i \in Ids |-> 0]
NoBorrow == [id |-> 0, slot |-> 0, changed |-> FALSE, stale |-> FALSE]
NoTask == [op |-> "none", at |-> 0]
NoBuild == [recs |-> <<>>, map |-> NoMap, count |-> 0]

TypeOK ==
    /\ handle \in BOOLEAN
    /\ call \in [Threads -> {"out", "in", "lock", "release", "clear", "lost"}]
    /\ open \in BOOLEAN /\ dirty \in BOOLEAN /\ synced \in BOOLEAN
    /\ recs \in Seq(Record)
    /\ map \in [Ids -> Nat] /\ count \in Int /\ dim \in Dims
    /\ task \in [op : {"none", "load", "flush", "close", "compact"}, at : Nat]
    /\ build \in [recs : Seq(Record), map : [Ids -> Nat], count : Nat]
    /\ borrow \in [Threads -> [id : Ids \cup {0}, slot : Nat,
                              changed : BOOLEAN, stale : BOOLEAN]]
    /\ file \in Content \cup {None} /\ tmp \in Content \cup {None}
    /\ medium \subseteq Content \cup {None}

Slots == 1 .. Len(recs)
Alive == {s \in Slots : recs[s].alive}

Init ==
    /\ handle = FALSE /\ call = [t \in Threads |-> "out"]
    /\ open = FALSE
    /\ recs = <<>> /\ map = NoMap /\ count = 0
    /\ dim = 0 /\ dirty = FALSE
    /\ task = NoTask /\ build = NoBuild
    /\ borrow = [t \in Threads |-> NoBorrow]
    /\ file = None /\ tmp = None /\ synced = FALSE /\ medium = {None}

-----------------------------------------------------------------------------
Getting(t) == borrow[t].slot # 0

\* From the lock of a vecdb_close to its l1_vecdb_close clearing the handle.
Closing == task.op = "close" \/ \E t \in Threads : call[t] \in {"release", "clear"}

\* A call takes the database the handle names and waits for the lock, which it
\* may get or not before the database is freed.  The handle is cleared later.
Enter(t) ==
    /\ Closing
    /\ call[t] = "out" /\ ~Getting(t)
    /\ handle
    /\ call' = [call EXCEPT ![t] = IF open THEN "in" ELSE "lost"]
    /\ UNCHANGED <<handle, open, object, task, build, borrow, disk>>

\* It was a call that changes nothing: a search, a count, a refused put.
Leave(t) ==
    /\ call[t] = "in"
    /\ call' = [call EXCEPT ![t] = "out"]
    /\ UNCHANGED <<handle, open, object, task, build, borrow, disk>>

\* t gets the lock.
Ready(t) ==
    /\ call[t] = "in" \/ (call[t] = "out" /\ ~Getting(t) /\ handle)
    /\ open /\ task = NoTask

\* The call of t is done, or goes on with p.
Goes(t, p) ==
    /\ call' = [call EXCEPT ![t] = p]
    /\ UNCHANGED handle

\* The thread that holds the lock for a loop goes on with p.
HolderGoes(p) ==
    /\ call' = [t \in Threads |-> IF call[t] = "lock" THEN p ELSE call[t]]
    /\ UNCHANGED handle

\* Bad: the texts are kept in a table that moves when a record is stored.
BadClear(S, I) ==
    borrow' = [t \in Threads |->
        [borrow[t] EXCEPT !.changed = @ \/ borrow[t].id \in I, !.stale = TRUE]]

\* The records of the ids I are changed, and record_clear of the slots in S
\* makes the pointers into them stale.
Clear(S, I) ==
    borrow' = [t \in Threads |->
        [borrow[t] EXCEPT !.changed = @ \/ borrow[t].id \in I,
                          !.stale = @ \/ borrow[t].slot \in S]]

\* The dimension test of put_locked, and what the database learns from it.
Fits(v) == v.dim = 0 \/ dim \in {0, v.dim}

Learned(v) == IF v.dim = 0 THEN dim ELSE v.dim

\* idmap_get.
Held(id) == map[id]

\* The part of put_locked that stores: in the slot the id has, or a new one.
StoreOver(id, v) ==
    /\ Held(id) # 0
    /\ recs' = [recs EXCEPT ![Held(id)].val = v]
    /\ UNCHANGED <<map, count>>

StoreNew(id, v) ==
    /\ Held(id) = 0
    /\ Len(recs) < MaxSlots
    /\ recs' = Append(recs, [id |-> id, val |-> v, alive |-> TRUE])
    /\ map' = [map EXCEPT ![id] = Len(recs) + 1]
    /\ count' = count + 1

Store(id, v) == StoreOver(id, v) \/ StoreNew(id, v)

-----------------------------------------------------------------------------
\* vecdb_put_ex.
Put(t, id, v) ==
    /\ Ready(t)
    /\ Fits(v)
    /\ Store(id, v)
    /\ Clear({Held(id)} \ {0}, {id})
    /\ dim' = Learned(v)
    /\ dirty' = TRUE
    /\ Goes(t, "out")
    /\ UNCHANGED <<open, task, build, disk>>

\* With VECDB_INSERT_ONLY, of an id that is there: the dimension has been
\* learned before the record is looked for.
PutExists(t, id, v) ==
    /\ Ready(t)
    /\ Fits(v)
    /\ Held(id) # 0
    /\ dim' = Learned(v)
    /\ Goes(t, "out")
    /\ UNCHANGED <<open, memory, dirty, task, build, borrow, disk>>

\* Bad: the count of the map is forgotten.
BadDropped == count

Dropped == count - 1

\* vecdb_delete; the slot stays as a tombstone.
Delete(t, id) ==
    /\ Ready(t)
    /\ Held(id) # 0
    /\ recs' = [recs EXCEPT ![Held(id)].alive = FALSE]
    /\ map' = [map EXCEPT ![id] = 0]
    /\ count' = Dropped
    /\ dirty' = TRUE
    /\ Clear({Held(id)}, {id})
    /\ Goes(t, "out")
    /\ UNCHANGED <<open, dim, task, build, disk>>

\* vecdb_get hands out the pointers of the record.
Get(t, id) ==
    /\ Ready(t)
    /\ Held(id) # 0
    /\ Cardinality({u \in Threads : Getting(u)}) < MaxGets
    /\ borrow' = [borrow EXCEPT ![t] = [id |-> id, slot |-> Held(id),
                                    changed |-> FALSE, stale |-> FALSE]]
    /\ Goes(t, "out")
    /\ UNCHANGED <<open, object, task, build, disk>>

\* l1_vecdb_get has copied the record to the program, without the lock.
Copy(t) ==
    /\ Getting(t)
    /\ borrow' = [borrow EXCEPT ![t] = NoBorrow]
    /\ UNCHANGED <<calls, open, object, task, build, disk>>

-----------------------------------------------------------------------------
\* db_release: the records and the map are gone.
Release ==
    /\ open' = FALSE
    /\ recs' = <<>> /\ map' = NoMap /\ count' = 0
    /\ dim' = 0 /\ dirty' = FALSE

\* The database vecdb_open returns gets a handle.
Returned == open' = TRUE /\ handle' = TRUE /\ UNCHANGED call

\* Nobody has the path open.
Closed == ~handle /\ ~open /\ task = NoTask

\* vecdb_open of a path that fopen cannot read, with the dimension of the
\* options: it counts as new.  There may be a file all the same, for which
\* fopen failed (no more descriptors, no permission).
OpenNew(d) ==
    /\ Closed
    /\ Returned
    /\ dim' = d
    /\ dirty' = TRUE
    /\ UNCHANGED <<memory, task, build, borrow, disk>>

\* vecdb_open of a file: the header is read.  Another dimension than that of
\* the file is refused.
LoadStart(d) ==
    /\ Closed
    /\ file # None
    /\ d \in {0, file.dim}
    /\ dim' = file.dim
    /\ task' = [op |-> "load", at |-> 1]
    /\ UNCHANGED <<calls, open, memory, dirty, build, borrow, disk>>

\* One record of the file is put, with the dimension of the file: put_locked
\* refuses one that has no vector when that is not 0.
LoadRecord ==
    /\ task.op = "load" /\ task.at \in 1 .. file.count
    /\ task.at <= Len(file.recs)
    /\ LET e == file.recs[task.at]
       IN e.val.dim = file.dim /\ Store(e.id, e.val)
    /\ dirty' = TRUE
    /\ task' = [task EXCEPT !.at = @ + 1]
    /\ UNCHANGED <<calls, open, dim, build, borrow, disk>>

\* A record is refused, or a read fails.
LoadFails ==
    /\ task.op = "load"
    /\ Release
    /\ task' = NoTask
    /\ UNCHANGED <<calls, build, borrow, disk>>

LoadDone ==
    /\ task.op = "load" /\ task.at > file.count
    /\ Returned
    /\ dirty' = FALSE
    /\ task' = NoTask
    /\ UNCHANGED <<memory, dim, build, borrow, disk>>

-----------------------------------------------------------------------------
Saving == task.op \in {"flush", "close"}

\* vecdb_flush and vecdb_close of a changed database: db_save writes the
\* header of a new temporary file.
SaveStart(t, op) ==
    /\ Ready(t)
    /\ dirty
    /\ Goes(t, "lock")
    /\ task' = [op |-> op, at |-> 1]
    /\ tmp' = [dim |-> dim, count |-> count, recs |-> <<>>]
    /\ synced' = FALSE
    /\ UNCHANGED <<open, object, build, borrow, file, medium>>

\* Bad: the slots of deleted records are written too.
BadWritten(s) == TRUE

Written(s) == recs[s].alive

SaveRecord ==
    /\ Saving /\ task.at \in Slots
    /\ tmp' = IF Written(task.at)
              THEN [tmp EXCEPT !.recs = Append(@,
                       [id |-> recs[task.at].id, val |-> recs[task.at].val])]
              ELSE tmp
    /\ task' = [task EXCEPT !.at = @ + 1]
    /\ UNCHANGED <<calls, open, object, build, borrow, file, synced, medium>>

SaveSync ==
    /\ Saving /\ task.at > Len(recs)
    /\ ~synced
    /\ synced' = TRUE
    /\ UNCHANGED <<calls, open, object, task, build, borrow, file, tmp, medium>>

\* The end of a save, and of the lock.  vecdb_close has the database still to
\* be freed.
SaveEnd(changed) ==
    /\ HolderGoes(IF task.op = "close" THEN "release" ELSE "out")
    /\ task' = NoTask
    /\ tmp' = None /\ synced' = FALSE
    /\ dirty' = changed
    /\ UNCHANGED <<open, memory, dim, build, borrow>>

\* Bad: the file is renamed before it is fsynced.
BadComplete == task.at > Len(recs)

Complete == task.at > Len(recs) /\ synced

\* What a file of which not everything was fsynced may be.
Survivors(c, s) ==
    IF s THEN {c}
    ELSE {[c EXCEPT !.recs = SubSeq(c.recs, 1, n)] : n \in 0 .. Len(c.recs)}

SaveRename ==
    /\ Saving /\ Complete
    /\ Cardinality(medium) < Unsettled
    /\ file' = tmp
    /\ medium' = medium \cup Survivors(tmp, synced)
    /\ SaveEnd(FALSE)

\* Bad: a save that failed leaves the database clean.
BadAfterFailure == FALSE

AfterFailure == dirty

\* fopen, a write, fsync, fclose or rename fails: the temporary file is
\* removed.
SaveFails ==
    /\ Saving
    /\ SaveEnd(AfterFailure)
    /\ UNCHANGED <<file, medium>>

\* vecdb_close of a database that was not changed.
CloseClean(t) ==
    /\ Ready(t)
    /\ ~dirty
    /\ Goes(t, "release")
    /\ UNCHANGED <<open, object, task, build, borrow, disk>>

\* db_release, without the lock: others may have got it in between, and what
\* they changed goes too.  Whoever waits for the lock, holds it or has closed
\* the database as well goes on with freed memory.
Free(t) ==
    /\ call[t] = "release"
    /\ Release
    /\ task' = NoTask /\ build' = NoBuild
    /\ Clear(Slots, Ids)
    /\ call' = [u \in Threads |-> IF u = t THEN "clear"
                                  ELSE IF call[u] = "out" THEN "out" ELSE "lost"]
    /\ UNCHANGED <<handle, disk>>

\* l1_vecdb_close clears the handle.
ClearHandle(t) ==
    /\ call[t] = "clear"
    /\ call' = [call EXCEPT ![t] = "out"]
    /\ handle' = FALSE
    /\ UNCHANGED <<open, object, task, build, borrow, disk>>

-----------------------------------------------------------------------------
CompactStart(t) ==
    /\ Ready(t)
    /\ Goes(t, "lock")
    /\ task' = [op |-> "compact", at |-> 1]
    /\ build' = NoBuild
    /\ UNCHANGED <<open, object, borrow, disk>>

CompactRecord ==
    /\ task.op = "compact" /\ task.at \in Slots
    /\ build' = IF recs[task.at].alive
                THEN [recs |-> Append(build.recs, recs[task.at]),
                      map |-> [build.map EXCEPT ![recs[task.at].id] = Len(build.recs) + 1],
                      count |-> build.count + 1]
                ELSE build
    /\ task' = [task EXCEPT !.at = @ + 1]
    /\ UNCHANGED <<calls, open, object, borrow, disk>>

CompactDone ==
    /\ task.op = "compact" /\ task.at > Len(recs)
    /\ recs' = build.recs /\ map' = build.map /\ count' = build.count
    /\ dirty' = TRUE
    /\ Clear(Slots, Ids)
    /\ HolderGoes("out")
    /\ task' = NoTask
    /\ build' = NoBuild
    /\ UNCHANGED <<open, dim, disk>>

-----------------------------------------------------------------------------
\* The process is gone, and with it what was in memory.  What is left of the
\* temporary file is never read: the next save opens it with "wb".
Die ==
    /\ Release
    /\ handle' = FALSE /\ call' = [t \in Threads |-> "out"]
    /\ task' = NoTask /\ build' = NoBuild
    /\ borrow' = [t \in Threads |-> NoBorrow]
    /\ tmp' = None /\ synced' = FALSE

Crash ==
    /\ Die
    /\ UNCHANGED <<file, medium>>

PowerLoss ==
    /\ Die
    /\ file' \in medium
    /\ medium' = {file'}

\* The directory has reached the medium.
Settle ==
    /\ medium # {file}
    /\ medium' = {file}
    /\ UNCHANGED <<calls, open, object, task, build, borrow, file, tmp, synced>>

\* No thread uses freed memory.
Defined == \A t \in Threads : call[t] # "lost"

Calls ==
    \E t \in Threads :
        \/ \E id \in Ids :
            \/ \E v \in Vals : Put(t, id, v) \/ PutExists(t, id, v)
            \/ Delete(t, id) \/ Get(t, id)
        \/ Enter(t) \/ Leave(t) \/ Copy(t) \/ CompactStart(t)
        \/ \E op \in {"flush", "close"} : SaveStart(t, op)
        \/ CloseClean(t) \/ Free(t) \/ ClearHandle(t)

Opens == \E d \in Dims : OpenNew(d) \/ LoadStart(d)

Loops ==
    \/ LoadRecord \/ LoadDone \/ LoadFails
    \/ SaveRecord \/ SaveSync \/ SaveRename \/ SaveFails
    \/ CompactRecord \/ CompactDone

Next ==
    \/ Defined /\ (Calls \/ Opens \/ Loops)
    \/ Crash \/ PowerLoss \/ Settle

Spec == Init /\ [][Next]_vars

-----------------------------------------------------------------------------
\* The header counts the records that follow it, no id comes twice, and all
\* vectors have the dimension of the header.
Whole(c) ==
    /\ c.count = Len(c.recs)
    /\ \A i, j \in 1 .. Len(c.recs) : c.recs[i].id = c.recs[j].id => i = j
    /\ \A i \in 1 .. Len(c.recs) : c.recs[i].val.dim \in {0, c.dim}

\* Safety under crashes (db_save, vecdb.h "a crash never corrupts an existing
\* database"): whatever step a crash, a failed write or a loss of power
\* comes at, the path holds no file or a whole one.
FileWhole == \A c \in medium \cup {file} : c = None \/ Whole(c)

\* What was saved can be opened again: db_load stores every record of a file
\* (vecdb.h "Any of vec/payload/text may be NULL").
FileLoads ==
    file # None => \A i \in 1 .. Len(file.recs) : file.recs[i].val.dim = file.dim

\* The map leads to the slot of each record that is alive and to no other,
\* and its count, which db_save writes into the header, is their number
\* (put_locked, vecdb_delete, vecdb_compact, db_load).
MapExact ==
    /\ \A id \in Ids : map[id] # 0 => map[id] \in Alive /\ recs[map[id]].id = id
    /\ \A s \in Alive : map[recs[s].id] = s
    /\ count = Cardinality(Alive)

\* The records of a file, and those in memory.
Stored(c) == IF c = None THEN {} ELSE {<<c.recs[i].id, c.recs[i].val>> : i \in 1 .. Len(c.recs)}

Present == {<<recs[s].id, recs[s].val>> : s \in Alive}

\* A database that is not dirty has in its file what it has in memory: a close
\* that does not save loses nothing (db->dirty).
CleanIsSaved == open /\ ~dirty => Stored(file) = Present

\* A get that has left the lock copies the record its id has, and not memory
\* that was freed, unless the id was put or deleted since, or the database
\* compacted or freed: puts and deletes of other ids, a table that grows, a
\* flush, a close that is not yet through do it no harm.  vecdb.h promises that
\* the pointers "stay valid until the next mutation".
BorrowedUntilChanged ==
    \A t \in Threads :
        Getting(t) /\ ~borrow[t].changed =>
            open /\ ~borrow[t].stale /\ map[borrow[t].id] = borrow[t].slot

-----------------------------------------------------------------------------
\* The records found by the map.
Found == {<<i, recs[map[i]].val>> : i \in {id \in Ids : map[id] # 0}}

StoreNow == IF open THEN Found ELSE {}
MediumNow == {Stored(c) : c \in medium}

Records == INSTANCE RecordStore
    WITH store <- StoreNow, saved <- Stored(file), backups <- MediumNow

\* The database with its slots, its file and its loops behaves like a store
\* that is changed and saved in one step, whatever it is interrupted by.
ImplementsRecordStore == Records!Spec
=============================================================================
