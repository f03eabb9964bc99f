---------------------------- MODULE MessageQueue ----------------------------
(***************************************************************************)
(* The message table of vm/modules/message/message.c, as the threads of    *)
(* one bytecode program use it: msg_set_* puts a message with an id into a *)
(* free slot, msg_search_id finds a slot, msg_get_* reads it, msg_delete   *)
(* frees it.                                                               *)
(*                                                                         *)
(* A call is one step for each critical section of msg_lock, and one for   *)
(* what it reads without the lock (the type test of a getter).  Nothing   *)
(* inside a critical section waits, and the only unlocked read is of one   *)
(* byte, so a step for a whole section shows every outcome.                *)
(*                                                                         *)
(* msg_init and msg_free_mem are called while no other thread is in a      *)
(* call, and nothing is called after msg_free_mem but msg_init.  Rules     *)
(* names what else the bytecode promises:                                  *)
(*   "fresh" no id is 0 or is sent twice, and none is asked for after its  *)
(*           message has been deleted                                      *)
(*   "one"   only the thread Consumer searches, gets and deletes           *)
(*   "got"   it gets what its last search found, and deletes it only after *)
(*           that get was answered                                         *)
(***************************************************************************)
EXTENDS Integers, FiniteSets

CONSTANTS
    Threads,
    Consumer,
    MsgMax,   \* max_handles: slots of the table
    Ids,
    Values,   \* payloads of both kinds
    Mail,     \* what the program sends: kinds, ids and payloads
    None,
    Rules

ASSUME QueueAssumption ==
    /\ Consumer \in Threads
    /\ MsgMax \in Nat \ {0}
    /\ Ids \subseteq Int
    /\ 0 \in Values
    /\ Mail \subseteq [kind : {"int64", "double", "string"}, id : Ids, val : Values]
    /\ Rules \subseteq {"fresh", "one", "got"}

Handles == 0 .. MsgMax - 1

Numbers == {"int64", "double"}
Kinds == Numbers \cup {"string"}
SlotTypes == {"empty", "used"} \cup Kinds

VARIABLES
    table,   \* "none" before msg_init, "live", "freed" after msg_free_mem
    msg,     \* the slots
    call,    \* the call a thread is in, between two steps of it
    want,    \* the id a thread searched last,
    found,   \* and the answer
    heard,   \* the answer to its last get
    sent,    \* ids passed to a msg_set_*
    deleted, \* ids whose messages were deleted
    seen,    \* payloads the slot had since the get now running tested it
    fault    \* the process was killed

queue == <<table, msg>>
caller == <<want, found, heard>>
history == <<sent, deleted, seen>>
vars == <<table, msg, call, caller, history, fault>>

\* calloc, and the EMPTY of msg_init_mem.
FreshSlot == [type |-> "empty", id |-> 0, int64 |-> 0, double |-> 0]

NoCall == [op |-> "none", handle |-> -1, kind |-> "int64", id |-> 0, val |-> 0]

Calls ==
    [op : {"none", "set", "get"}, handle : Handles \cup {-1},
     kind : Kinds, id : Ids \cup {0}, val : Values]

Answers == [id : Ids \cup {0}, handle : Handles, kind : Numbers, val : Values]

\* Nobody is no message and no answer.
ASSUME NoneAssumption == None \notin (Numbers \X Values) \cup Answers

Live(h) == msg[h].type \in Numbers

TypeOK ==
    /\ table \in {"none", "live", "freed"}
    /\ msg \in [Handles -> [type : SlotTypes, id : Ids \cup {0},
                            int64 : Values, double : Values]]
    /\ call \in [Threads -> Calls]
    /\ want \in [Threads -> Ids \cup {0}]
    /\ found \in [Threads -> Handles \cup {-1}]
    /\ heard \in [Threads -> Answers \cup {None}]
    /\ sent \subseteq Ids /\ deleted \subseteq Ids \cup {0}
    /\ seen \in [Threads -> SUBSET Values]
    /\ fault \in BOOLEAN

Init ==
    /\ table = "none"
    /\ msg = [h \in Handles |-> FreshSlot]
    /\ call = [t \in Threads |-> NoCall]
    /\ want = [t \in Threads |-> 0]
    /\ found = [t \in Threads |-> -1]
    /\ heard = [t \in Threads |-> None]
    /\ sent = {} /\ deleted = {}
    /\ seen = [t \in Threads |-> {}]
    /\ fault = FALSE

Idle(t) == ~fault /\ call[t].op = "none"
Quiet == \A t \in Threads : Idle(t)

-----------------------------------------------------------------------------
\* A handle between 0 and msg_max.
InRange(h) == table = "live" /\ h \in Handles

\* The slots the loop of msg_get_free_handle stops at.  Bad: it forgets that
\* a reserved one is taken.
BadFree(h) == msg[h].type \in {"empty", "used"}

Free(h) == msg[h].type = "empty"

First(h, S) == h \in S /\ \A g \in S : h <= g

\* msg_init: a new table.
MsgInit(t) ==
    /\ Quiet
    /\ table # "live"
    /\ table' = "live"
    /\ msg' = [h \in Handles |-> FreshSlot]
    /\ UNCHANGED <<call, caller, history, fault>>

\* msg_free_mem; what was not deleted is gone, and the program forgets the
\* handles it has.  The pointer and msg_max stay.
MsgFreeMem(t) ==
    /\ Quiet
    /\ table = "live"
    /\ table' = "freed"
    /\ deleted' = deleted \cup {msg[h].id : h \in {g \in Handles : Live(g)}}
    /\ msg' = [h \in Handles |-> FreshSlot]
    /\ found' = [u \in Threads |-> -1]
    /\ heard' = [u \in Threads |-> None]
    /\ UNCHANGED <<call, want, sent, seen, fault>>

\* The first section of msg_set_*: a free slot is marked used, with the id
\* and the payload of its last message still in it.  Without one the call
\* answers -1.
Reserve(t, m) ==
    /\ Idle(t) /\ table # "freed"
    /\ "fresh" \in Rules => m.id # 0 /\ m.id \notin sent
    /\ sent' = sent \cup {m.id}
    /\ \/ \E h \in Handles :
             /\ table = "live" /\ First(h, {g \in Handles : Free(g)})
             /\ msg' = [msg EXCEPT ![h].type = "used"]
             /\ call' = [call EXCEPT ![t] =
                   [op |-> "set", handle |-> h,
                    kind |-> m.kind, id |-> m.id, val |-> m.val]]
       \/ /\ table = "live" => \A h \in Handles : ~Free(h)
          /\ UNCHANGED <<msg, call>>
    /\ UNCHANGED <<table, caller, deleted, seen, fault>>

\* The slot a number is written to: the field of the other kind keeps its
\* old payload.  Bad: id and payload are popped in the other order.
BadWritten(slot, c) ==
    IF c.kind = "int64"
    THEN [slot EXCEPT !.type = "int64", !.id = c.val, !.int64 = c.id]
    ELSE [slot EXCEPT !.type = "double", !.id = c.val, !.double = c.id]

Written(slot, c) ==
    IF c.kind = "int64"
    THEN [slot EXCEPT !.type = "int64", !.id = c.id, !.int64 = c.val]
    ELSE [slot EXCEPT !.type = "double", !.id = c.id, !.double = c.val]

\* The second section of msg_set_int64 and msg_set_double.
SetNumber(t) ==
    LET c == call[t] IN
    /\ ~fault /\ c.op = "set" /\ c.kind \in Numbers
    /\ msg' = [msg EXCEPT ![c.handle] = Written(@, c)]
    /\ call' = [call EXCEPT ![t] = NoCall]
    /\ seen' = [u \in Threads |->
          IF call[u].op = "get" /\ call[u].handle = c.handle /\ call[u].kind = c.kind
          THEN seen[u] \cup {c.val} ELSE seen[u]]
    /\ UNCHANGED <<table, caller, sent, deleted, fault>>

\* msg_set_string takes the first byte of the string, data[messageaddr], for
\* the address of the string.  The byte of an empty string is NULL, of length
\* 0: the call answers -1, and the slot stays used.  Any other is an address
\* in the first page of memory: reading it kills the process.
SetString(t) ==
    /\ ~fault /\ call[t].op = "set" /\ call[t].kind = "string"
    /\ fault' \in BOOLEAN
    /\ call' = [call EXCEPT ![t] = NoCall]
    /\ UNCHANGED <<queue, caller, history>>

\* The slots msg_search_id stops at: it does not look at the type.
Matches(h, i) == msg[h].id = i

\* msg_search_id: the handle, or -1.
Search(t, i) ==
    /\ Idle(t) /\ table # "freed"
    /\ "one" \in Rules => t = Consumer
    /\ "fresh" \in Rules => i # 0 /\ i \notin deleted
    /\ want' = [want EXCEPT ![t] = i]
    /\ heard' = [heard EXCEPT ![t] = None]
    /\ \/ \E h \in Handles :
             /\ table = "live" /\ First(h, {g \in Handles : Matches(g, i)})
             /\ found' = [found EXCEPT ![t] = h]
       \/ /\ table = "live" => \A h \in Handles : ~Matches(h, i)
          /\ found' = [found EXCEPT ![t] = -1]
    /\ UNCHANGED <<queue, call, history, fault>>

\* The handles a thread passes to get and delete.
MayGet(t, h) ==
    /\ "one" \in Rules => t = Consumer
    /\ "got" \in Rules => h = found[t]

MayDelete(t, h) ==
    /\ MayGet(t, h)
    /\ "got" \in Rules => heard[t] # None /\ heard[t].handle = h

\* The payload msg_get_* reads.
Field(slot, k) == IF k = "int64" THEN slot.int64 ELSE slot.double

\* The test of msg_get_int64, msg_get_double and msg_get_string, without the
\* lock.  Bad: any message in the slot will do.
BadHasType(h, k) == msg[h].type # "empty"

HasType(h, k) == msg[h].type = k

\* The call answers -1, or goes on to the lock.  No slot ever has the type
\* of a string.
GetTest(t, h, k) ==
    /\ Idle(t) /\ table # "freed"
    /\ MayGet(t, h)
    /\ \/ /\ ~(InRange(h) /\ HasType(h, k))
          /\ heard' = [heard EXCEPT ![t] = None]
          /\ UNCHANGED <<call, seen>>
       \/ /\ InRange(h) /\ HasType(h, k)
          /\ call' = [call EXCEPT ![t] =
                [NoCall EXCEPT !.op = "get", !.handle = h, !.kind = k]]
          /\ seen' = [seen EXCEPT ![t] =
                IF msg[h].type = k THEN {Field(msg[h], k)} ELSE {}]
          /\ UNCHANGED heard
    /\ UNCHANGED <<queue, want, found, sent, deleted, fault>>

\* The section of msg_get_int64 and msg_get_double: the answer is the field.
GetNumber(t) ==
    LET c == call[t] IN
    /\ ~fault /\ c.op = "get" /\ c.kind \in Numbers
    /\ heard' = [heard EXCEPT ![t] =
          [id |-> want[t], handle |-> c.handle, kind |-> c.kind,
           val |-> Field(msg[c.handle], c.kind)]]
    /\ call' = [call EXCEPT ![t] = NoCall]
    /\ seen' = [seen EXCEPT ![t] = {}]
    /\ UNCHANGED <<queue, want, found, sent, deleted, fault>>

\* What msg_remove leaves: id and payload stay.  Bad: it frees the slot after
\* the one asked for.
BadRemoved(h) == [msg EXCEPT ![IF h + 1 \in Handles THEN h + 1 ELSE h].type = "empty"]

Removed(h) == [msg EXCEPT ![h].type = "empty"]

\* msg_delete, msg_remove.  Out of range it answers -1.  A deleted string
\* would stay allocated to the slot; there is none.
Delete(t, h) ==
    /\ Idle(t) /\ table # "freed"
    /\ MayDelete(t, h)
    /\ heard' = [heard EXCEPT ![t] = None]
    /\ found' = [found EXCEPT ![t] = -1]
    /\ IF InRange(h)
       THEN /\ msg' = Removed(h)
            /\ deleted' = IF Live(h) THEN deleted \cup {msg[h].id} ELSE deleted
       ELSE UNCHANGED <<msg, deleted>>
    /\ UNCHANGED <<table, call, want, sent, seen, fault>>

Step(t) ==
    \/ MsgInit(t) \/ MsgFreeMem(t)
    \/ \E m \in Mail : Reserve(t, m)
    \/ SetNumber(t) \/ SetString(t)
    \/ \E i \in Ids : Search(t, i)
    \/ \E h \in Handles \cup {-1}, k \in Kinds : GetTest(t, h, k)
    \/ GetNumber(t)
    \/ \E h \in Handles \cup {-1} : Delete(t, h)

Next == \E t \in Threads : Step(t)

Spec == Init /\ [][Next]_vars

-----------------------------------------------------------------------------
\* A slot is reserved by one msg_set_* at a time, and stays reserved until
\* that call writes it: the two critical sections of a set cannot be split by
\* another set's, or by a delete that empties a reserved slot.
ReservedByOne ==
    \A t \in Threads : call[t].op = "set" =>
        /\ msg[call[t].handle].type = "used"
        /\ \A u \in Threads \ {t} :
              call[u].op = "set" => call[u].handle # call[t].handle

\* No two messages that can be read have the same id, and a message's id has
\* been sent and not deleted: the first slot with an id is the right one.
IdsApart ==
    \A h \in Handles :
        /\ Live(h) => msg[h].id # 0
        /\ msg[h].id # 0 =>
              /\ msg[h].id \in sent
              /\ \A g \in Handles \ {h} : msg[g].id # msg[h].id
              /\ Live(h) <=> msg[h].id \notin deleted

\* What a search found is the message it asked for, as long as that message
\* has not been deleted, whatever was reserved, written and deleted since.
FoundIsWanted ==
    \A t \in Threads : found[t] # -1 /\ want[t] \notin deleted =>
        Live(found[t]) /\ msg[found[t]].id = want[t]

\* msg_get_* tests the type before it takes the lock.  A get that is answered
\* nevertheless returns a payload that its slot had, as a message of the type
\* asked for, at some moment since the test.
GetSound ==
    \A t \in Threads : call[t].op = "get" =>
        Field(msg[call[t].handle], call[t].kind) \in seen[t]

\* Why the rules keep the table in order: what is being sent has an id no
\* slot and no other sender has; only the consumer holds a handle, of a message
\* not deleted; what it is reading or has read is still in that slot; a table
\* not live is empty; and only what was sent is deleted.
CallersInv ==
    /\ \A t \in Threads : call[t].op = "set" =>
          /\ call[t].id # 0 /\ call[t].id \in sent \ deleted
          /\ \A h \in Handles : msg[h].id # call[t].id
          /\ \A u \in Threads \ {t} : call[u].op = "set" => call[u].id # call[t].id
    /\ \A t \in Threads : found[t] # -1 => t = Consumer /\ want[t] \notin deleted
    /\ \A t \in Threads : call[t].op = "get" =>
          call[t].handle = found[t] /\ msg[found[t]].type = call[t].kind
    /\ \A t \in Threads : heard[t] # None =>
          /\ found[t] # -1 /\ heard[t].handle = found[t] /\ heard[t].id = want[t]
          /\ heard[t].kind = msg[found[t]].type
          /\ heard[t].val = Field(msg[found[t]], msg[found[t]].type)
    /\ table # "live" => \A h \in Handles : msg[h] = FreshSlot
    /\ deleted \subseteq sent

\* A message that was accepted stays in its slot, unchanged, until a thread
\* deletes it after having read it, or the table is freed.
KeptUntilRead ==
    [][\A h \in Handles : Live(h) /\ msg'[h] # msg[h] =>
          \/ table' = "freed"
          \/ heard[Consumer] # None
             /\ heard[Consumer].id = msg[h].id
             /\ heard[Consumer].val = Field(msg[h], msg[h].type)]_vars

-----------------------------------------------------------------------------
(***************************************************************************)
(* The refinement mapping: the box holds the messages of the live slots,   *)
(* and a thread was told what its last get answered.                       *)
(***************************************************************************)
MessageAt(h) == <<msg[h].type, Field(msg[h], msg[h].type)>>

BoxNow ==
    [i \in Ids |->
        IF \E h \in Handles : Live(h) /\ msg[h].id = i
        THEN MessageAt(CHOOSE h \in Handles : Live(h) /\ msg[h].id = i)
        ELSE None]

AnswerNow ==
    [t \in Threads |->
        IF heard[t] = None THEN None
        ELSE <<heard[t].id, <<heard[t].kind, heard[t].val>>>>]

Box == INSTANCE Mailbox
    WITH Size <- MsgMax, Messages <- Numbers \X Values,
         box <- BoxNow, answer <- AnswerNow

\* The table with its reservations, tests without the lock and slots that
\* keep the ids of deleted messages behaves, for threads that keep the rules,
\* like a box in which each message is written, read and removed in one step.
ImplementsMailbox == Box!Spec
=============================================================================
