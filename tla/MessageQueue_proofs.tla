------------------------ MODULE MessageQueue_proofs ------------------------
(***************************************************************************)
(* Proofs about MessageQueue, for every table size and set of threads.     *)
(* GetSound holds whatever the bytecode does; the other invariants hold    *)
(* for bytecode that keeps all the rules.                                  *)
(***************************************************************************)
EXTENDS MessageQueue, FiniteSetTheorems, TLAPS

\* No slot gets the type of a string, so the section of a get is a number's.
NoStrings == \A h \in Handles : msg[h].type # "string"

GetInv ==
    /\ TypeOK
    /\ NoStrings
    /\ GetSound
    /\ \A t \in Threads : call[t].op # "none" => call[t].handle \in Handles
    /\ \A t \in Threads : call[t].op = "get" => call[t].kind \in Numbers

LEMMA InitGetInv == Init => GetInv
<1> SUFFICES ASSUME Init PROVE GetInv
    OBVIOUS
<1>1. FreshSlot \in [type : SlotTypes, id : Ids \cup {0}, int64 : Values, double : Values]
    BY QueueAssumption DEF FreshSlot, SlotTypes
<1>2. NoCall \in Calls
    BY QueueAssumption DEF NoCall, Calls, Kinds, Numbers
<1>3. TypeOK
    BY <1>1, <1>2 DEF Init, TypeOK
<1>4. \A t \in Threads : call[t].op = "none"
    BY DEF Init, NoCall
<1>5. NoStrings
    BY DEF Init, NoStrings, FreshSlot
<1> QED BY <1>3, <1>4, <1>5 DEF GetInv, GetSound

\* Where a call is, its handle and its kind, in one form the provers take.
LEMMA CallTyped ==
    ASSUME TypeOK, NEW t \in Threads
    PROVE  /\ call[t].op \in {"none", "set", "get"}
           /\ call[t].handle \in Handles \cup {-1}
           /\ call[t].kind \in Kinds
           /\ call[t].id \in Ids \cup {0}
           /\ call[t].val \in Values
BY DEF TypeOK, Calls

LEMMA NextGetInv == GetInv /\ [Next]_vars => GetInv'
<1> SUFFICES ASSUME GetInv, [Next]_vars PROVE GetInv'
    OBVIOUS
<1> USE QueueAssumption DEF GetInv, NoStrings, GetSound
<1> DEFINE Slots == [type : SlotTypes, id : Ids \cup {0}, int64 : Values, double : Values]
<1>s. NoCall \in Calls
    BY DEF NoCall, Calls, Kinds, Numbers
<1>f. FreshSlot \in Slots /\ FreshSlot.type = "empty"
    BY DEF FreshSlot, SlotTypes
<1>c. \A t \in Threads : call[t] \in Calls
    BY DEF TypeOK
<1>m. \A h \in Handles : msg[h] \in Slots
    BY DEF TypeOK
<1>1. CASE UNCHANGED vars
    BY <1>1 DEF vars, queue, caller, history, TypeOK, Field
<1>2. ASSUME NEW t \in Threads, MsgInit(t) PROVE GetInv'
    BY <1>2, <1>f DEF MsgInit, Quiet, Idle, caller, history, TypeOK, Field
<1>3. ASSUME NEW t \in Threads, MsgFreeMem(t) PROVE GetInv'
    <2>1. deleted' \subseteq Ids \cup {0}
        BY <1>3, <1>m DEF MsgFreeMem, TypeOK
    <2>2. TypeOK'
        BY <1>3, <2>1, <1>f DEF MsgFreeMem, TypeOK
    <2> QED BY <1>3, <2>2, <1>f DEF MsgFreeMem, Quiet, Idle
<1>4. ASSUME NEW t \in Threads, NEW m \in Mail, Reserve(t, m) PROVE GetInv'
    <2>0. m.kind \in Kinds /\ m.id \in Ids /\ m.val \in Values
        BY DEF Kinds, Numbers
    <2>1. CASE UNCHANGED <<msg, call>>
        BY <1>4, <2>0, <2>1 DEF Reserve, caller, TypeOK, Field
    <2>2. ASSUME NEW h \in Handles,
                 msg' = [msg EXCEPT ![h].type = "used"],
                 call' = [call EXCEPT ![t] = [op |-> "set", handle |-> h,
                             kind |-> m.kind, id |-> m.id, val |-> m.val]]
          PROVE GetInv'
        <3>1. \A u \in Threads : call'[u] = IF u = t THEN [op |-> "set", handle |-> h,
                             kind |-> m.kind, id |-> m.id, val |-> m.val] ELSE call[u]
            BY <2>2 DEF TypeOK
        <3>2. [op |-> "set", handle |-> h, kind |-> m.kind, id |-> m.id, val |-> m.val] \in Calls
            BY <2>0 DEF Calls
        <3>3. /\ \A g \in Handles : msg'[g] \in Slots /\ msg'[g].type # "string"
              /\ \A g \in Handles, k \in Numbers : Field(msg'[g], k) = Field(msg[g], k)
            BY <2>2, <1>m DEF TypeOK, Field, SlotTypes
        <3>4. TypeOK'
            BY <1>4, <2>0, <2>2, <3>2, <3>3 DEF Reserve, caller, TypeOK
        <3>5. GetSound'
            <4> SUFFICES ASSUME NEW u \in Threads, call'[u].op = "get"
                         PROVE Field(msg'[call'[u].handle], call'[u].kind) \in seen'[u]
                OBVIOUS
            <4>1. u # t /\ call'[u] = call[u]
                BY <3>1
            <4> QED BY <1>4, <3>3, <4>1 DEF Reserve
        <3> QED BY <3>1, <3>3, <3>4, <3>5
    <2> QED BY <1>4, <2>1, <2>2 DEF Reserve
<1>5. ASSUME NEW t \in Threads, SetNumber(t) PROVE GetInv'
    <2> DEFINE c == call[t]
    <2>0. c \in Calls /\ c.op = "set" /\ c.kind \in Numbers /\ c.handle \in Handles
        BY <1>5, <1>c DEF SetNumber
    <2>1. Written(msg[c.handle], c) \in Slots /\ Written(msg[c.handle], c).type # "string"
        <3>1. msg[c.handle] \in Slots /\ c.id \in Ids \cup {0} /\ c.val \in Values
            BY <2>0, <1>m DEF Calls
        <3>2. "int64" \in SlotTypes /\ "double" \in SlotTypes
            BY DEF SlotTypes, Kinds, Numbers
        <3> QED BY <3>1, <3>2 DEF Written
    <2>2. \A g \in Handles : msg'[g] = IF g = c.handle THEN Written(msg[g], c) ELSE msg[g]
        BY <1>5, <2>0 DEF SetNumber, TypeOK
    <2>3. \A u \in Threads : call'[u] = IF u = t THEN NoCall ELSE call[u]
        BY <1>5 DEF SetNumber, TypeOK
    <2>4. \A u \in Threads : seen[u] \in SUBSET Values
        BY DEF TypeOK
    <2>5. seen' \in [Threads -> SUBSET Values]
        <3>1. c.val \in Values
            BY <2>0 DEF Calls
        <3> QED BY <1>5, <2>4, <3>1 DEF SetNumber
    <2>6. TypeOK'
        <3>1. msg' \in [Handles -> Slots]
            BY <1>5, <2>0, <2>1 DEF SetNumber, TypeOK
        <3>2. call' \in [Threads -> Calls]
            BY <1>5, <1>s DEF SetNumber, TypeOK
        <3> QED BY <1>5, <2>5, <3>1, <3>2 DEF SetNumber, caller, TypeOK
    <2>7. GetSound'
        <3> SUFFICES ASSUME NEW u \in Threads, call'[u].op = "get"
                     PROVE Field(msg'[call'[u].handle], call'[u].kind) \in seen'[u]
            OBVIOUS
        <3>1. u # t /\ call'[u] = call[u] /\ call[u].kind \in Numbers /\ call[u].handle \in Handles
            BY <2>3 DEF NoCall
        <3>2. CASE call[u].handle = c.handle /\ call[u].kind = c.kind
            <4>1. Field(Written(msg[c.handle], c), c.kind) = c.val
                BY <2>0, <1>m DEF Written, Field, Numbers
            <4> QED BY <1>5, <2>0, <2>2, <3>1, <3>2, <4>1 DEF SetNumber
        <3>3. CASE call[u].handle = c.handle /\ call[u].kind # c.kind
            <4>1. Field(Written(msg[c.handle], c), call[u].kind) = Field(msg[c.handle], call[u].kind)
                BY <2>0, <3>1, <3>3, <1>m DEF Written, Field, Numbers
            <4> QED BY <1>5, <2>0, <2>2, <3>1, <3>3, <4>1 DEF SetNumber
        <3>4. CASE call[u].handle # c.handle
            BY <1>5, <2>2, <3>1, <3>4 DEF SetNumber
        <3> QED BY <3>2, <3>3, <3>4
    <2> QED BY <2>1, <2>2, <2>3, <2>6, <2>7 DEF NoCall
<1>6. ASSUME NEW t \in Threads, SetString(t) PROVE GetInv'
    BY <1>6, <1>s DEF SetString, NoCall, queue, caller, history, TypeOK, Field
<1>7. ASSUME NEW t \in Threads, NEW i \in Ids, Search(t, i) PROVE GetInv'
    <2>1. found' \in [Threads -> Handles \cup {-1}]
        BY <1>7 DEF Search, TypeOK, First, Matches
    <2>2. TypeOK'
        BY <1>7, <2>1 DEF Search, queue, history, TypeOK
    <2> QED BY <1>7, <2>2 DEF Search, queue, history
<1>8. ASSUME NEW t \in Threads, NEW h \in Handles \cup {-1}, NEW k \in Kinds, GetTest(t, h, k)
      PROVE GetInv'
    <2>1. CASE UNCHANGED <<call, seen>>
        BY <1>8, <2>1 DEF GetTest, queue, TypeOK
    <2>2. ASSUME InRange(h), HasType(h, k),
                 call' = [call EXCEPT ![t] =
                    [NoCall EXCEPT !.op = "get", !.handle = h, !.kind = k]],
                 seen' = [seen EXCEPT ![t] =
                    IF msg[h].type = k THEN {Field(msg[h], k)} ELSE {}]
          PROVE GetInv'
        <3>1. h \in Handles /\ msg[h].type = k /\ k \in Numbers
            BY <2>2 DEF InRange, HasType, Kinds
        <3>2. [NoCall EXCEPT !.op = "get", !.handle = h, !.kind = k] \in Calls
            BY <3>1 DEF NoCall, Calls, Kinds, Numbers
        <3>3. Field(msg[h], k) \in Values
            BY <3>1, <1>m DEF Field
        <3>4. TypeOK'
            BY <1>8, <2>2, <3>1, <3>2, <3>3 DEF GetTest, queue, TypeOK
        <3>5. \A u \in Threads :
                 /\ call'[u] = IF u = t THEN [NoCall EXCEPT !.op = "get", !.handle = h, !.kind = k]
                                        ELSE call[u]
                 /\ seen'[u] = IF u = t THEN {Field(msg[h], k)} ELSE seen[u]
            BY <2>2, <3>1 DEF TypeOK
        <3> QED BY <1>8, <3>1, <3>4, <3>5 DEF GetTest, queue, NoCall
    <2> QED BY <1>8, <2>1, <2>2 DEF GetTest
<1>9. ASSUME NEW t \in Threads, GetNumber(t) PROVE GetInv'
    <2> DEFINE c == call[t]
    <2>0. c \in Calls /\ c.op = "get" /\ c.kind \in Numbers /\ c.handle \in Handles
        BY <1>9, <1>c DEF GetNumber
    <2>1. Field(msg[c.handle], c.kind) \in Values
        BY <2>0, <1>m DEF Field
    <2>2. heard' \in [Threads -> Answers \cup {None}]
        BY <1>9, <2>0, <2>1 DEF GetNumber, TypeOK, Answers
    <2>3. TypeOK'
        BY <1>9, <1>s, <2>2 DEF GetNumber, queue, TypeOK
    <2> QED BY <1>9, <2>3 DEF GetNumber, queue, NoCall, TypeOK
<1>10. ASSUME NEW t \in Threads, NEW h \in Handles \cup {-1}, Delete(t, h) PROVE GetInv'
    <2>1. found' \in [Threads -> Handles \cup {-1}] /\ heard' \in [Threads -> Answers \cup {None}]
        BY <1>10 DEF Delete, TypeOK
    <2>2. CASE InRange(h)
        <3>1. h \in Handles /\ msg' = [msg EXCEPT ![h].type = "empty"]
            BY <1>10, <2>2 DEF Delete, InRange, Removed
        <3>2. /\ \A g \in Handles : msg'[g] \in Slots /\ msg'[g].type # "string"
              /\ \A g \in Handles, k \in Numbers : Field(msg'[g], k) = Field(msg[g], k)
            BY <3>1, <1>m DEF TypeOK, Field, SlotTypes
        <3>3. msg' \in [Handles -> Slots]
            BY <3>1, <3>2 DEF TypeOK
        <3>4. deleted' \subseteq Ids \cup {0}
            BY <1>10, <2>2, <3>1, <1>m DEF Delete, TypeOK
        <3>5. TypeOK'
            BY <1>10, <2>1, <3>3, <3>4 DEF Delete, TypeOK
        <3> QED BY <1>10, <3>2, <3>5 DEF Delete
    <2>3. CASE ~InRange(h)
        BY <1>10, <2>1, <2>3 DEF Delete, TypeOK
    <2> QED BY <2>2, <2>3
<1> QED BY <1>1, <1>2, <1>3, <1>4, <1>5, <1>6, <1>7, <1>8, <1>9, <1>10 DEF Next, Step

\* A getter that tests the type without the lock still answers with a payload
\* the slot had, as a message of that type, since the test: whatever other
\* threads set and delete, and without any rule for them.
THEOREM AnswersSound == Spec => []GetSound
<1>1. Spec => []GetInv
    BY InitGetInv, NextGetInv, PTL DEF Spec
<1> QED BY <1>1, PTL DEF GetInv

THEOREM Typed == Spec => []TypeOK
<1>1. Spec => []GetInv
    BY InitGetInv, NextGetInv, PTL DEF Spec
<1> QED BY <1>1, PTL DEF GetInv

-----------------------------------------------------------------------------
AllRules == Rules = {"fresh", "one", "got"}

\* GetInv supplies the types.  Reservations, ids and handles hold each other
\* up: a delete empties a live slot because a handle is of a live message,
\* handles stay live because a set writes reserved slots only, and those stay
\* reserved because no delete empties them.
QueueInv ==
    /\ GetInv
    /\ ReservedByOne
    /\ IdsApart
    /\ FoundIsWanted
    /\ CallersInv

LEMMA InitQueueInv == Init => QueueInv
<1> SUFFICES ASSUME Init PROVE QueueInv
    OBVIOUS
<1>1. GetInv
    BY InitGetInv
<1>2. \A t \in Threads : call[t].op = "none" /\ found[t] = -1 /\ heard[t] = None
    BY DEF Init, NoCall
<1>3. \A h \in Handles : msg[h] = FreshSlot /\ msg[h].id = 0
    BY DEF Init, FreshSlot
<1>4. deleted \subseteq sent /\ \A h \in Handles : ~Live(h)
    BY DEF Init, FreshSlot, Live, Numbers
<1> QED BY <1>1, <1>2, <1>3, <1>4
        DEF QueueInv, ReservedByOne, IdsApart, FoundIsWanted, CallersInv

\* Type and id of a slot a number was written to.
LEMMA WrittenFields ==
    ASSUME NEW slot \in [type : SlotTypes, id : Ids \cup {0}, int64 : Values, double : Values],
           NEW d, d.kind \in Numbers
    PROVE  Written(slot, d).type = d.kind /\ Written(slot, d).id = d.id
<1>1. CASE d.kind = "int64"
    BY <1>1 DEF Written
<1>2. CASE d.kind = "double"
    BY <1>2 DEF Written
<1> QED BY <1>1, <1>2 DEF Numbers

\* What a reserved, a found and a matching slot are.
LEMMA SlotFacts ==
    ASSUME QueueInv
    PROVE  /\ \A t \in Threads : call[t].op = "set" =>
                 call[t].handle \in Handles /\ ~Live(call[t].handle)
           /\ \A t \in Threads : found[t] # -1 =>
                 found[t] \in Handles /\ Live(found[t]) /\ msg[found[t]].id = want[t]
           /\ \A h \in Handles : Live(h) => msg[h].type # "empty" /\ msg[h].type # "used"
BY DEF QueueInv, GetInv, TypeOK, ReservedByOne, FoundIsWanted, CallersInv, Live, Numbers

LEMMA NextQueueInv == ASSUME AllRules PROVE QueueInv /\ [Next]_vars => QueueInv'
<1> SUFFICES ASSUME QueueInv, [Next]_vars PROVE QueueInv'
    OBVIOUS
<1>g. GetInv' /\ GetInv
    BY NextGetInv DEF QueueInv
<1>r. "fresh" \in Rules /\ "one" \in Rules /\ "got" \in Rules
    BY DEF AllRules
<1>h. -1 \notin Handles
    BY DEF Handles
<1> USE DEF QueueInv
<1>1. CASE UNCHANGED vars
    BY <1>1, <1>g DEF vars, queue, caller, history, ReservedByOne, IdsApart, FoundIsWanted,
        CallersInv, Live, Field
<1>2. ASSUME NEW t \in Threads, MsgInit(t) PROVE QueueInv'
    <2>1. UNCHANGED <<msg, call, caller, history>>
        BY <1>2, <1>g DEF MsgInit, CallersInv, GetInv, TypeOK
    <2> QED BY <1>2, <1>g, <2>1 DEF MsgInit, caller, history, ReservedByOne, IdsApart,
            FoundIsWanted, CallersInv, Live, Field
<1>3. ASSUME NEW t \in Threads, MsgFreeMem(t) PROVE QueueInv'
    <2>1. \A u \in Threads : call'[u].op = "none" /\ found'[u] = -1 /\ heard'[u] = None
        BY <1>3 DEF MsgFreeMem, Quiet, Idle
    <2>2. \A h \in Handles : msg'[h] = FreshSlot /\ msg'[h].id = 0
        BY <1>3 DEF MsgFreeMem, FreshSlot
    <2>3. deleted' \subseteq sent'
        BY <1>3 DEF MsgFreeMem, IdsApart, CallersInv
    <2>4. \A h \in Handles : ~Live(h)'
        BY <1>3 DEF MsgFreeMem, FreshSlot, Live, Numbers
    <2> QED BY <2>1, <2>2, <2>3, <2>4, <1>g
            DEF ReservedByOne, IdsApart, FoundIsWanted, CallersInv
<1>4. ASSUME NEW t \in Threads, NEW m \in Mail, Reserve(t, m) PROVE QueueInv'
    <2>0. /\ m.id # 0 /\ m.id \notin sent /\ sent' = sent \cup {m.id}
          /\ UNCHANGED <<table, want, found, heard, deleted>>
          /\ call[t].op = "none"
        BY <1>4, <1>r DEF Reserve, caller, Idle
    <2>n. m.id \notin deleted
        BY <2>0 DEF CallersInv
    <2>1. CASE UNCHANGED <<msg, call>>
        BY <1>g, <2>0, <2>n, <2>1 DEF ReservedByOne, IdsApart, FoundIsWanted, CallersInv, Live, Field
    <2>2. ASSUME NEW h \in Handles, Free(h), table = "live",
                 msg' = [msg EXCEPT ![h].type = "used"],
                 call' = [call EXCEPT ![t] = [op |-> "set", handle |-> h,
                             kind |-> m.kind, id |-> m.id, val |-> m.val]]
          PROVE QueueInv'
        <3>1. \A u \in Threads : call'[u] = IF u = t THEN [op |-> "set", handle |-> h,
                             kind |-> m.kind, id |-> m.id, val |-> m.val] ELSE call[u]
            BY <2>2, <1>g DEF GetInv, TypeOK
        <3>2. \A g \in Handles : /\ g # h => msg'[g] = msg[g]
                                 /\ msg'[g].id = msg[g].id
            BY <2>2, <1>g DEF GetInv, TypeOK
        <3>3. msg'[h].type = "used" /\ msg[h].type = "empty"
            BY <2>2, <1>g DEF GetInv, TypeOK, Free
        <3>4. \A g \in Handles : Live(g)' <=> Live(g)
            BY <3>2, <3>3 DEF Live, Numbers
        <3>5. ReservedByOne'
            BY <3>1, <3>2, <3>3, <1>g DEF ReservedByOne, GetInv
        <3>6. IdsApart'
            BY <2>0, <3>2, <3>4 DEF IdsApart
        <3>7. \A u \in Threads : found[u] # -1 => found[u] \in Handles \ {h}
            BY SlotFacts, <3>3
        <3>8. FoundIsWanted'
            BY <2>0, <3>2, <3>4, <3>7 DEF FoundIsWanted
        <3>9. \A g \in Handles : msg[g].id # m.id
            BY <2>0 DEF IdsApart
        <3>10. CallersInv'
            <4>1. \A u \in Threads : call'[u].op = "set" =>
                     /\ call'[u].id # 0 /\ call'[u].id \in sent' \ deleted'
                     /\ \A g \in Handles : msg'[g].id # call'[u].id
                     /\ \A v \in Threads \ {u} : call'[v].op = "set" => call'[v].id # call'[u].id
                BY <2>0, <2>n, <3>1, <3>2, <3>9 DEF CallersInv
            <4>2. \A u \in Threads : call'[u].op = "get" =>
                     call'[u].handle = found'[u] /\ msg'[found'[u]].type = call'[u].kind
                BY <2>0, <3>1, <3>2, <3>7, <1>g, <1>h DEF CallersInv, GetInv
            <4>3. \A u \in Threads : heard'[u] # None =>
                     /\ found'[u] # -1 /\ heard'[u].handle = found'[u] /\ heard'[u].id = want'[u]
                     /\ heard'[u].kind = msg'[found'[u]].type
                     /\ heard'[u].val = Field(msg'[found'[u]], msg'[found'[u]].type)
                BY <2>0, <3>2, <3>7 DEF CallersInv
            <4> QED BY <2>0, <2>2, <4>1, <4>2, <4>3 DEF CallersInv
        <3> QED BY <1>g, <3>5, <3>6, <3>8, <3>10
    <2> QED BY <1>4, <2>1, <2>2 DEF Reserve, First
<1>5. ASSUME NEW t \in Threads, SetNumber(t) PROVE QueueInv'
    <2> DEFINE c == call[t]
    <2>0. /\ c.op = "set" /\ c.kind \in Numbers /\ c.handle \in Handles
          /\ c.id # 0 /\ c.id \in sent \ deleted
          /\ \A g \in Handles : msg[g].id # c.id
          /\ UNCHANGED <<table, want, found, heard, sent, deleted>>
        BY <1>5, <1>g DEF SetNumber, CallersInv, GetInv, caller
    <2>1. \A u \in Threads : call'[u] = IF u = t THEN NoCall ELSE call[u]
        BY <1>5, <1>g DEF SetNumber, GetInv, TypeOK
    <2>2. \A g \in Handles : g # c.handle => msg'[g] = msg[g]
        BY <1>5, <1>g DEF SetNumber, GetInv, TypeOK
    <2>3. msg'[c.handle].type = c.kind /\ msg'[c.handle].id = c.id
        <3>1. msg[c.handle] \in [type : SlotTypes, id : Ids \cup {0}, int64 : Values, double : Values]
            BY <2>0, <1>g DEF GetInv, TypeOK
        <3>2. msg'[c.handle] = Written(msg[c.handle], c)
            BY <1>5, <1>g, <2>0 DEF SetNumber, GetInv, TypeOK
        <3> QED BY <2>0, <3>1, <3>2, WrittenFields
    <2>4. \A g \in Handles : Live(g)' <=> g = c.handle \/ Live(g)
        BY <2>0, <2>2, <2>3 DEF Live
    <2>5. \A u \in Threads \ {t} : call[u].op = "set" =>
             call[u].handle \in Handles \ {c.handle}
        BY <2>0, <1>g DEF ReservedByOne, GetInv
    <2>6. \A u \in Threads : found[u] # -1 => found[u] \in Handles \ {c.handle}
        BY <2>0, SlotFacts
    <2>7. ReservedByOne'
        BY <2>1, <2>2, <2>5 DEF ReservedByOne, NoCall
    <2>8. IdsApart'
        <3> SUFFICES ASSUME NEW h \in Handles
                     PROVE  /\ Live(h)' => msg'[h].id # 0
                            /\ msg'[h].id # 0 =>
                                  /\ msg'[h].id \in sent
                                  /\ \A g \in Handles \ {h} : msg'[g].id # msg'[h].id
                                  /\ Live(h)' <=> msg'[h].id \notin deleted
            BY <2>0 DEF IdsApart
        <3>1. CASE h = c.handle
            <4>1. msg'[h].id = c.id /\ \A g \in Handles \ {h} : msg'[g].id # c.id
                BY <2>0, <2>2, <2>3, <3>1
            <4> QED BY <2>0, <2>4, <3>1, <4>1
        <3>2. CASE h # c.handle
            BY <2>0, <2>2, <2>3, <2>4, <3>2 DEF IdsApart
        <3> QED BY <3>1, <3>2
    <2>9. FoundIsWanted'
        BY <2>0, <2>2, <2>4, <2>6 DEF FoundIsWanted
    <2>10. CallersInv'
        <3>1. \A u \in Threads : call'[u].op = "set" =>
                 /\ call'[u].id # 0 /\ call'[u].id \in sent' \ deleted'
                 /\ \A g \in Handles : msg'[g].id # call'[u].id
                 /\ \A v \in Threads \ {u} : call'[v].op = "set" => call'[v].id # call'[u].id
            BY <2>0, <2>1, <2>2, <2>3 DEF CallersInv, NoCall
        <3>2. \A u \in Threads : call'[u].op = "get" =>
                 call'[u].handle = found'[u] /\ msg'[found'[u]].type = call'[u].kind
            BY <2>0, <2>1, <2>2, <2>6, <1>g, <1>h DEF CallersInv, GetInv, NoCall
        <3>3. \A u \in Threads : heard'[u] # None =>
                 /\ found'[u] # -1 /\ heard'[u].handle = found'[u] /\ heard'[u].id = want'[u]
                 /\ heard'[u].kind = msg'[found'[u]].type
                 /\ heard'[u].val = Field(msg'[found'[u]], msg'[found'[u]].type)
            BY <2>0, <2>2, <2>6 DEF CallersInv
        <3>4. table = "live"
            BY <2>0 DEF CallersInv, ReservedByOne, FreshSlot
        <3> QED BY <2>0, <3>1, <3>2, <3>3, <3>4 DEF CallersInv
    <2> QED BY <1>g, <2>7, <2>8, <2>9, <2>10
<1>6. ASSUME NEW t \in Threads, SetString(t) PROVE QueueInv'
    <2>1. \A u \in Threads : call'[u] = IF u = t THEN NoCall ELSE call[u]
        BY <1>6, <1>g DEF SetString, GetInv, TypeOK
    <2> QED BY <1>6, <1>g, <2>1 DEF SetString, NoCall, queue, caller, history, ReservedByOne,
            IdsApart, FoundIsWanted, CallersInv, Live, Field
<1>7. ASSUME NEW t \in Threads, NEW i \in Ids, Search(t, i) PROVE QueueInv'
    <2>0. /\ call[t].op = "none" /\ t = Consumer /\ i # 0 /\ i \notin deleted
          /\ UNCHANGED <<table, msg, call, sent, deleted>>
        BY <1>7, <1>r DEF Search, Idle, queue, history
    <2>1. \A u \in Threads :
             /\ want'[u] = IF u = t THEN i ELSE want[u]
             /\ heard'[u] = IF u = t THEN None ELSE heard[u]
             /\ u # t => found'[u] = found[u]
        BY <1>7, <1>g DEF Search, GetInv, TypeOK
    <2>2. found'[t] # -1 => found'[t] \in Handles /\ msg[found'[t]].id = i
        BY <1>7, <1>g DEF Search, First, Matches, GetInv, TypeOK
    <2>3. found'[t] # -1 => Live(found'[t])
        BY <2>0, <2>2 DEF IdsApart
    <2>4. ReservedByOne' /\ IdsApart'
        BY <2>0 DEF ReservedByOne, IdsApart, Live
    <2>5. FoundIsWanted'
        BY <2>0, <2>1, <2>2, <2>3 DEF FoundIsWanted, Live
    <2>6. CallersInv'
        BY <2>0, <2>1, <2>2 DEF CallersInv, Field
    <2> QED BY <1>g, <2>4, <2>5, <2>6
<1>8. ASSUME NEW t \in Threads, NEW h \in Handles \cup {-1}, NEW k \in Kinds, GetTest(t, h, k)
      PROVE QueueInv'
    <2>0. /\ call[t].op = "none" /\ h = found[t]
          /\ UNCHANGED <<table, msg, want, found, sent, deleted>>
        BY <1>8, <1>r DEF GetTest, MayGet, Idle, queue
    <2>1. CASE UNCHANGED call /\ heard' = [heard EXCEPT ![t] = None]
        BY <1>g, <2>0, <2>1 DEF ReservedByOne, IdsApart, FoundIsWanted, CallersInv, Live, Field,
            GetInv, TypeOK
    <2>2. ASSUME InRange(h), HasType(h, k), UNCHANGED heard,
                 call' = [call EXCEPT ![t] =
                    [NoCall EXCEPT !.op = "get", !.handle = h, !.kind = k]]
          PROVE QueueInv'
        <3>1. h \in Handles /\ msg[h].type = k
            BY <2>2 DEF InRange, HasType
        <3>2. \A u \in Threads :
                 /\ u # t => call'[u] = call[u]
                 /\ u = t => call'[u].op = "get" /\ call'[u].handle = h /\ call'[u].kind = k
            BY <2>2, <1>g DEF GetInv, TypeOK, NoCall
        <3>3. ReservedByOne' /\ IdsApart' /\ FoundIsWanted'
            BY <2>0, <3>2 DEF ReservedByOne, IdsApart, FoundIsWanted, Live
        <3>4. CallersInv'
            BY <2>0, <2>2, <3>1, <3>2 DEF CallersInv, Field
        <3> QED BY <1>g, <3>3, <3>4
    <2> QED BY <1>8, <2>1, <2>2 DEF GetTest
<1>9. ASSUME NEW t \in Threads, GetNumber(t) PROVE QueueInv'
    <2> DEFINE c == call[t]
    <2>0. /\ c.op = "get" /\ c.handle \in Handles /\ c.handle = found[t]
          /\ msg[found[t]].type = c.kind
          /\ UNCHANGED <<table, msg, want, found, sent, deleted>>
        BY <1>9, <1>g DEF GetNumber, CallersInv, GetInv, queue
    <2>1. \A u \in Threads :
             /\ u # t => call'[u] = call[u] /\ heard'[u] = heard[u]
             /\ u = t => /\ call'[u] = NoCall
                         /\ heard'[u].handle = c.handle /\ heard'[u].id = want[t]
                         /\ heard'[u].kind = c.kind
                         /\ heard'[u].val = Field(msg[c.handle], c.kind)
        BY <1>9, <1>g DEF GetNumber, GetInv, TypeOK
    <2>2. ReservedByOne' /\ IdsApart' /\ FoundIsWanted'
        BY <2>0, <2>1 DEF ReservedByOne, IdsApart, FoundIsWanted, Live, NoCall
    <2>3. CallersInv'
        BY <2>0, <2>1, <1>h DEF CallersInv, Field, NoCall
    <2> QED BY <1>g, <2>2, <2>3
<1>10. ASSUME NEW t \in Threads, NEW h \in Handles \cup {-1}, Delete(t, h) PROVE QueueInv'
    <2>0. /\ call[t].op = "none" /\ h = found[t] /\ heard[t] # None /\ t = Consumer
          /\ UNCHANGED <<table, call, want, sent>>
        BY <1>10, <1>r DEF Delete, MayDelete, MayGet, Idle
    <2>1. h \in Handles /\ Live(h) /\ table = "live"
        <3>1. found[t] # -1
            BY <2>0 DEF CallersInv
        <3> QED BY <2>0, <3>1, SlotFacts DEF CallersInv, FreshSlot
    <2>2. /\ msg' = [msg EXCEPT ![h].type = "empty"]
          /\ deleted' = deleted \cup {msg[h].id}
        BY <1>10, <2>1 DEF Delete, InRange, Removed
    <2>3. \A g \in Handles : /\ g # h => msg'[g] = msg[g]
                             /\ msg'[g].id = msg[g].id
        BY <2>2, <1>g DEF GetInv, TypeOK
    <2>4. msg'[h].type = "empty" /\ ~Live(h)' /\ \A g \in Handles : g # h => (Live(g)' <=> Live(g))
        BY <2>1, <2>2, <2>3, <1>g DEF GetInv, TypeOK, Live, Numbers
    <2>5. \A u \in Threads : IF u = t THEN found'[u] = -1 /\ heard'[u] = None
                                      ELSE found'[u] = found[u] /\ heard'[u] = heard[u]
        BY <1>10, <1>g DEF Delete, GetInv, TypeOK
    <2>6. \A u \in Threads \ {t} : found[u] = -1 /\ heard[u] = None
        BY <2>0 DEF CallersInv
    <2>7. \A u \in Threads : call[u].op = "set" => call[u].handle \in Handles \ {h}
        BY <2>1, SlotFacts
    <2>8. \A u \in Threads : call[u].op # "get"
        BY <2>0, <2>6, <1>g, <1>h DEF CallersInv, GetInv
    <2>9. ReservedByOne'
        BY <2>0, <2>3, <2>7 DEF ReservedByOne
    <2>10. IdsApart'
        BY <2>0, <2>1, <2>2, <2>3, <2>4 DEF IdsApart
    <2>11. FoundIsWanted'
        BY <2>5, <2>6 DEF FoundIsWanted
    <2>12. CallersInv'
        <3>1. msg[h].id \in sent
            BY <2>1 DEF IdsApart
        <3>2. \A u \in Threads : call[u].op = "set" =>
                 /\ call[u].id # 0 /\ call[u].id \in sent' \ deleted'
                 /\ \A g \in Handles : msg'[g].id # call[u].id
                 /\ \A v \in Threads \ {u} : call[v].op = "set" => call[v].id # call[u].id
            BY <2>0, <2>1, <2>2, <2>3 DEF CallersInv
        <3>3. \A u \in Threads : found'[u] = -1 /\ heard'[u] = None
            BY <2>5, <2>6
        <3>4. deleted' \subseteq sent'
            BY <2>0, <2>2, <3>1 DEF CallersInv
        <3> QED BY <2>0, <2>1, <2>8, <3>2, <3>3, <3>4 DEF CallersInv
    <2> QED BY <1>g, <2>9, <2>10, <2>11, <2>12
<1> QED BY <1>1, <1>2, <1>3, <1>4, <1>5, <1>6, <1>7, <1>8, <1>9, <1>10 DEF Next, Step

LEMMA QueueInvHolds == ASSUME AllRules PROVE Spec => []QueueInv
BY InitQueueInv, NextQueueInv, PTL DEF Spec

\* Between the two critical sections of a set its slot is its own.
THEOREM ReservationsExclusive == ASSUME AllRules PROVE Spec => []ReservedByOne
<1>1. QueueInv => ReservedByOne
    BY DEF QueueInv
<1> QED BY <1>1, QueueInvHolds, PTL

\* The first slot with an id holds the message sent with it, or held it.
THEOREM IdsStayApart == ASSUME AllRules PROVE Spec => []IdsApart
<1>1. QueueInv => IdsApart
    BY DEF QueueInv
<1> QED BY <1>1, QueueInvHolds, PTL

\* What a search found stays the message it asked for.
THEOREM HandlesStayValid == ASSUME AllRules PROVE Spec => []FoundIsWanted
<1>1. QueueInv => FoundIsWanted
    BY DEF QueueInv
<1> QED BY <1>1, QueueInvHolds, PTL

\* No message is overwritten, or deleted before it was read.
THEOREM NothingLost == ASSUME AllRules PROVE Spec => KeptUntilRead
<1> DEFINE Kept ==
        \A h \in Handles : Live(h) /\ msg'[h] # msg[h] =>
          \/ table' = "freed"
          \/ heard[Consumer] # None
             /\ heard[Consumer].id = msg[h].id
             /\ heard[Consumer].val = Field(msg[h], msg[h].type)
<1>1. QueueInv /\ [Next]_vars => [Kept]_vars
    <2> SUFFICES ASSUME QueueInv, Next, NEW h \in Handles, Live(h), msg'[h] # msg[h],
                        table' # "freed"
                 PROVE  /\ heard[Consumer] # None
                        /\ heard[Consumer].id = msg[h].id
                        /\ heard[Consumer].val = Field(msg[h], msg[h].type)
        OBVIOUS
    <2> USE DEF QueueInv
    <2>1. msg \in [Handles -> [type : SlotTypes, id : Ids \cup {0}, int64 : Values, double : Values]]
        BY DEF GetInv, TypeOK
    <2>2. ASSUME NEW t \in Threads, MsgInit(t) PROVE FALSE
        BY <2>1, <2>2 DEF MsgInit, CallersInv
    <2>3. ASSUME NEW t \in Threads, MsgFreeMem(t) PROVE FALSE
        BY <2>3 DEF MsgFreeMem
    <2>4. ASSUME NEW t \in Threads, NEW m \in Mail, Reserve(t, m) PROVE FALSE
        BY <2>1, <2>4 DEF Reserve, Free, First, Live, Numbers
    <2>5. ASSUME NEW t \in Threads, SetNumber(t) PROVE FALSE
        <3>1. h # call[t].handle
            BY <2>5, SlotFacts DEF SetNumber
        <3> QED BY <2>1, <2>5, <3>1 DEF SetNumber
    <2>6. ASSUME NEW t \in Threads,
                 SetString(t) \/ GetNumber(t) \/ (\E i \in Ids : Search(t, i))
                    \/ \E g \in Handles \cup {-1}, k \in Kinds : GetTest(t, g, k)
          PROVE FALSE
        BY <2>6 DEF SetString, GetNumber, Search, GetTest, queue
    <2>7. ASSUME NEW t \in Threads, NEW g \in Handles \cup {-1}, Delete(t, g)
          PROVE  /\ heard[Consumer] # None
                 /\ heard[Consumer].id = msg[h].id
                 /\ heard[Consumer].val = Field(msg[h], msg[h].type)
        <3>1. t = Consumer /\ g = found[t] /\ heard[t] # None
            BY <2>7 DEF Delete, MayDelete, MayGet, AllRules
        <3>2. h = g
            BY <2>1, <2>7 DEF Delete, Removed, InRange
        <3>3. found[t] # -1 /\ heard[t].id = want[t]
              /\ heard[t].val = Field(msg[found[t]], msg[found[t]].type)
            BY <3>1 DEF CallersInv
        <3> QED BY <3>1, <3>2, <3>3, SlotFacts
    <2> QED BY <2>2, <2>3, <2>4, <2>5, <2>6, <2>7 DEF Next, Step
<1> QED BY <1>1, QueueInvHolds, PTL DEF Spec, KeptUntilRead

-----------------------------------------------------------------------------
(***************************************************************************)
(* The table implements the mailbox, step by step.  BoxOf is the box seen  *)
(* in a given state of the slots, so that what is shown of it can be used  *)
(* before and after a step.                                                *)
(***************************************************************************)
LiveIn(m, h) == m[h].type \in Numbers

BoxOf(m) ==
    [i \in Ids |->
        IF \E h \in Handles : LiveIn(m, h) /\ m[h].id = i
        THEN <<m[CHOOSE h \in Handles : LiveIn(m, h) /\ m[h].id = i].type,
               Field(m[CHOOSE h \in Handles : LiveIn(m, h) /\ m[h].id = i],
                     m[CHOOSE h \in Handles : LiveIn(m, h) /\ m[h].id = i].type)>>
        ELSE None]

LEMMA BoxIs == BoxNow = BoxOf(msg) /\ BoxNow' = BoxOf(msg')
<1>1. BoxNow = BoxOf(msg)
    BY DEF BoxNow, BoxOf, MessageAt, Live, LiveIn
<1>2. BoxNow' = BoxOf(msg')
    BY DEF BoxNow, BoxOf, MessageAt, Live, LiveIn
<1> QED BY <1>1, <1>2

\* With ids apart, the box holds at each id what the live slot with it holds.
Apart(m) ==
    /\ \A h \in Handles : LiveIn(m, h) => m[h].id \in Ids
    /\ \A g, h \in Handles : LiveIn(m, g) /\ LiveIn(m, h) /\ m[g].id = m[h].id => g = h

LEMMA BoxAt ==
    ASSUME NEW m, Apart(m), NEW h \in Handles, LiveIn(m, h)
    PROVE  m[h].id \in Ids /\ BoxOf(m)[m[h].id] = <<m[h].type, Field(m[h], m[h].type)>>
<1> DEFINE g == CHOOSE g \in Handles : LiveIn(m, g) /\ m[g].id = m[h].id
<1>1. g \in Handles /\ LiveIn(m, g) /\ m[g].id = m[h].id
    OBVIOUS
<1>2. g = h
    BY <1>1 DEF Apart
<1>3. m[h].id \in Ids
    BY DEF Apart
<1>4. BoxOf(m)[m[h].id] = <<m[g].type, Field(m[g], m[g].type)>>
    BY <1>3 DEF BoxOf
<1> QED BY <1>2, <1>3, <1>4

LEMMA BoxNone ==
    ASSUME NEW m, NEW i \in Ids, \A h \in Handles : LiveIn(m, h) => m[h].id # i
    PROVE  BoxOf(m)[i] = None
BY DEF BoxOf

\* Slots that are not live do not show.
LEMMA BoxSame ==
    ASSUME NEW m, NEW n, Apart(m), Apart(n),
           \A h \in Handles :
              /\ LiveIn(n, h) <=> LiveIn(m, h)
              /\ LiveIn(m, h) => /\ n[h].id = m[h].id /\ n[h].type = m[h].type
                                 /\ Field(n[h], n[h].type) = Field(m[h], m[h].type)
    PROVE  BoxOf(n) = BoxOf(m)
<1>1. ASSUME NEW i \in Ids PROVE BoxOf(n)[i] = BoxOf(m)[i]
    <2>1. CASE \E h \in Handles : LiveIn(m, h) /\ m[h].id = i
        <3>1. PICK h \in Handles : LiveIn(m, h) /\ m[h].id = i
            BY <2>1
        <3> QED BY <3>1, BoxAt
    <2>2. CASE \A h \in Handles : LiveIn(m, h) => m[h].id # i
        BY <2>2, BoxNone
    <2> QED BY <2>1, <2>2
<1>2. /\ BoxOf(n) = [i \in Ids |-> BoxOf(n)[i]]
      /\ BoxOf(m) = [i \in Ids |-> BoxOf(m)[i]]
    BY DEF BoxOf
<1> QED BY <1>1, <1>2

LEMMA QueueApart == ASSUME QueueInv PROVE Apart(msg)
BY DEF QueueInv, GetInv, TypeOK, IdsApart, Apart, Live, LiveIn

LEMMA QueueApartNext == ASSUME QueueInv' PROVE Apart(msg')
BY DEF QueueInv, GetInv, TypeOK, IdsApart, Apart, Live, LiveIn

\* What a live slot shows is a message.
LEMMA MessageTyped ==
    ASSUME QueueInv, NEW h \in Handles, Live(h)
    PROVE  <<msg[h].type, Field(msg[h], msg[h].type)>> \in Numbers \X Values
BY DEF QueueInv, GetInv, TypeOK, Live, Field

\* The mailbox counts with the same function.
LEMMA SameCount == \A S : Box!Cardinality(S) = Cardinality(S)
BY DEF Box!Cardinality, Cardinality

\* While a slot is not live the box is not full.
LEMMA RoomForOne ==
    ASSUME QueueInv, NEW h \in Handles, ~Live(h)
    PROVE  Cardinality(Box!InBox) < MsgMax
<1> DEFINE Holds(i, g) == Live(g) /\ msg[g].id = i
           f == [i \in Box!InBox |-> CHOOSE g \in Handles : Holds(i, g)]
           T == Handles \ {h}
<1>1. ASSUME NEW i \in Box!InBox PROVE i \in Ids /\ f[i] \in T /\ msg[f[i]].id = i
    <2>1. i \in Ids /\ BoxOf(msg)[i] # None
        BY BoxIs DEF Box!InBox
    <2>2. \E g \in Handles : Holds(i, g)
        BY <2>1, BoxNone DEF Live, LiveIn
    <2>3. f[i] \in Handles /\ Holds(i, f[i])
        BY <2>2
    <2> QED BY <2>1, <2>3
<1>2. f \in [Box!InBox -> T]
    BY <1>1
<1>3. \A i, j \in Box!InBox : f[i] = f[j] => i = j
    BY <1>1
<1>4. f \in Injection(Box!InBox, T)
    BY <1>2, <1>3 DEF Injection, IsInjective
<1>5. IsFiniteSet(Handles) /\ Cardinality(Handles) = MsgMax
    BY QueueAssumption, FS_Interval DEF Handles
<1>6. IsFiniteSet(T) /\ Cardinality(T) = MsgMax - 1
    BY <1>5, FS_RemoveElement
<1> HIDE DEF f, T
<1>7. IsFiniteSet(Box!InBox) /\ Cardinality(Box!InBox) <= Cardinality(T)
    BY <1>4, <1>6, FS_Injection
<1>8. Cardinality(Box!InBox) \in Nat
    BY <1>7, FS_CardinalityType
<1> QED BY <1>6, <1>7, <1>8, QueueAssumption

\* The second section of a set sends the message.
LEMMA SetSends ==
    ASSUME QueueInv, QueueInv', NEW t \in Threads, SetNumber(t)
    PROVE  \E i \in Ids, m \in Numbers \X Values : Box!Send(i, m)
<1> DEFINE c == call[t]
           h == c.handle
           i == c.id
           m == <<c.kind, c.val>>
<1>1. /\ c.op = "set" /\ c.kind \in Numbers /\ h \in Handles /\ c.val \in Values
      /\ i \in Ids /\ \A g \in Handles : msg[g].id # i
      /\ ~Live(h)
    BY SlotFacts, CallTyped DEF SetNumber, QueueInv, GetInv, CallersInv
<1>2. msg[h] \in [type : SlotTypes, id : Ids \cup {0}, int64 : Values, double : Values]
    BY <1>1 DEF QueueInv, GetInv, TypeOK
<1>3. /\ msg'[h].type = c.kind /\ msg'[h].id = i
      /\ Field(msg'[h], c.kind) = c.val
      /\ \A g \in Handles : g # h => msg'[g] = msg[g]
    <2>1. msg'[h] = Written(msg[h], c) /\ \A g \in Handles : g # h => msg'[g] = msg[g]
        BY <1>1 DEF SetNumber, QueueInv, GetInv, TypeOK
    <2>2. Written(msg[h], c).type = c.kind /\ Written(msg[h], c).id = i
        BY <1>1, <1>2, WrittenFields
    <2>3. Field(Written(msg[h], c), c.kind) = c.val
        BY <1>1, <1>2 DEF Written, Field, Numbers
    <2> QED BY <2>1, <2>2, <2>3
<1>4. BoxOf(msg)[i] = None
    BY <1>1, BoxNone DEF LiveIn
<1>5. ASSUME NEW j \in Ids PROVE BoxOf(msg')[j] = IF j = i THEN m ELSE BoxOf(msg)[j]
    <2>1. CASE j = i
        BY <1>1, <1>3, <2>1, QueueApartNext, BoxAt DEF LiveIn
    <2>2. CASE j # i /\ \E g \in Handles : LiveIn(msg, g) /\ msg[g].id = j
        <3>1. PICK g \in Handles : LiveIn(msg, g) /\ msg[g].id = j
            BY <2>2
        <3>2. g # h /\ msg'[g] = msg[g] /\ LiveIn(msg', g)
            BY <1>1, <1>3, <3>1 DEF Live, LiveIn
        <3>3. BoxOf(msg)[j] = <<msg[g].type, Field(msg[g], msg[g].type)>>
            BY <3>1, QueueApart, BoxAt
        <3>4. BoxOf(msg')[j] = <<msg[g].type, Field(msg[g], msg[g].type)>>
            BY <3>1, <3>2, QueueApartNext, BoxAt
        <3> QED BY <2>2, <3>3, <3>4
    <2>3. CASE j # i /\ \A g \in Handles : LiveIn(msg, g) => msg[g].id # j
        <3>1. \A g \in Handles : LiveIn(msg', g) => msg'[g].id # j
            BY <1>3, <2>3 DEF LiveIn
        <3> QED BY <2>3, <3>1, BoxNone
    <2> QED BY <2>1, <2>2, <2>3
<1>6. BoxOf(msg') = [BoxOf(msg) EXCEPT ![i] = m]
    BY <1>5 DEF BoxOf
<1>7. AnswerNow' = AnswerNow
    BY DEF SetNumber, caller, AnswerNow
<1>8. Cardinality(Box!InBox) < MsgMax
    BY <1>1, RoomForOne
<1>9. Box!Send(i, m)
    BY <1>4, <1>6, <1>7, <1>8, BoxIs, SameCount DEF Box!Send
<1>10. m \in Numbers \X Values
    BY <1>1
<1> HIDE DEF i, m
<1> QED BY <1>1, <1>9, <1>10

\* The section of a get receives what is in the box.
LEMMA GetReceives ==
    ASSUME QueueInv, NEW t \in Threads, GetNumber(t)
    PROVE  \E i \in Ids : Box!Receive(t, i)
<1> DEFINE c == call[t]
           h == c.handle
           i == want[t]
           r == [id |-> i, handle |-> h, kind |-> c.kind, val |-> Field(msg[h], c.kind)]
<1>1. /\ c.op = "get" /\ c.kind \in Numbers /\ h \in Handles /\ h = found[t]
      /\ msg[h].type = c.kind /\ Live(h)
    BY DEF GetNumber, QueueInv, GetInv, CallersInv, Live
<1>2. msg[h].id = i /\ i \in Ids
    <2>1. found[t] # -1
        BY <1>1 DEF Handles
    <2>2. msg[h].id = i
        BY <1>1, <2>1, SlotFacts
    <2> QED BY <1>1, <2>2, QueueApart DEF Apart, Live, LiveIn
<1>3. BoxNow[i] = <<c.kind, Field(msg[h], c.kind)>>
    BY <1>1, <1>2, QueueApart, BoxAt, BoxIs DEF Live, LiveIn
<1>4. BoxNow[i] # None
    <2>1. <<c.kind, Field(msg[h], c.kind)>> \in Numbers \X Values
        BY <1>1, MessageTyped
    <2> QED BY <1>3, <2>1, NoneAssumption
<1>5. heard' = [heard EXCEPT ![t] = r]
    BY DEF GetNumber
<1>6. r \in Answers
    BY <1>1, <1>2, MessageTyped DEF Answers
<1>7. r # None
    BY <1>6, NoneAssumption
<1>8. ASSUME NEW u \in Threads
      PROVE  (IF heard'[u] = None THEN None
              ELSE <<heard'[u].id, <<heard'[u].kind, heard'[u].val>>>>)
               = IF u = t THEN <<i, BoxNow[i]>>
                 ELSE IF heard[u] = None THEN None
                      ELSE <<heard[u].id, <<heard[u].kind, heard[u].val>>>>
    <2>1. CASE u = t
        <3>1. heard'[u] = r
            BY <1>5, <2>1 DEF QueueInv, GetInv, TypeOK
        <3>2. heard'[u].id = i /\ heard'[u].kind = c.kind
              /\ heard'[u].val = Field(msg[h], c.kind)
            BY <3>1
        <3> QED BY <1>3, <1>7, <2>1, <3>1, <3>2
    <2>2. CASE u # t
        BY <1>5, <2>2 DEF QueueInv, GetInv, TypeOK
    <2> QED BY <2>1, <2>2
<1>9. AnswerNow' = [AnswerNow EXCEPT ![t] = <<i, BoxNow[i]>>]
    BY <1>8 DEF AnswerNow
<1>10. UNCHANGED BoxNow
    BY BoxIs DEF GetNumber, queue
<1>11. i \in Box!InBox
    BY <1>2, <1>4 DEF Box!InBox
<1>12. Box!Receive(t, i)
    BY <1>9, <1>10, <1>11 DEF Box!Receive
<1> QED BY <1>2, <1>12

\* A delete removes what the consumer has just read.
LEMMA DeleteRemoves ==
    ASSUME AllRules, QueueInv, QueueInv', NEW t \in Threads,
           NEW h \in Handles \cup {-1}, Delete(t, h)
    PROVE  \E i \in Ids : Box!Remove(i)
<1> DEFINE i == msg[h].id
<1>0. /\ h = found[t] /\ heard[t] # None /\ t = Consumer
      /\ heard' = [heard EXCEPT ![t] = None]
    BY DEF Delete, MayDelete, MayGet, AllRules
<1>1. /\ h \in Handles /\ Live(h) /\ table = "live" /\ want[t] = i
      /\ heard[t].id = i /\ heard[t].kind = msg[h].type
      /\ heard[t].val = Field(msg[h], msg[h].type)
    <2>1. found[t] # -1
        BY <1>0 DEF QueueInv, CallersInv
    <2>2. h \in Handles /\ Live(h) /\ msg[h].id = want[t]
        BY <1>0, <2>1, SlotFacts
    <2>3. table = "live"
        BY <2>2 DEF QueueInv, CallersInv, FreshSlot, Live, Numbers
    <2> QED BY <1>0, <2>2, <2>3 DEF QueueInv, CallersInv
<1>2. i \in Ids /\ BoxNow[i] = <<msg[h].type, Field(msg[h], msg[h].type)>>
    BY <1>1, QueueApart, BoxAt, BoxIs DEF Live, LiveIn
<1>3. BoxNow[i] # None
    BY <1>1, <1>2, MessageTyped, NoneAssumption
<1>4. msg' = [msg EXCEPT ![h].type = "empty"]
    BY <1>1 DEF Delete, InRange, Removed
<1>5. /\ \A g \in Handles : g # h => msg'[g] = msg[g]
      /\ ~LiveIn(msg', h)
    BY <1>1, <1>4 DEF QueueInv, GetInv, TypeOK, LiveIn, Numbers
<1>6. ASSUME NEW j \in Ids PROVE BoxOf(msg')[j] = IF j = i THEN None ELSE BoxOf(msg)[j]
    <2>1. CASE j = i
        <3>1. \A g \in Handles : LiveIn(msg', g) => msg'[g].id # j
            BY <1>1, <1>5, <2>1, QueueApart DEF Apart, Live, LiveIn
        <3> QED BY <2>1, <3>1, BoxNone
    <2>2. CASE j # i /\ \E g \in Handles : LiveIn(msg, g) /\ msg[g].id = j
        <3>1. PICK g \in Handles : LiveIn(msg, g) /\ msg[g].id = j
            BY <2>2
        <3>2. msg'[g] = msg[g] /\ LiveIn(msg', g)
            BY <1>5, <2>2, <3>1 DEF LiveIn
        <3>3. BoxOf(msg)[j] = <<msg[g].type, Field(msg[g], msg[g].type)>>
            BY <3>1, QueueApart, BoxAt
        <3>4. BoxOf(msg')[j] = <<msg[g].type, Field(msg[g], msg[g].type)>>
            BY <3>1, <3>2, QueueApartNext, BoxAt
        <3> QED BY <2>2, <3>3, <3>4
    <2>3. CASE j # i /\ \A g \in Handles : LiveIn(msg, g) => msg[g].id # j
        <3>1. \A g \in Handles : LiveIn(msg', g) => msg'[g].id # j
            BY <1>5, <2>3 DEF LiveIn
        <3> QED BY <2>3, <3>1, BoxNone
    <2> QED BY <2>1, <2>2, <2>3
<1>7. BoxOf(msg') = [BoxOf(msg) EXCEPT ![i] = None]
    BY <1>6 DEF BoxOf
<1>8. AnswerNow' = [AnswerNow EXCEPT ![Consumer] = None]
    BY <1>0 DEF AnswerNow, QueueInv, GetInv, TypeOK
<1>9. AnswerNow[Consumer] = <<i, BoxNow[i]>>
    BY <1>0, <1>1, <1>2 DEF AnswerNow
<1>10. Box!Remove(i)
    BY <1>2, <1>3, <1>7, <1>8, <1>9, BoxIs DEF Box!Remove, Box!InBox
<1> QED BY <1>2, <1>10

\* msg_free_mem closes the box.
LEMMA FreeCloses ==
    ASSUME QueueInv, NEW t \in Threads, MsgFreeMem(t)
    PROVE  Box!Close
<1>1. \A h \in Handles : ~LiveIn(msg', h)
    BY DEF MsgFreeMem, FreshSlot, LiveIn, Numbers
<1>2. BoxOf(msg') = [i \in Ids |-> None]
    BY <1>1 DEF BoxOf
<1>3. AnswerNow' = [u \in Threads |-> None]
    BY DEF MsgFreeMem, AnswerNow
<1> QED BY <1>2, <1>3, BoxIs DEF Box!Close

\* A search, and a get whose test fails, forget the last answer.
LEMMA AskForgets ==
    ASSUME QueueInv, NEW t \in Threads, heard' = [heard EXCEPT ![t] = None],
           UNCHANGED queue
    PROVE  Box!Forget(t)
<1>1. AnswerNow' = [AnswerNow EXCEPT ![t] = None]
    BY DEF AnswerNow, QueueInv, GetInv, TypeOK
<1>2. UNCHANGED BoxNow
    BY BoxIs DEF queue
<1> QED BY <1>1, <1>2 DEF Box!Forget

\* A reservation does not show.
LEMMA ReserveHides ==
    ASSUME QueueInv, QueueInv', NEW t \in Threads, NEW m \in Mail, Reserve(t, m)
    PROVE  UNCHANGED Box!vars
<1>1. UNCHANGED AnswerNow
    BY DEF Reserve, caller, AnswerNow
<1>2. CASE UNCHANGED msg
    BY <1>1, <1>2, BoxIs DEF Box!vars
<1>3. ASSUME NEW h \in Handles, Free(h), msg' = [msg EXCEPT ![h].type = "used"]
      PROVE  UNCHANGED Box!vars
    <2>1. /\ \A g \in Handles : g # h => msg'[g] = msg[g]
          /\ ~LiveIn(msg, h) /\ ~LiveIn(msg', h)
        BY <1>3 DEF Free, LiveIn, Numbers, QueueInv, GetInv, TypeOK
    <2>2. \A g \in Handles :
              /\ LiveIn(msg', g) <=> LiveIn(msg, g)
              /\ LiveIn(msg, g) => msg'[g] = msg[g]
        BY <2>1 DEF LiveIn
    <2>3. BoxOf(msg') = BoxOf(msg)
        BY <2>2, QueueApart, QueueApartNext, BoxSame
    <2> QED BY <1>1, <2>3, BoxIs DEF Box!vars
<1> QED BY <1>2, <1>3 DEF Reserve, First

LEMMA QueueMapped ==
    ASSUME AllRules, QueueInv, QueueInv', [Next]_vars
    PROVE  [Box!Next]_(Box!vars)
<1>1. CASE UNCHANGED vars
    BY <1>1, BoxIs DEF vars, queue, caller, AnswerNow, Box!vars
<1>2. ASSUME NEW t \in Threads, MsgInit(t) PROVE UNCHANGED Box!vars
    <2>1. UNCHANGED <<msg, heard>>
        BY <1>2 DEF MsgInit, caller, QueueInv, CallersInv, GetInv, TypeOK
    <2> QED BY <2>1, BoxIs DEF AnswerNow, Box!vars
<1>3. ASSUME NEW t \in Threads, SetString(t) PROVE UNCHANGED Box!vars
    BY <1>3, BoxIs DEF SetString, queue, caller, AnswerNow, Box!vars
<1>4. ASSUME NEW t \in Threads, NEW i \in Ids, Search(t, i) PROVE Box!Forget(t)
    BY <1>4, AskForgets DEF Search
<1>5. ASSUME NEW t \in Threads, NEW h \in Handles \cup {-1}, NEW k \in Kinds,
             GetTest(t, h, k)
      PROVE  Box!Forget(t) \/ UNCHANGED Box!vars
    <2>1. CASE heard' = [heard EXCEPT ![t] = None]
        BY <1>5, <2>1, AskForgets DEF GetTest
    <2>2. CASE UNCHANGED heard
        BY <1>5, <2>2, BoxIs DEF GetTest, queue, AnswerNow, Box!vars
    <2> QED BY <1>5, <2>1, <2>2 DEF GetTest
<1>6. ASSUME NEW t \in Threads, Step(t) PROVE [Box!Next]_(Box!vars)
    <2>1. CASE MsgInit(t) \/ SetString(t) \/ \E m \in Mail : Reserve(t, m)
        BY <1>2, <1>3, <2>1, ReserveHides
    <2>2. CASE MsgFreeMem(t)
        BY <2>2, FreeCloses DEF Box!Next
    <2>3. CASE SetNumber(t)
        BY <2>3, SetSends DEF Box!Next
    <2>4. CASE GetNumber(t)
        BY <2>4, GetReceives DEF Box!Next
    <2>5. CASE \E i \in Ids : Search(t, i)
        BY <1>4, <2>5 DEF Box!Next
    <2>6. CASE \E h \in Handles \cup {-1}, k \in Kinds : GetTest(t, h, k)
        BY <1>5, <2>6 DEF Box!Next
    <2>7. CASE \E h \in Handles \cup {-1} : Delete(t, h)
        BY <2>7, DeleteRemoves DEF Box!Next
    <2> QED BY <1>6, <2>1, <2>2, <2>3, <2>4, <2>5, <2>6, <2>7 DEF Step
<1> QED BY <1>1, <1>6 DEF Next

\* For any number of slots and threads, the table behaves for bytecode that
\* keeps the rules like a mailbox of that size: a message is written, read and
\* removed in one step each, and is what was sent.
THEOREM TableIsMailbox == ASSUME AllRules PROVE Spec => ImplementsMailbox
<1>1. Init => Box!Init
    <2> SUFFICES ASSUME Init PROVE Box!Init
        OBVIOUS
    <2>1. \A h \in Handles : ~LiveIn(msg, h)
        BY DEF Init, FreshSlot, LiveIn, Numbers
    <2>2. BoxOf(msg) = [i \in Ids |-> None]
        BY <2>1 DEF BoxOf
    <2>3. AnswerNow = [t \in Threads |-> None]
        BY DEF Init, AnswerNow
    <2> QED BY <2>2, <2>3, BoxIs DEF Box!Init
<1>2. QueueInv /\ QueueInv' /\ [Next]_vars => [Box!Next]_(Box!vars)
    BY QueueMapped
<1> QED BY <1>1, <1>2, QueueInvHolds, PTL DEF Spec, ImplementsMailbox, Box!Spec
=============================================================================
