------------------------------ MODULE Mailbox ------------------------------
(***************************************************************************)
(* What the message table promises to threads that keep its rules: a box   *)
(* of messages by id, of bounded size, each written in one step, each read *)
(* as it was written, and none lost before it was read.                    *)
(***************************************************************************)
EXTENDS Integers, FiniteSets

CONSTANTS Threads, Consumer, Ids, Size, Messages, None

VARIABLES
    box,    \* the message sent with each id, or None
    answer  \* what a thread was last told: an id and its message, or None

vars == <<box, answer>>

InBox == {i \in Ids : box[i] # None}

Init ==
    /\ box = [i \in Ids |-> None]
    /\ answer = [t \in Threads |-> None]

Send(i, m) ==
    /\ box[i] = None /\ Cardinality(InBox) < Size
    /\ box' = [box EXCEPT ![i] = m]
    /\ UNCHANGED answer

Receive(t, i) ==
    /\ i \in InBox
    /\ answer' = [answer EXCEPT ![t] = <<i, box[i]>>]
    /\ UNCHANGED box

\* A thread asks again, and gets no answer.
Forget(t) ==
    /\ answer' = [answer EXCEPT ![t] = None]
    /\ UNCHANGED box

\* Only what the consumer has just read is removed.
Remove(i) ==
    /\ answer[Consumer] = <<i, box[i]>> /\ i \in InBox
    /\ box' = [box EXCEPT ![i] = None]
    /\ answer' = [answer EXCEPT ![Consumer] = None]

Close ==
    /\ box' = [i \in Ids |-> None]
    /\ answer' = [t \in Threads |-> None]

Next ==
    \/ \E i \in Ids : (\E m \in Messages : Send(i, m)) \/ Remove(i)
    \/ \E t \in Threads : Forget(t) \/ \E i \in Ids : Receive(t, i)
    \/ Close

Spec == Init /\ [][Next]_vars
=============================================================================
