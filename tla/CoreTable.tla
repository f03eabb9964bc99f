----------------------------- MODULE CoreTable -----------------------------
(***************************************************************************)
(* What the thread interrupts of the VM promise the bytecode: a core runs  *)
(* one thread at a time, join returns when the joining thread is the only  *)
(* one left, and the memory of the program goes away after all of them.    *)
(***************************************************************************)
CONSTANTS Cores, Threads

VARIABLES
    users,    \* the threads that run on each core
    joining,  \* the threads waiting in join
    up        \* the program's memory is there

vars == <<users, joining, up>>

Alone(t) == \A c \in Cores : users[c] \subseteq {t}

Init ==
    /\ users = [c \in Cores |-> {}]
    /\ joining = {}
    /\ up = FALSE

Begin ==
    /\ ~up
    /\ \A c \in Cores : users[c] = {}
    /\ \E t \in Threads : users' = [users EXCEPT ![0] = {t}]
    /\ up' = TRUE
    /\ UNCHANGED joining

Start(c) ==
    /\ up
    /\ users[c] = {}
    /\ \E t \in Threads : users' = [users EXCEPT ![c] = {t}]
    /\ UNCHANGED <<joining, up>>

Stop(c) ==
    /\ \E t \in users[c] \ joining : users' = [users EXCEPT ![c] = @ \ {t}]
    /\ UNCHANGED <<joining, up>>

Join(t) ==
    /\ joining' = joining \cup {t}
    /\ UNCHANGED <<users, up>>

JoinReturn(t) ==
    /\ t \in joining
    /\ Alone(t)
    /\ joining' = joining \ {t}
    /\ UNCHANGED <<users, up>>

Finish ==
    /\ up
    /\ \A c \in Cores : users[c] = {}
    /\ up' = FALSE
    /\ UNCHANGED <<users, joining>>

Next ==
    \/ Begin
    \/ \E c \in Cores : Start(c) \/ Stop(c)
    \/ \E t \in Threads : Join(t) \/ JoinReturn(t)
    \/ Finish

Spec == Init /\ [][Next]_vars

=============================================================================
