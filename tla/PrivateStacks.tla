--------------------------- MODULE PrivateStacks ---------------------------
(***************************************************************************)
(* What the typed stack promises a thread: elements with a type and a      *)
(* value, last in first out, a fatal error for a pop of the wrong type or  *)
(* a push that does not fit, and no other thread in between.               *)
(*                                                                         *)
(* Two things are not caught: a byte pushed where there is no room for it, *)
(* and a mother who uses her stack while a child starts with a copy of it. *)
(* The stacks they harm are broken: their threads can pop anything.        *)
(***************************************************************************)
EXTENDS Integers, Sequences

CONSTANTS Cores, Kinds, Word, Loads, Capacity

VARIABLES
    stack,  \* the elements of each thread's stack, the last pushed first
    reg,    \* a register of each thread
    state,  \* "off", "copy" (its start), "run" or "dead"
    error,  \* what a dead one died of
    broken  \* the cores whose stack is harmed

vars == <<stack, reg, state, error, broken>>

Tag == [byte |-> 0, int |-> 1, double |-> 2]
None == <<"none", "none">>
Errors == {"push", "pop"} \X Kinds \cup {"type", "empty"} \X {"none"}

Width(k) == IF k = "byte" THEN 1 ELSE Word

\* What is put on the stack: of a byte, the low end of the register.
Element(c, k) == [kind |-> k, value |-> SubSeq(reg[c], 1, Width(k))]

\* What comes back: of a byte, again only the low end.
Taken(c, e) ==
    [i \in 1 .. Word |-> IF i <= Len(e.value) THEN e.value[i] ELSE reg[c][i]]

\* The bytes the elements take, each with its type.
Used(s) ==
    LET sum[i \in 0 .. Len(s)] ==
           IF i = 0 THEN 0 ELSE sum[i - 1] + Width(s[i].kind) + 1
    IN sum[Len(s)]

Fits(c, k) == Used(stack[c]) + Width(k) + 1 <= Capacity

Init ==
    /\ stack = [c \in Cores |-> <<>>]
    /\ reg \in [Cores -> Loads]
    /\ state = [c \in Cores |-> IF c = 0 THEN "run" ELSE "off"]
    /\ error = [c \in Cores |-> None]
    /\ broken = {}

\* The stacks harmed when c harms S; those of starting children, too, when c
\* is their mother or her stack is harmed.
Harmed(c, S) ==
    broken \cup S \cup
        (IF c = 0 \/ 0 \in S THEN {d \in Cores : state[d] = "copy"} ELSE {})

\* c has the stack s now, unless it is harmed.
Becomes(c, s, S) ==
    /\ broken' = Harmed(c, S)
    /\ stack' = [d \in Cores |-> IF d \in broken' THEN <<>>
                                 ELSE IF d = c THEN s ELSE stack[d]]

Load(c) ==
    /\ \E v \in Loads : reg' = [reg EXCEPT ![c] = v]
    /\ UNCHANGED <<stack, state, error, broken>>

Push(c, k) ==
    /\ Fits(c, k)
    /\ Becomes(c, <<Element(c, k)>> \o stack[c], {})
    /\ UNCHANGED <<reg, state, error>>

\* A byte that does not fit harms its stack and that of the core below.
Under(c) == {c, c - 1} \cap Cores

Overrun(c) ==
    /\ ~Fits(c, "byte")
    /\ Becomes(c, <<>>, Under(c))
    /\ UNCHANGED <<reg, state, error>>

Pop(c, k) ==
    /\ stack[c] # <<>> /\ Head(stack[c]).kind = k
    /\ reg' = [reg EXCEPT ![c] = Taken(c, Head(stack[c]))]
    /\ Becomes(c, Tail(stack[c]), {})
    /\ UNCHANGED <<state, error>>

Tell(c) ==
    /\ stack[c] # <<>>
    /\ reg' = [reg EXCEPT ![c][1] = Tag[Head(stack[c]).kind]]
    /\ UNCHANGED <<stack, state, error, broken>>

Clear(c) ==
    /\ Becomes(c, <<>>, {})
    /\ UNCHANGED <<reg, state, error>>

\* A program dies of a word pushed that does not fit, of a pop that finds
\* nothing or another type, and of a stack that should be empty and is not, or
\* the other way round.
Fatal(c, why) ==
    \/ why[1] = "push" /\ why[2] # "byte" /\ ~Fits(c, why[2])
    \/ why[1] = "pop" /\ (stack[c] = <<>> \/ Head(stack[c]).kind # why[2])
    \/ why[1] = "type" /\ stack[c] = <<>>
    \/ why[1] = "empty" /\ stack[c] # <<>>

Dies(c, why) ==
    /\ error' = [error EXCEPT ![c] = why]
    /\ state' = [state EXCEPT ![c] = "dead"]
    /\ stack' = [stack EXCEPT ![c] = <<>>]
    /\ UNCHANGED <<reg, broken>>

\* A thread with a harmed stack pops anything or nothing, and what it pushes
\* may harm the stack below again.
Stray(c) ==
    \/ \E S \in {{}, Under(c)} : Becomes(c, <<>>, S) /\ UNCHANGED <<reg, state, error>>
    \/ /\ \E v \in [1 .. Word -> 0 .. 2] : reg' = [reg EXCEPT ![c] = v]
       /\ Becomes(c, <<>>, {})
       /\ UNCHANGED <<state, error>>
    \/ \E why \in Errors : Dies(c, why)

Start(c) ==
    /\ state[0] = "run" /\ state[c] = "off"
    /\ state' = [state EXCEPT ![c] = "copy"]
    /\ broken' = IF 0 \in broken THEN broken \cup {c} ELSE broken \ {c}
    /\ stack' = [stack EXCEPT ![c] = stack[0]]
    /\ \E v \in Loads : reg' = [reg EXCEPT ![c] = v]
    /\ UNCHANGED error

Begin(c) ==
    /\ state[c] = "copy"
    /\ state' = [state EXCEPT ![c] = "run"]
    /\ UNCHANGED <<stack, reg, error, broken>>

End(c) ==
    /\ state[c] = "run"
    /\ state' = [state EXCEPT ![c] = "off"]
    /\ stack' = [stack EXCEPT ![c] = <<>>]
    /\ \E v \in Loads : reg' = [reg EXCEPT ![c] = v]
    /\ UNCHANGED <<error, broken>>

Next ==
    \/ \E c \in Cores \ broken :
          /\ state[c] = "run"
          /\ \/ Load(c) \/ Overrun(c) \/ Tell(c) \/ Clear(c)
             \/ \E k \in Kinds : Push(c, k) \/ Pop(c, k)
             \/ \E why \in Errors : Fatal(c, why) /\ Dies(c, why)
    \/ \E c \in broken : state[c] \in {"copy", "run"} /\ Stray(c)
    \/ \E c \in Cores \ {0} : Start(c) \/ Begin(c) \/ End(c)

Spec == Init /\ [][Next]_vars
=============================================================================
