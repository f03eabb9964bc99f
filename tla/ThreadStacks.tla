---------------------------- MODULE ThreadStacks ----------------------------
(***************************************************************************)
(* The typed stacks of the threads (include/stack.h with STACK_CHECK, and  *)
(* the stack opcodes and interrupts of vm/main.c).  All stacks lie one     *)
(* after the other at the end of the data block; an element is its bytes   *)
(* and, below them, a byte that says its type.  A new thread begins with a *)
(* copy of its mother's stack, made by its own prologue out of the         *)
(* mother's live stack.                                                    *)
(*                                                                         *)
(* Nothing keeps a program from pushing a byte where there is no room for  *)
(* it, nor a mother from using her stack while a child copies it.  broken  *)
(* keeps account of the stacks that may have come to harm by that: it is   *)
(* no state of the program, and no step depends on it.                     *)
(***************************************************************************)
EXTENDS Integers, Sequences

CONSTANTS
    MaxCpu,     \* stacks, one per core
    StackSize,  \* stack_size: bytes of a stack
    Word,       \* bytes of an int64 or a double (8)
    Loads,      \* what the bytecode loads into a register
    Kinds       \* the element types the bytecode uses

Cores == 0 .. MaxCpu - 1
Children == Cores \ {0}

\* STACK_BYTE, STACK_QUADWORD, STACK_DOUBLEFLOAT
Tag == [byte |-> 0, int |-> 1, double |-> 2]

\* Byte values that tell the tags apart; registers, low byte first.
Byte == 0 .. 2
Words == [1 .. Word -> Byte]

\* A stack is larger than what one push can go below it (DataTail).
ASSUME StacksAssumption ==
    /\ MaxCpu \in Nat \ {0}
    /\ StackSize \in Nat /\ StackSize > 2
    /\ Word \in Nat \ {0}
    /\ Loads \subseteq Words /\ Loads # {}
    /\ Kinds \subseteq DOMAIN Tag

\* sp_bottom and sp_top of a core's stack.  The byte at sp_top is never part
\* of an element.
Bottom(c) == c * StackSize
Top(c) == c * StackSize + StackSize - 1

\* The stacks, and the last bytes of the data below the first one.
DataTail == 3
Addresses == (0 - DataTail) .. MaxCpu * StackSize - 1

VARIABLES
    mem,     \* the bytes
    sp,      \* the stack pointer of each core's thread
    reg,     \* a register of it
    pc,      \* where the thread is
    motherSp,\* threaddata[].sp: the mother's stack pointer at the start
    copied,  \* bytes of the mother's stack copied so far
    error,   \* the fatal error a thread died of
    broken   \* the stacks that need not hold what their threads put there

vars == <<mem, sp, reg, pc, motherSp, copied, error, broken>>

PC == {"off", "copy", "run", "dead"}

\* An error is that of an operation, a push or pop with its type.
NoError == <<"none", "none">>
Errors == {"push", "pop"} \X Kinds \cup {"type", "empty"} \X {"none"}

\* The bytes an element of a kind occupies besides its tag.
Width(k) == IF k = "byte" THEN 1 ELSE Word

Init ==
    /\ mem = [a \in Addresses |-> 0]
    /\ sp = [c \in Cores |-> Top(c)]
    /\ reg \in [Cores -> Loads]
    /\ pc = [c \in Cores |-> IF c = 0 THEN "run" ELSE "off"]
    /\ motherSp = [c \in Cores |-> Top(0)]
    /\ copied = [c \in Cores |-> 0]
    /\ error = [c \in Cores |-> NoError]
    /\ broken = {}

Copying == {d \in Children : pc[d] = "copy"}

\* c harms the stacks S.  What is copied just now comes to harm when c is the
\* mother, who moves her stack pointer, or her stack is among S.
Harms(c, S) ==
    broken' = broken \cup S \cup (IF c = 0 \/ 0 \in S THEN Copying ELSE {})

\* What c harms when it writes below its stack.
Under(c) == {c, c - 1} \cap Cores

Die(c, why) ==
    /\ pc' = [pc EXCEPT ![c] = "dead"]
    /\ error' = [error EXCEPT ![c] = why]
    /\ UNCHANGED <<mem, sp, reg, motherSp, copied, broken>>

-----------------------------------------------------------------------------
\* stpushb tests for one byte and uses two; stpushi and stpushd test for all
\* of theirs.  Bad: the test of the wide ones forgets the tag.
BadPushFits(c, k) ==
    IF k = "byte" THEN sp[c] + 1 >= Bottom(c)
                  ELSE sp[c] >= Bottom(c) + Word

PushFits(c, k) ==
    IF k = "byte" THEN sp[c] + 1 >= Bottom(c)
                  ELSE sp[c] >= Bottom(c) + Word + 1

\* The bytes go down in the order of the register, the tag below them.
Pushed(c, k) ==
    [a \in Addresses |->
        IF a = sp[c] - Width(k) - 1 THEN Tag[k]
        ELSE IF a \in sp[c] - Width(k) .. sp[c] - 1 THEN reg[c][sp[c] - a]
        ELSE mem[a]]

\* stpopb: at least a byte; the wide ones: the tag and the value are there.
Holds(c, k) ==
    IF k = "byte" THEN sp[c] + 1 <= Top(c) ELSE sp[c] < Top(c) - Word

\* The register after a pop.  A byte replaces the lowest byte only.
Popped(c, k) ==
    [i \in 1 .. Word |->
        IF i <= Width(k) THEN mem[sp[c] + Width(k) + 1 - i] ELSE reg[c][i]]

Load(c) ==
    /\ pc[c] = "run"
    /\ \E v \in Loads : reg' = [reg EXCEPT ![c] = v]
    /\ UNCHANGED <<mem, sp, pc, motherSp, copied, error, broken>>

\* The two bytes of a byte and its tag are inside the stack.
HasRoom(c) == sp[c] - 2 >= Bottom(c)

Push(c, k) ==
    /\ pc[c] = "run"
    /\ PushFits(c, k)
    /\ mem' = Pushed(c, k)
    /\ sp' = [sp EXCEPT ![c] = @ - Width(k) - 1]
    /\ Harms(c, IF k = "byte" /\ ~HasRoom(c) THEN Under(c) ELSE {})
    /\ UNCHANGED <<reg, pc, motherSp, copied, error>>

PushFails(c, k) ==
    /\ pc[c] = "run"
    /\ ~PushFits(c, k)
    /\ Die(c, <<"push", k>>)

\* Bad: any element can be popped as any type.
BadTagMatches(c, k) == TRUE

TagMatches(c, k) == mem[sp[c]] = Tag[k]

Pop(c, k) ==
    /\ pc[c] = "run"
    /\ Holds(c, k) /\ TagMatches(c, k)
    /\ reg' = [reg EXCEPT ![c] = Popped(c, k)]
    /\ sp' = [sp EXCEPT ![c] = @ + Width(k) + 1]
    /\ Harms(c, {})
    /\ UNCHANGED <<mem, pc, motherSp, copied, error>>

PopFails(c, k) ==
    /\ pc[c] = "run"
    /\ Holds(c, k) => ~TagMatches(c, k)
    /\ Die(c, <<"pop", k>>)

-----------------------------------------------------------------------------
\* INTR0 32: the type of the top element, into the lowest byte.
StackType(c) ==
    /\ pc[c] = "run"
    /\ sp[c] + 1 <= Top(c)
    /\ reg' = [reg EXCEPT ![c][1] = mem[sp[c]]]
    /\ UNCHANGED <<mem, sp, pc, motherSp, copied, error, broken>>

StackTypeFails(c) ==
    /\ pc[c] = "run"
    /\ sp[c] + 1 > Top(c)
    /\ Die(c, <<"type", "none">>)

\* INTR0 26: a fatal error unless the stack is empty.
CheckEmptyFails(c) ==
    /\ pc[c] = "run"
    /\ sp[c] # Top(c)
    /\ Die(c, <<"empty", "none">>)

\* INTR0 38.
Clear(c) ==
    /\ pc[c] = "run"
    /\ sp' = [sp EXCEPT ![c] = Top(c)]
    /\ Harms(c, {})
    /\ UNCHANGED <<mem, reg, pc, motherSp, copied, error>>

-----------------------------------------------------------------------------
(***************************************************************************)
(* INTR1 0 by the thread on core 0, and the prologue of the new thread: it *)
(* copies from sp_top down to the mother's sp at the start, one byte at a  *)
(* time, unless the stack was empty.  Registers begin as whatever was      *)
(* there.  What a thread no longer reads goes back to its first value.     *)
(* The child of a mother whose stack was harmed gets a copy that is none.  *)
(***************************************************************************)
Start(c) ==
    /\ pc[0] = "run" /\ pc[c] = "off"
    /\ motherSp' = [motherSp EXCEPT ![c] = sp[0]]
    /\ copied' = [copied EXCEPT ![c] = 0]
    /\ sp' = [sp EXCEPT ![c] = Top(c) - (Top(0) - sp[0])]
    /\ \E v \in Loads : reg' = [reg EXCEPT ![c] = v]
    /\ pc' = [pc EXCEPT ![c] = "copy"]
    /\ broken' = IF 0 \in broken THEN broken \cup {c} ELSE broken \ {c}
    /\ UNCHANGED <<mem, error>>

\* Bad: the loop stops before the tag of the element on top.
BadToCopy(c) == IF motherSp[c] = Top(0) THEN 0 ELSE Top(0) - motherSp[c]

ToCopy(c) == IF motherSp[c] = Top(0) THEN 0 ELSE Top(0) - motherSp[c] + 1

CopyByte(c) ==
    /\ pc[c] = "copy"
    /\ copied[c] < ToCopy(c)
    /\ mem' = [mem EXCEPT ![Top(c) - copied[c]] = mem[Top(0) - copied[c]]]
    /\ copied' = [copied EXCEPT ![c] = @ + 1]
    /\ Harms(c, IF Top(c) - copied[c] < Bottom(c) THEN Under(c) ELSE {})
    /\ UNCHANGED <<sp, reg, pc, motherSp, error>>

Begin(c) ==
    /\ pc[c] = "copy"
    /\ copied[c] = ToCopy(c)
    /\ pc' = [pc EXCEPT ![c] = "run"]
    /\ copied' = [copied EXCEPT ![c] = 0]
    /\ motherSp' = [motherSp EXCEPT ![c] = Top(0)]
    /\ UNCHANGED <<mem, sp, reg, error, broken>>

\* threadexit: the core, and its stack, can be used again; sp and the
\* registers were local to the thread.
End(c) ==
    /\ pc[c] = "run"
    /\ pc' = [pc EXCEPT ![c] = "off"]
    /\ sp' = [sp EXCEPT ![c] = Top(c)]
    /\ reg' = [reg EXCEPT ![c] = CHOOSE v \in Loads : TRUE]
    /\ UNCHANGED <<mem, motherSp, copied, error, broken>>

Execute(c) ==
    \/ Load(c)
    \/ \E k \in Kinds :
          Push(c, k) \/ PushFails(c, k) \/ Pop(c, k) \/ PopFails(c, k)
    \/ StackType(c) \/ StackTypeFails(c) \/ CheckEmptyFails(c) \/ Clear(c)

\* A thread that died takes no more steps and gives nothing back, as one that
\* is never scheduled again: nothing is followed past the first death.
Next ==
    /\ \A c \in Cores : pc[c] # "dead"
    /\ \/ \E c \in Cores : Execute(c)
       \/ \E c \in Children : Start(c) \/ CopyByte(c) \/ Begin(c) \/ End(c)

Spec == Init /\ [][Next]_vars

-----------------------------------------------------------------------------
\* Stack pointers: the byte above a stack is that of a harmed one at most.
Pointers == (0 - DataTail) .. MaxCpu * StackSize

TypeOK ==
    /\ mem \in [Addresses -> Byte]
    /\ sp \in [Cores -> Pointers]
    /\ reg \in [Cores -> Words]
    /\ pc \in [Cores -> PC]
    /\ motherSp \in [Cores -> Pointers]
    /\ copied \in [Cores -> 0 .. StackSize + DataTail]
    /\ error \in [Cores -> Errors \cup {NoError}]
    /\ broken \subseteq Cores

\* A stack pointer stays inside its own stack while the stack is whole, and
\* is never further from it than the push of a byte can go.
SpInStack ==
    \A c \in Cores :
        /\ sp[c] \in Bottom(c) - DataTail .. Top(c) + 1
        /\ c \notin broken => sp[c] \in Bottom(c) .. Top(c)

(***************************************************************************)
(* Why a pop never leaves the stack: from the stack pointer to the top     *)
(* there is an unbroken chain of elements, each tag followed by as many    *)
(* bytes as its type has.  stpopb alone would go past the top.  While a    *)
(* child copies, the chain is the mother's, and what was copied is hers.   *)
(* This holds of the stacks that are whole.                                *)
(***************************************************************************)
Chain(c, B) ==
    /\ sp[c] \in B
    /\ Top(c) \in B
    /\ \A b \in B : b # Top(c) =>
          \E k \in Kinds : mem[b] = Tag[k] /\ b + Width(k) + 1 \in B

Chained(c) == \E B \in SUBSET (sp[c] .. Top(c)) : Chain(c, B)

MotherKnown(c) ==
    /\ motherSp[c] \in Bottom(0) - DataTail .. Top(0) + 1
    /\ copied[c] <= ToCopy(c)

SameAsMothers(c) ==
    /\ sp[c] = Top(c) - (Top(0) - motherSp[c])
    /\ motherSp[c] = sp[0]
    /\ \A i \in 0 .. StackSize - 1 :
          i < copied[c] => mem[Top(c) - i] = mem[Top(0) - i]

StackInv ==
    /\ TypeOK
    /\ SpInStack
    /\ pc[0] \in {"run", "dead"}
    /\ \A c \in Copying : MotherKnown(c)
    /\ \A c \in Cores \ broken :
          IF pc[c] = "copy" THEN SameAsMothers(c) /\ 0 \notin broken ELSE Chained(c)

\* What one thread does to its stack leaves the bytes of all the others, and
\* the data below the stacks, as they were.  Only the push of a byte, or the
\* copy of a stack on which that has happened, goes below its stack, by no
\* more than three bytes: they belong to the last data or to the stack of the
\* core below, and neither stack counts as whole from then on.
WritesOwnStack ==
    [][\A a \in Addresses : mem'[a] # mem[a] =>
          \E c \in Cores :
             /\ sp'[c] # sp[c] \/ copied'[c] # copied[c]
             /\ \/ a \in Bottom(c) .. Top(c)
                \/ a \in Bottom(c) - DataTail .. Bottom(c) - 1 /\ Under(c) \subseteq broken'
      ]_vars

-----------------------------------------------------------------------------
(***************************************************************************)
(* The refinement mapping: the elements between an address and the top of  *)
(* a core's stack, the last pushed first.  Bytes that are no element read  *)
(* as a garbage element.                                                   *)
(***************************************************************************)
Garbage == [kind |-> "garbage", value |-> <<>>]

KindAt(m, a) == CHOOSE k \in DOMAIN Tag : Tag[k] = m[a]

\* The address behind the element at a.
Behind(m, a) == a + Width(KindAt(m, a)) + 1

ElementAt(m, a) ==
    [kind  |-> KindAt(m, a),
     value |-> [i \in 1 .. Width(KindAt(m, a)) |-> m[Behind(m, a) - i]]]

Elements(m, c) ==
    LET from[a \in Bottom(c) - DataTail .. Top(c)] ==
           IF a = Top(c) THEN <<>>
           ELSE IF Behind(m, a) > Top(c) THEN <<Garbage>>
           ELSE <<ElementAt(m, a)>> \o from[Behind(m, a)]
    IN from

\* A new thread has its mother's stack from the start on.
StackOf(c) ==
    CASE c \in broken -> <<>>
      [] c \notin broken /\ pc[c] = "copy" -> Elements(mem, 0)[motherSp[c]]
      [] c \notin broken /\ pc[c] = "run"  -> Elements(mem, c)[sp[c]]
      [] OTHER -> <<>>

Stacks == [c \in Cores |-> StackOf(c)]

Abstract == INSTANCE PrivateStacks WITH
    stack <- Stacks, state <- pc, Capacity <- StackSize - 1

\* Each thread has a stack of its own: it pops what it pushed, last in first
\* out, with its type, and begins with what its mother had at the start.  A
\* stack is lost by nothing but a byte pushed where there is no room, by its
\* own thread or that of the core above, and a mother who uses her stack while
\* it is copied.
ImplementsStacks == Abstract!Spec
=============================================================================
