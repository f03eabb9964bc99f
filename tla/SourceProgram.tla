--------------------------- MODULE SourceProgram ---------------------------
(***************************************************************************)
(* What an assembly source means: its instructions one after the other,    *)
(* jumps to the instruction behind a label, calls that return to the       *)
(* instruction behind the call.  Positions are numbers of instructions.    *)
(* The assembler may refuse a source, spoil it, or stop reading before its *)
(* end.                                                                    *)
(***************************************************************************)
EXTENDS Integers, Sequences

CONSTANTS
    Programs, \* [code, place]: instructions, and the instructions each label
              \* of the program is defined in front of
    Labels,
    Depth     \* calls that can be open at a time

VARIABLES
    prog,
    state, \* "source", "refused", "spoilt", or how far the program has come
    size,  \* how many instructions were read
    where, \* the definitions of each label that were read
    line,  \* the next instruction
    calls, \* the instructions open calls return to
    reg    \* the instruction a register points to

vars == <<prog, state, size, where, line, calls, reg>>

Init ==
    /\ prog \in Programs
    /\ state = "source"
    /\ size = 0
    /\ where = [l \in Labels |-> {}]
    /\ line = 1
    /\ calls = << >>
    /\ reg = 0

UsesLabel(op) == op \in {"jmp", "jmpi", "loop", "loadl", "jsr"}

Read(n, last) == [l \in Labels |-> {k \in prog.place[l] : k <= last}]

Begin ==
    /\ state = "source"
    /\ \E n \in 1 .. Len(prog.code) : \E last \in {n, n + 1} :
          /\ size' = n
          /\ where' = Read(n, last)
          /\ \A k \in 1 .. n :
                UsesLabel(prog.code[k].op) => where'[prog.code[k].label] # {}
          /\ n < Len(prog.code) => last = n
    /\ state' = "run"
    /\ UNCHANGED <<prog, line, calls, reg>>

Refuse ==
    /\ state = "source"
    /\ state' \in {"refused", "spoilt"}
    /\ UNCHANGED <<prog, size, where, line, calls, reg>>

At(ops) == state = "run" /\ line <= size /\ prog.code[line].op \in ops

\* The last definition of a label is the one that counts.
Target == CHOOSE k \in where[prog.code[line].label] :
             \A j \in where[prog.code[line].label] : j <= k

Plain ==
    /\ At({"alu", "stack", "mov", "load", "intr"})
    /\ line' = line + 1
    /\ UNCHANGED <<calls, reg>>

Loadl ==
    /\ At({"loadl"})
    /\ reg' = Target
    /\ line' = line + 1
    /\ UNCHANGED calls

Jump ==
    /\ \/ At({"jmp", "jmpi", "loop"}) /\ line' = Target
       \/ At({"jmpi", "loop"}) /\ line' = line + 1
       \/ At({"jmpa"}) /\ reg \in 1 .. size /\ line' = reg
    /\ UNCHANGED <<calls, reg>>

Call ==
    /\ Len(calls) < Depth
    /\ calls' = Append(calls, line + 1)
    /\ \/ At({"jsr"}) /\ line' = Target
       \/ At({"jsra"}) /\ reg \in 1 .. size /\ line' = reg
    /\ UNCHANGED reg

Return ==
    /\ At({"rts"})
    /\ calls # << >>
    /\ line' = calls[Len(calls)]
    /\ calls' = SubSeq(calls, 1, Len(calls) - 1)
    /\ UNCHANGED reg

Step == Plain \/ Loadl \/ Jump \/ Call \/ Return

\* The errors of a running program.
Fails ==
    \/ At({"jmpa", "jsra"}) /\ reg \notin 1 .. size
    \/ At({"jsr", "jsra"}) /\ Len(calls) = Depth
    \/ At({"rts"}) /\ calls = << >>

Stop ==
    /\ \/ At({"exit"}) /\ state' = "done"
       \/ Fails /\ state' = "fatal"
       \/ state = "run" /\ line > size /\ state' = "wild"
    /\ UNCHANGED <<line, calls, reg>>

Next ==
    \/ Begin
    \/ Refuse
    \/ Step /\ UNCHANGED <<prog, state, size, where>>
    \/ Stop /\ UNCHANGED <<prog, size, where>>

Spec == Init /\ [][Next]_vars
=============================================================================
