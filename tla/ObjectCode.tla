----------------------------- MODULE ObjectCode -----------------------------
(***************************************************************************)
(* The way of a program from its assembly source to its execution: the     *)
(* assembler (assemb/main.c) emits opcodes and puts label numbers where    *)
(* addresses go, a second walk over the code replaces them, the VM reads   *)
(* the object (vm/load-object.c), each thread walks over the code once     *)
(* more to fill its table of jump offsets, and runs it (vm/main.c).        *)
(*                                                                         *)
(* Code is two partial functions on positions: the opcodes, and the eight  *)
(* byte operands that are labels.  Bytes of other operands are left out,   *)
(* so a walk that is not on an instruction finds nothing.                  *)
(***************************************************************************)
EXTENDS Integers, Sequences, FiniteSets

CONSTANTS
    Programs,    \* sources: [code, place]
    Labels,      \* numbers of labels, their indices in the label table
    MaxLabels,   \* MAXLABELS
    CodeMax,     \* code_max of the assembler
    MaxCodeSize, \* max_code_size of the VM, or 0
    MaxSubJumps  \* MAXSUBJUMPS

Header == 16
Word == 8

\* Opcodes that differ in their operands or in where they go: alu is pushb to
\* lseqd, stack the six stack opcodes, mov is movi, movd and noti, load is
\* loada, loadd and load, loop is inclsijmpi and decgrijmpi, exit is the INTR0
\* that ends the thread, intr any other interrupt.
Ops == {"alu", "stack", "mov", "load", "intr", "exit", "jmp", "jmpi", "loop",
        "loadl", "jmpa", "jsr", "jsra", "rts"}

\* opcode[]: operand bytes, quadwords, and operand bytes behind them.
Operands(op) ==
    [alu |-> <<3, 0, 0>>, mov |-> <<2, 0, 0>>, load |-> <<0, 2, 1>>,
     intr |-> <<4, 0, 0>>, exit |-> <<4, 0, 0>>, stack |-> <<1, 0, 0>>,
     jmp |-> <<0, 1, 0>>, jmpi |-> <<1, 1, 0>>, loop |-> <<2, 1, 0>>,
     loadl |-> <<0, 1, 1>>, jmpa |-> <<1, 0, 0>>, jsr |-> <<0, 1, 0>>,
     jsra |-> <<1, 0, 0>>, rts |-> <<0, 0, 0>>][op]

Length(op) ==
    1 + Operands(op)[1] + Word * Operands(op)[2] + Operands(op)[3]
LabelAt(op) == 1 + Operands(op)[1]
Jumps == {"jmp", "jmpi", "loop", "jsr"}
UsesLabel(op) == op \in Jumps \cup {"loadl"}

IsProgram(p) ==
    /\ p.code \in Seq([op : Ops, label : Labels])
    /\ p.place \in [Labels -> SUBSET (1 .. Len(p.code) + 1)]

ASSUME ObjectAssumption ==
    /\ Labels \subseteq Nat
    /\ IsFiniteSet(Labels)
    /\ MaxLabels \in Nat
    /\ CodeMax \in Nat
    /\ MaxCodeSize \in Nat
    /\ MaxSubJumps \in Nat \ {0}
    /\ \A p \in Programs : IsProgram(p)

VARIABLES
    prog,     \* the source
    phase,    \* which part of the tool chain is at work, or how it ended
    start,    \* position of each instruction, as in the .l1dbg file; the last
              \* element is code_ind
    placed,   \* labels in front of the next instruction that were read
    label,    \* label[].pos by label, -1 for a label not defined yet
    objOp,    \* opcodes in the object
    objQuad,  \* label operands in the object
    memOp,    \* opcodes in the memory of the VM
    memQuad,  \* label operands in it
    i,        \* position of the walk that is going on
    jumpoffs, \* the table of jump offsets
    ep,
    reg,      \* the register jumps use; only loadl writes it
    jumpstack,
    jumpstack_ind

asmVars == <<start, placed, label>>
objVars == <<objOp, objQuad>>
memVars == <<memOp, memQuad>>
runVars == <<ep, reg, jumpstack, jumpstack_ind>>
vars == <<prog, phase, asmVars, objVars, memVars, i, jumpoffs, runVars>>

\* A partial function with one more entry, or a new value for one.
Put(f, x, v) == [y \in DOMAIN f \cup {x} |-> IF y = x THEN v ELSE f[y]]
Nowhere == [x \in {} |-> 0]

Init ==
    /\ prog \in Programs
    /\ phase = "asm"
    /\ start = <<Header>>
    /\ placed = {}
    /\ label = Nowhere
    /\ objOp = Nowhere /\ objQuad = Nowhere
    /\ memOp = Nowhere /\ memQuad = Nowhere
    /\ i = Header
    /\ jumpoffs = Nowhere
    /\ ep = Header
    /\ reg = 0
    /\ jumpstack = [n \in 0 .. MaxSubJumps - 1 |-> 0]
    /\ jumpstack_ind = -1

K == Len(start)
code_ind == start[K]
code_size == code_ind
Instr == prog.code[K]

Refused ==
    /\ phase' = "refused"
    /\ UNCHANGED <<prog, asmVars, objVars, memVars, i, jumpoffs, runVars>>

-----------------------------------------------------------------------------
(***************************************************************************)
(* parse: the next line is read while the code is not full.                *)
(***************************************************************************)
Reads == phase = "asm" /\ code_ind < CodeMax - 1

ToPlace == {l \in Labels : K \in prog.place[l]} \ placed
AtOpcode == ToPlace = {} /\ K <= Len(prog.code)

\* Bad: a label that has a position keeps it.
BadPosition(l) ==
    IF l \in DOMAIN label /\ label[l] # -1 THEN label[l] ELSE code_ind
Position(l) == code_ind

InTable(l) == l \in DOMAIN label \/ Cardinality(DOMAIN label) < MaxLabels

DefineLabel(l) ==
    /\ Reads
    /\ l \in ToPlace /\ InTable(l)
    /\ label' = Put(label, l, Position(l))
    /\ placed' = placed \cup {l}
    /\ UNCHANGED <<prog, phase, start, objVars, memVars, i, jumpoffs, runVars>>

\* A write that does not fit is left out without an error.
Fits(op) ==
    /\ code_ind + Length(op) <= CodeMax
    /\ Operands(op)[2] > 0 =>
          code_ind + LabelAt(op) + Word * Operands(op)[2] < CodeMax

\* An operand reserves a place in the table for a label not defined so far.
Mentioned ==
    IF UsesLabel(Instr.op) /\ Instr.label \notin DOMAIN label
    THEN Put(label, Instr.label, -1) ELSE label

Emit ==
    /\ Reads /\ AtOpcode /\ Fits(Instr.op)
    /\ UsesLabel(Instr.op) => InTable(Instr.label)
    /\ label' = Mentioned
    /\ objOp' = Put(objOp, code_ind, Instr.op)
    /\ objQuad' = IF UsesLabel(Instr.op)
                  THEN Put(objQuad, code_ind + LabelAt(Instr.op), Instr.label)
                  ELSE objQuad
    /\ start' = Append(start, code_ind + Length(Instr.op))
    /\ placed' = {}
    /\ UNCHANGED <<prog, phase, memVars, i, jumpoffs, runVars>>

\* The object then has a hole, or is longer than the code memory: what
\* becomes of it is not followed further.
EmitPartly ==
    /\ Reads /\ AtOpcode /\ ~Fits(Instr.op)
    /\ phase' = "spoilt"
    /\ UNCHANGED <<prog, asmVars, objVars, memVars, i, jumpoffs, runVars>>

LabelListFull ==
    /\ Reads
    /\ \/ \E l \in ToPlace : ~InTable(l)
       \/ AtOpcode /\ UsesLabel(Instr.op) /\ ~InTable(Instr.label)
    /\ Refused

\* The end of the file, or code_ind has reached code_max - 1.
EndOfSource ==
    /\ phase = "asm"
    /\ Reads => ToPlace = {} /\ K > Len(prog.code)
    /\ phase' = "fix"
    /\ UNCHANGED <<prog, asmVars, objVars, memVars, i, jumpoffs, runVars>>

-----------------------------------------------------------------------------
(***************************************************************************)
(* write_code_labels: the walk that replaces label numbers by positions.   *)
(***************************************************************************)
FixAt(op) == [jmp |-> 1, jmpi |-> 2, loop |-> 3, loadl |-> 1, jsr |-> 1][op]

FixOperand == objQuad[i + FixAt(objOp[i])]

\* Bad: a label nobody defined is no error.
BadDefined(l) == TRUE
Defined(l) == label[l] # -1

Fix ==
    /\ phase = "fix" /\ i < code_ind
    /\ LET op == objOp[i]
       IN  /\ UsesLabel(op) => Defined(FixOperand)
           /\ objQuad' = IF UsesLabel(op)
                         THEN Put(objQuad, i + FixAt(op), label[FixOperand])
                         ELSE objQuad
           /\ i' = i + Length(op)
    /\ UNCHANGED <<prog, phase, asmVars, objOp, memVars, jumpoffs, runVars>>

LabelNotDefined ==
    /\ phase = "fix" /\ i < code_ind
    /\ UsesLabel(objOp[i]) /\ ~Defined(FixOperand)
    /\ Refused

\* dump_object, and the size check of load_object.  An object without code
\* is refused too, since load_object reads an opcode before it looks.
TooLarge == MaxCodeSize > 0 /\ code_size > MaxCodeSize

Dump ==
    /\ phase = "fix" /\ i >= code_ind
    /\ code_size > Header /\ ~TooLarge
    /\ phase' = "load"
    /\ i' = Header
    /\ UNCHANGED <<prog, asmVars, objVars, memVars, jumpoffs, runVars>>

NotLoaded ==
    /\ phase = "fix" /\ i >= code_ind
    /\ code_size = Header \/ TooLarge
    /\ Refused

-----------------------------------------------------------------------------
\* load_object reads an opcode and its operands until the code is complete.
Load ==
    /\ phase = "load"
    /\ LET op == objOp[i]
           next == i + Length(op)
           done == next > code_size - 1
       IN  /\ memOp' = Put(memOp, i, op)
           /\ memQuad' = IF UsesLabel(op)
                         THEN Put(memQuad, i + LabelAt(op), objQuad[i + LabelAt(op)])
                         ELSE memQuad
           /\ i' = IF done THEN Header ELSE next
           /\ phase' = IF done THEN "boot" ELSE phase
    /\ UNCHANGED <<prog, asmVars, objVars, jumpoffs, runVars>>

(***************************************************************************)
(* The prologue of run(): its own table of instruction lengths and of the  *)
(* places where labels are.                                                *)
(***************************************************************************)
\* Bad: loadl is taken to be as long as jmp.
BadWalkLength(op) == IF op = "loadl" THEN 9 ELSE Length(op)
WalkLength(op) ==
    [alu |-> 4, mov |-> 3, load |-> 18, intr |-> 5, exit |-> 5, stack |-> 2,
     jmp |-> 9, jmpi |-> 10, loop |-> 11, loadl |-> 10, jmpa |-> 2, jsr |-> 9,
     jsra |-> 2, rts |-> 1][op]

WalkAt(op) == [jmp |-> 1, jmpi |-> 2, loop |-> 3, jsr |-> 1][op]

Boot ==
    /\ phase = "boot" /\ i < code_size
    /\ LET op == memOp[i]
       IN  /\ jumpoffs' = IF op \in Jumps
                          THEN Put(jumpoffs, i, memQuad[i + WalkAt(op)])
                          ELSE jumpoffs
           /\ i' = i + WalkLength(op)
    /\ UNCHANGED <<prog, phase, asmVars, objVars, memVars, runVars>>

Begin ==
    /\ phase = "boot" /\ i >= code_size
    /\ phase' = "run"
    /\ UNCHANGED <<prog, asmVars, objVars, memVars, i, jumpoffs, runVars>>

-----------------------------------------------------------------------------
(***************************************************************************)
(* Execution.                                                              *)
(***************************************************************************)
At(ops) == phase = "run" /\ ep < code_size /\ memOp[ep] \in ops

Ends(how) ==
    /\ phase' = how
    /\ UNCHANGED <<prog, asmVars, objVars, memVars, i, jumpoffs, runVars>>

GoOn(e) ==
    /\ ep' = e
    /\ UNCHANGED <<prog, phase, asmVars, objVars, memVars, i, jumpoffs>>

\* eoffs where an instruction does not jump.
Eoffs(op) ==
    [alu |-> 4, mov |-> 3, load |-> 18, intr |-> 5, stack |-> 2, jmpi |-> 10,
     loop |-> 11, loadl |-> 10][op]

Next1 == ep + Eoffs(memOp[ep])

Plain ==
    /\ At({"alu", "stack", "mov", "load", "intr"})
    /\ UNCHANGED <<reg, jumpstack, jumpstack_ind>>
    /\ GoOn(Next1)

Loadl ==
    /\ At({"loadl"})
    /\ reg' = memQuad[ep + 1]
    /\ UNCHANGED <<jumpstack, jumpstack_ind>>
    /\ GoOn(Next1)

Jump ==
    /\ \/ At({"jmp", "jmpi", "loop"}) /\ GoOn(jumpoffs[ep])
       \/ At({"jmpi", "loop"}) /\ GoOn(Next1)
    /\ UNCHANGED <<reg, jumpstack, jumpstack_ind>>

Legal(p) == p >= Header /\ p < code_size

JumpRegister ==
    /\ At({"jmpa"}) /\ Legal(reg)
    /\ UNCHANGED <<reg, jumpstack, jumpstack_ind>>
    /\ GoOn(reg)

Full == jumpstack_ind = MaxSubJumps - 1

\* Bad: jsra is taken to be as long as jsr.
BadBehindCall == ep + 9
BehindCall == IF memOp[ep] = "jsr" THEN ep + 9 ELSE ep + 2

Call(target) ==
    /\ ~Full
    /\ jumpstack_ind' = jumpstack_ind + 1
    /\ jumpstack' = Put(jumpstack, jumpstack_ind + 1, BehindCall)
    /\ UNCHANGED reg
    /\ GoOn(target)

Jsr == At({"jsr"}) /\ Call(jumpoffs[ep])
Jsra == At({"jsra"}) /\ Legal(reg) /\ Call(reg)

Rts ==
    /\ At({"rts"}) /\ jumpstack_ind # -1
    /\ jumpstack_ind' = jumpstack_ind - 1
    /\ UNCHANGED <<reg, jumpstack>>
    /\ GoOn(jumpstack[jumpstack_ind])

Exit == At({"exit"}) /\ Ends("done")

Error ==
    /\ \/ At({"jmpa", "jsra"}) /\ ~Legal(reg)
       \/ At({"jsr", "jsra"}) /\ Full
       \/ At({"rts"}) /\ jumpstack_ind = -1
    /\ Ends("fatal")

\* EXE_NEXT does not look whether the code is at its end.
FetchPastEnd == phase = "run" /\ ep >= code_size /\ Ends("wild")

Assemble ==
    \/ \E l \in Labels : DefineLabel(l)
    \/ Emit \/ EmitPartly \/ LabelListFull \/ EndOfSource
    \/ Fix \/ LabelNotDefined \/ Dump \/ NotLoaded
Execute ==
    \/ Plain \/ Loadl \/ Jump \/ JumpRegister \/ Jsr \/ Jsra \/ Rts
    \/ Exit \/ Error \/ FetchPastEnd

Next == Assemble \/ Load \/ Boot \/ Begin \/ Execute

Spec == Init /\ [][Next]_vars

-----------------------------------------------------------------------------
Lines == 1 .. K - 1
Starts == {start[k] : k \in 1 .. K}

TypeOK ==
    /\ prog \in Programs
    /\ phase \in {"asm", "fix", "load", "boot", "run", "refused", "spoilt",
                  "done", "fatal", "wild"}
    /\ start \in Seq(Nat) /\ K \in 1 .. Len(prog.code) + 1
    /\ placed \subseteq Labels
    /\ DOMAIN label \subseteq Labels
    /\ \A l \in DOMAIN label : label[l] \in Nat \cup {-1}
    /\ DOMAIN objOp \subseteq Nat /\ DOMAIN objQuad \subseteq Nat
    /\ DOMAIN memOp \subseteq Nat /\ DOMAIN memQuad \subseteq Nat
    /\ DOMAIN jumpoffs \subseteq Nat
    /\ i \in Nat /\ ep \in Nat /\ reg \in Nat
    /\ jumpstack \in [0 .. MaxSubJumps - 1 -> Nat]
    /\ jumpstack_ind \in -1 .. MaxSubJumps - 1

\* Every walk over the code, and every jump, arrives at the beginning of an
\* instruction, or at the end: the tables of lengths of the assembler, the
\* loader, the prologue and the opcodes agree.
OnInstruction ==
    /\ phase \in {"fix", "load", "boot"} => i \in Starts
    /\ phase = "run" => ep \in Starts

\* The definitions of a label that were read; the last one counts.
Read(l) == {k \in prog.place[l] : k < K \/ (k = K /\ l \in placed)}
IsTarget(l, k) == k \in Read(l) /\ \A j \in Read(l) : j <= k

\* The thread's jump offsets are the positions of the instructions behind
\* the labels of the source, for each jump of the program.
JumpsResolved ==
    phase = "run" =>
       \A k \in Lines : prog.code[k].op \in Jumps =>
          \E t \in 1 .. K : /\ IsTarget(prog.code[k].label, t)
                            /\ start[k] \in DOMAIN jumpoffs
                            /\ jumpoffs[start[k]] = start[t]

\* What is on the jump stack are the positions behind calls.
ReturnsBehindCalls ==
    \A n \in 0 .. jumpstack_ind :
       \E k \in Lines : /\ prog.code[k].op \in {"jsr", "jsra"}
                        /\ jumpstack[n] = start[k + 1]

-----------------------------------------------------------------------------
(***************************************************************************)
(* The refinement mapping: positions back to numbers of instructions.      *)
(***************************************************************************)
LineAt(p) == CHOOSE k \in 1 .. K : start[k] = p

Built == phase \in {"run", "done", "fatal", "wild"}

srcState == IF phase \in {"asm", "fix", "load", "boot"} THEN "source" ELSE phase
srcSize == IF Built THEN K - 1 ELSE 0
srcWhere == [l \in Labels |-> IF Built THEN Read(l) ELSE {}]
srcLine == IF Built THEN LineAt(ep) ELSE 1
srcCalls == [n \in 1 .. jumpstack_ind + 1 |-> LineAt(jumpstack[n - 1])]
srcReg == IF reg = 0 THEN 0 ELSE LineAt(reg)

Source == INSTANCE SourceProgram WITH
    Depth <- MaxSubJumps,
    state <- srcState,
    size <- srcSize,
    where <- srcWhere,
    line <- srcLine,
    calls <- srcCalls,
    reg <- srcReg

\* What the VM executes is the source: the instructions in their order, each
\* jump to its label, each return behind its call.
ImplementsSource == Source!Spec
=============================================================================
