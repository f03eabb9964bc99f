-------------------------- MODULE ObjectCode_proofs --------------------------
(***************************************************************************)
(* Proofs about ObjectCode for every set of programs and every limit.      *)
(*                                                                         *)
(* The tables of lengths agree (Tables), so all walks stop at the same     *)
(* positions; behind each walk, what it writes is what the source says.    *)
(***************************************************************************)
EXTENDS ObjectCode, TLAPS

Op(k) == prog.code[k].op
Lab(k) == prog.code[k].label
QuadAt(k) == start[k] + LabelAt(Op(k))

AfterBoot == {"run", "done", "fatal", "wild"}
AfterLoad == {"boot"} \cup AfterBoot
AfterFix == {"load"} \cup AfterLoad

\* Instructions follow each other without a gap.
StartInv ==
    /\ start[1] = Header
    /\ \A j, k \in 1 .. K : j < k => start[j] < start[k]
    /\ \A k \in Lines : start[k + 1] = start[k] + Length(Op(k))

ObjInv ==
    \A k \in Lines : start[k] \in DOMAIN objOp /\ objOp[start[k]] = Op(k)

\* The label table knows the last definition that was read.
LabelInv ==
    \A l \in Labels :
       /\ Read(l) # {} => l \in DOMAIN label
       /\ l \in DOMAIN label =>
             \/ label[l] = -1 /\ Read(l) = {}
             \/ \E t \in 1 .. K : IsTarget(l, t) /\ label[l] = start[t]

Fixed(k) == phase \in AfterFix \/ (phase = "fix" /\ start[k] < i)

\* An operand is the number of its label until the walk has come by, then it
\* is the position of the label.
QuadInv ==
    \A k \in Lines : UsesLabel(Op(k)) =>
       /\ Lab(k) \in DOMAIN label
       /\ QuadAt(k) \in DOMAIN objQuad
       /\ phase \in {"asm", "fix"} /\ ~Fixed(k) => objQuad[QuadAt(k)] = Lab(k)
       /\ Fixed(k) => /\ objQuad[QuadAt(k)] = label[Lab(k)]
                      /\ label[Lab(k)] # -1

WalkInv ==
    /\ phase = "asm" => i = Header
    /\ phase \in {"fix", "load", "boot"} => i \in Starts
    /\ phase = "load" => i < code_ind

Loaded(k) == phase \in AfterLoad \/ (phase = "load" /\ start[k] < i)

MemInv ==
    \A k \in Lines : Loaded(k) =>
       /\ start[k] \in DOMAIN memOp /\ memOp[start[k]] = Op(k)
       /\ UsesLabel(Op(k)) => /\ QuadAt(k) \in DOMAIN memQuad
                              /\ memQuad[QuadAt(k)] = label[Lab(k)]

Booted(k) == phase \in AfterBoot \/ (phase = "boot" /\ start[k] < i)

JumpInv ==
    \A k \in Lines : Booted(k) /\ Op(k) \in Jumps =>
       start[k] \in DOMAIN jumpoffs /\ jumpoffs[start[k]] = label[Lab(k)]

RunInv ==
    /\ ep \in Starts
    /\ reg \in {0} \cup Starts
    /\ ReturnsBehindCalls

IInv == /\ TypeOK /\ StartInv /\ ObjInv /\ LabelInv /\ QuadInv
        /\ WalkInv /\ MemInv /\ JumpInv /\ RunInv

-----------------------------------------------------------------------------
(***************************************************************************)
(* The tables of assembler, prologue and opcodes.                          *)
(***************************************************************************)
\* The table of the opcodes, added up.
LEMMA Lengths ==
    ASSUME NEW op \in Ops
    PROVE  /\ Length(op) \in Nat /\ Length(op) >= 1
           /\ LabelAt(op) \in Nat /\ LabelAt(op) >= 1
           /\ UsesLabel(op) => LabelAt(op) + Word <= Length(op)
<1>1. /\ Operands(op)[1] \in Nat /\ Operands(op)[2] \in Nat /\ Operands(op)[3] \in Nat
      /\ UsesLabel(op) => Operands(op)[2] = 1
  BY DEF Operands, Ops, UsesLabel, Jumps
<1> HIDE DEF Operands
<1>2. QED BY <1>1 DEF Length, LabelAt, Word

\* write_code_labels and the prologue of run() know where labels and the next
\* instruction are.
LEMMA Tables ==
    ASSUME NEW op \in Ops
    PROVE  /\ UsesLabel(op) => FixAt(op) = LabelAt(op)
           /\ op \in Jumps => WalkAt(op) = LabelAt(op)
           /\ WalkLength(op) = Length(op)
           /\ op \in {"alu", "stack", "mov", "load", "intr", "jmpi", "loadl", "loop"}
                 => Eoffs(op) = Length(op)
           /\ Length("jsr") = 9 /\ Length("jsra") = 2
           /\ LabelAt("loadl") = 1
<1>1. UsesLabel(op) => FixAt(op) = LabelAt(op)
  BY DEF FixAt, LabelAt, UsesLabel, Jumps, Operands
<1>2. op \in Jumps => WalkAt(op) = LabelAt(op)
  BY DEF WalkAt, LabelAt, Jumps, Operands
<1>3. WalkLength(op) = Length(op)
  BY DEF WalkLength, Length, Operands, Ops, Word
<1>4. op \in {"alu", "stack", "mov", "load", "intr", "jmpi", "loadl", "loop"}
         => Eoffs(op) = Length(op)
  BY DEF Eoffs, Length, Operands, Word
<1>5. Length("jsr") = 9 /\ Length("jsra") = 2 /\ LabelAt("loadl") = 1
  BY DEF Length, LabelAt, Operands, Word
<1>6. QED BY <1>1, <1>2, <1>3, <1>4, <1>5

LEMMA ElementOfSeq ==
    ASSUME NEW S, NEW s \in Seq(S), NEW n \in 1 .. Len(s)
    PROVE  s[n] \in S
OBVIOUS

-----------------------------------------------------------------------------
(***************************************************************************)
(* Positions of instructions and of their operands.                        *)
(***************************************************************************)
LEMMA Positions ==
    ASSUME TypeOK, StartInv
    PROVE  /\ Len(start) = K /\ K \in Nat /\ K >= 1
           /\ \A k \in 1 .. K : start[k] \in Nat /\ start[k] >= Header
           /\ \A j, k \in 1 .. K : start[j] = start[k] => j = k
           /\ \A j, k \in 1 .. K : start[j] < start[k] <=> j < k
<1>1. start \in Seq(Nat) /\ K \in Nat /\ K >= 1 /\ Len(start) = K
  BY DEF TypeOK, K
<1>2. \A k \in 1 .. K : start[k] \in Nat
  BY <1>1
<1>3. \A j, k \in 1 .. K : j < k => start[j] < start[k]
  BY DEF StartInv
<1>4. ASSUME NEW k \in 1 .. K
      PROVE  start[k] >= Header
  <2>1. CASE k = 1
    BY <2>1, <1>1 DEF StartInv, Header
  <2>2. CASE k # 1
    <3>1. 1 \in 1 .. K /\ 1 < k
      BY <1>1, <2>2
    <3>2. start[1] < start[k]
      BY <3>1, <1>3
    <3>3. QED BY <3>2, <1>2, <3>1 DEF StartInv, Header
  <2>3. QED BY <2>1, <2>2
<1>5. \A j, k \in 1 .. K : start[j] = start[k] => j = k
  BY <1>1, <1>2, <1>3
<1>6. \A j, k \in 1 .. K : start[j] < start[k] <=> j < k
  BY <1>1, <1>2, <1>3
<1>7. QED BY <1>1, <1>2, <1>4, <1>5, <1>6

LEMMA Programming ==
    ASSUME TypeOK
    PROVE  /\ \A k \in 1 .. Len(prog.code) : Op(k) \in Ops /\ Lab(k) \in Labels
           /\ Len(prog.code) \in Nat
           /\ \A k \in Lines : k \in 1 .. Len(prog.code) /\ k \in 1 .. K /\ k + 1 \in 1 .. K
           /\ \A l \in Labels : prog.place[l] \subseteq 1 .. Len(prog.code) + 1
<1>1. IsProgram(prog)
  BY ObjectAssumption DEF TypeOK
<1>2. \A k \in 1 .. Len(prog.code) : prog.code[k] \in [op : Ops, label : Labels]
  BY <1>1, ElementOfSeq DEF IsProgram
<1>3. Len(prog.code) \in Nat
  BY <1>1 DEF IsProgram
<1>4. \A k \in Lines : k \in 1 .. Len(prog.code) /\ k \in 1 .. K /\ k + 1 \in 1 .. K
  BY <1>3 DEF TypeOK, Lines
<1>5. QED BY <1>1, <1>2, <1>3, <1>4 DEF IsProgram, Op, Lab

LEMMA Operand ==
    ASSUME TypeOK, StartInv
    PROVE  /\ \A k \in Lines : UsesLabel(Op(k)) =>
                 QuadAt(k) \in Nat /\ start[k] < QuadAt(k) /\ QuadAt(k) < start[k + 1]
           /\ \A j, k \in Lines :
                 UsesLabel(Op(j)) /\ UsesLabel(Op(k)) /\ QuadAt(j) = QuadAt(k) => j = k
<1>1. ASSUME NEW k \in Lines, UsesLabel(Op(k))
      PROVE  QuadAt(k) \in Nat /\ start[k] < QuadAt(k) /\ QuadAt(k) < start[k + 1]
  <2>1. Op(k) \in Ops /\ start[k] \in Nat
    BY Programming, Positions
  <2>2. start[k + 1] = start[k] + Length(Op(k))
    BY DEF StartInv
  <2>3. QED BY <2>1, <2>2, <1>1, Lengths DEF QuadAt, Word
<1>2. ASSUME NEW j \in Lines, NEW k \in Lines, UsesLabel(Op(j)), UsesLabel(Op(k)),
             QuadAt(j) = QuadAt(k)
      PROVE  j = k
  <2>1. /\ start[j] < QuadAt(j) /\ QuadAt(j) < start[j + 1] /\ QuadAt(j) \in Nat
        /\ start[k] < QuadAt(k) /\ QuadAt(k) < start[k + 1] /\ QuadAt(k) \in Nat
    BY <1>1, <1>2
  <2>2. /\ j \in 1 .. K /\ j + 1 \in 1 .. K /\ k \in 1 .. K /\ k + 1 \in 1 .. K
        /\ start[j] \in Nat /\ start[j + 1] \in Nat /\ start[k] \in Nat /\ start[k + 1] \in Nat
    BY Programming, Positions
  <2>3. start[j] < start[k + 1] /\ start[k] < start[j + 1]
    BY <2>1, <2>2, <1>2
  <2>4. j < k + 1 /\ k < j + 1
    BY <2>2, <2>3, Positions
  <2>5. QED BY <2>4, <2>2, Positions
<1>3. QED BY <1>1, <1>2

\* A walk in front of the end is on an instruction, and goes to the next.
LEMMA Walk ==
    ASSUME TypeOK, StartInv, NEW p \in Starts, p < code_ind
    PROVE  \E a \in Lines :
              /\ p = start[a]
              /\ Op(a) \in Ops
              /\ p + Length(Op(a)) = start[a + 1]
              /\ a + 1 \in 1 .. K
              /\ \A k \in Lines : start[k] < start[a + 1] <=> (start[k] < p \/ k = a)
<1>1. PICK a \in 1 .. K : p = start[a]
  BY DEF Starts
<1>2. a < K /\ a \in Lines
  <2>1. start[a] < start[K] /\ K \in 1 .. K
    BY <1>1, Positions DEF code_ind
  <2>2. QED BY <2>1, Positions DEF Lines
<1>3. start[a + 1] = start[a] + Length(Op(a)) /\ Op(a) \in Ops /\ a + 1 \in 1 .. K
  BY <1>2, Programming DEF StartInv
<1>4. ASSUME NEW k \in Lines
      PROVE  start[k] < start[a + 1] <=> (start[k] < p \/ k = a)
  <2>1. k \in 1 .. K
    BY Programming
  <2>2. (start[k] < start[a + 1] <=> k < a + 1) /\ (start[k] < start[a] <=> k < a)
    BY <2>1, <1>1, <1>3, Positions
  <2>3. QED BY <2>2, <2>1, <1>1, Positions
<1>5. QED BY <1>1, <1>2, <1>3, <1>4

-----------------------------------------------------------------------------
(***************************************************************************)
(* The assembler.                                                          *)
(***************************************************************************)
LEMMA InitInv == Init => IInv
<1> SUFFICES ASSUME Init PROVE IInv
  OBVIOUS
<1> USE DEF Init
<1>1. start \in Seq(Nat) /\ K = 1 /\ Lines = {} /\ Starts = {Header} /\ start[1] = Header
  BY DEF K, Lines, Starts, Header
<1>2. IsProgram(prog)
  BY ObjectAssumption
<1>3. Len(prog.code) \in Nat
  BY <1>2 DEF IsProgram
<1>4. TypeOK
  BY <1>1, <1>3, ObjectAssumption DEF TypeOK, Nowhere, Header
<1>5. StartInv
  BY <1>1 DEF StartInv
<1>6. ObjInv /\ QuadInv /\ MemInv /\ JumpInv
  BY <1>1 DEF ObjInv, QuadInv, MemInv, JumpInv
<1>7. LabelInv
  <2>1. ASSUME NEW l \in Labels
        PROVE  Read(l) = {} /\ l \notin DOMAIN label
    BY <1>1, <1>2 DEF Read, IsProgram, Nowhere
  <2>2. QED BY <2>1 DEF LabelInv
<1>8. WalkInv
  BY <1>1 DEF WalkInv
<1>9. RunInv
  BY <1>1, ObjectAssumption DEF RunInv, ReturnsBehindCalls
<1>10. QED BY <1>4, <1>5, <1>6, <1>7, <1>8, <1>9 DEF IInv

LEMMA DefineLabelInv ==
    ASSUME IInv, NEW l \in Labels, DefineLabel(l)
    PROVE  IInv'
<1> USE DEF IInv, DefineLabel, Reads, objVars, memVars, runVars, Position
<1>1. /\ phase = "asm" /\ phase' = "asm" /\ prog' = prog /\ start' = start /\ i' = i
      /\ K' = K /\ Lines' = Lines /\ Starts' = Starts
      /\ objOp' = objOp /\ objQuad' = objQuad
  BY DEF K, Lines, Starts
<1>2. /\ DOMAIN label' = DOMAIN label \cup {l}
      /\ label'[l] = code_ind
      /\ \A m \in DOMAIN label : m # l => label'[m] = label[m]
  BY DEF Put
<1>3. K \in prog.place[l] /\ l \notin placed /\ placed' = placed \cup {l}
  BY DEF ToPlace
<1>4. /\ Read(l)' = Read(l) \cup {K}
      /\ \A m \in Labels : m # l => Read(m)' = Read(m)
  BY <1>1, <1>3 DEF Read
<1>5. code_ind = start[K] /\ code_ind \in Nat /\ K \in 1 .. K
  BY Positions DEF code_ind
<1>6. TypeOK'
  BY <1>1, <1>2, <1>3, <1>5 DEF TypeOK, K
<1>7. StartInv' /\ ObjInv'
  BY <1>1 DEF StartInv, ObjInv, Op
<1>8. LabelInv'
  <2>1. ASSUME NEW m \in Labels
        PROVE  /\ Read(m)' # {} => m \in DOMAIN label'
               /\ m \in DOMAIN label' =>
                    \/ label'[m] = -1 /\ Read(m)' = {}
                    \/ \E t \in 1 .. K' : IsTarget(m, t)' /\ label'[m] = start'[t]
    <3>1. CASE m = l
      <4>1. \A k \in Read(l) : k <= K
        <5>1. K \in Nat
          BY Positions
        <5>2. \A k \in prog.place[l] : k \in Nat
          BY Programming
        <5>3. QED BY <5>1, <5>2 DEF Read
      <4>2. IsTarget(l, K)'
        BY <1>1, <1>4, <4>1, Positions DEF IsTarget
      <4>3. QED BY <3>1, <4>2, <1>1, <1>2, <1>5
    <3>2. CASE m # l
      BY <3>2, <1>1, <1>2, <1>4 DEF LabelInv, IsTarget
    <3>3. QED BY <3>1, <3>2
  <2>2. QED BY <2>1 DEF LabelInv
<1>9. QuadInv'
  BY <1>1, <1>2 DEF QuadInv, Op, Lab, QuadAt, Fixed, AfterFix, AfterLoad, AfterBoot
<1>10. WalkInv'
  BY <1>1 DEF WalkInv
<1>11. MemInv' /\ JumpInv'
  BY <1>1 DEF MemInv, JumpInv, Loaded, Booted, AfterLoad, AfterBoot
<1>12. RunInv'
  BY <1>1 DEF RunInv, ReturnsBehindCalls
<1>13. QED BY <1>6, <1>7, <1>8, <1>9, <1>10, <1>11, <1>12

LEMMA EmitInv ==
    ASSUME IInv, Emit
    PROVE  IInv'
<1> USE DEF IInv, Emit, Reads, memVars, runVars
<1>1. /\ phase = "asm" /\ phase' = "asm" /\ prog' = prog /\ i' = i
      /\ K \in Nat /\ K >= 1 /\ Len(start) = K /\ K \in 1 .. Len(prog.code)
      /\ Instr.op = Op(K) /\ Instr.label = Lab(K) /\ Op(K) \in Ops /\ Lab(K) \in Labels
      /\ code_ind = start[K] /\ code_ind \in Nat
  <2>1. Len(prog.code) \in Nat /\ K <= Len(prog.code) /\ K \in Nat /\ K >= 1 /\ Len(start) = K
    BY Positions, Programming DEF AtOpcode
  <2>2. K \in 1 .. Len(prog.code) /\ K \in 1 .. K
    BY <2>1
  <2>3. QED BY <2>1, <2>2, Positions, Programming DEF Instr, code_ind, Op, Lab
<1>2. Length(Op(K)) \in Nat /\ Length(Op(K)) >= 1
  BY <1>1, Lengths
<1>3. /\ start' \in Seq(Nat) /\ K' = K + 1 /\ Len(start') = K + 1
      /\ \A k \in 1 .. K : start'[k] = start[k]
      /\ start'[K + 1] = start[K] + Length(Op(K))
  <2>1. start \in Seq(Nat)
    BY DEF TypeOK
  <2>2. start' = Append(start, start[K] + Length(Op(K))) /\ start[K] + Length(Op(K)) \in Nat
    BY <1>1, <1>2
  <2>3. Len(start') = K + 1
    BY <2>1, <2>2, <1>1
  <2>4. QED BY <2>1, <2>2, <2>3, <1>1 DEF K
<1>4. /\ Lines' = Lines \cup {K} /\ K \notin Lines
      /\ \A k \in Lines : k \in 1 .. K /\ k + 1 \in 1 .. K /\ k # K
      /\ Starts \subseteq Starts'
      /\ \A k \in Lines : start'[k] = start[k] /\ start'[k + 1] = start[k + 1]
  <2>1. Lines' = Lines \cup {K} /\ K \notin Lines /\ \A k \in Lines : k \in 1 .. K /\ k + 1 \in 1 .. K /\ k # K
    BY <1>1, <1>3 DEF Lines
  <2>2. Starts \subseteq Starts'
    <3>1. ASSUME NEW k \in 1 .. K PROVE start[k] \in Starts'
      <4>1. k \in 1 .. K' /\ start'[k] = start[k]
        BY <1>1, <1>3
      <4>2. QED BY <4>1 DEF Starts
    <3>2. QED BY <3>1 DEF Starts
  <2>3. QED BY <2>1, <2>2, <1>3
<1>5. TypeOK'
  <2>1. K' \in 1 .. Len(prog'.code) + 1
    BY <1>1, <1>3
  <2>2. DOMAIN label' \subseteq Labels /\ \A l \in DOMAIN label' : label'[l] \in Nat \cup {-1}
    <3>1. CASE label' = label
      BY <3>1 DEF TypeOK
    <3>2. CASE label' = Put(label, Lab(K), -1)
      BY <3>2, <1>1 DEF TypeOK, Put
    <3>3. QED BY <3>1, <3>2, <1>1 DEF Mentioned
  <2>3. DOMAIN objOp' \subseteq Nat
    BY <1>1 DEF TypeOK, Put
  <2>4. DOMAIN objQuad' \subseteq Nat
    <3>1. code_ind + LabelAt(Op(K)) \in Nat
      BY <1>1, Lengths
    <3>2. QED BY <3>1, <1>1 DEF TypeOK, Put
  <2>5. QED BY <1>3, <2>1, <2>2, <2>3, <2>4 DEF TypeOK
<1>6. StartInv'
  <2>1. start'[1] = Header
    BY <1>1, <1>3 DEF StartInv
  <2>2. ASSUME NEW j \in 1 .. K', NEW k \in 1 .. K', j < k
        PROVE  start'[j] < start'[k]
    <3>1. CASE k \in 1 .. K
      BY <3>1, <2>2, <1>1, <1>3 DEF StartInv
    <3>2. CASE k = K + 1
      <4>1. j \in 1 .. K /\ K \in 1 .. K
        BY <3>2, <2>2, <1>1, <1>3
      <4>2. start[j] <= start[K] /\ start[j] \in Nat /\ start[K] \in Nat
        BY <4>1, <1>1, Positions
      <4>3. QED BY <3>2, <4>1, <4>2, <1>2, <1>3
    <3>3. QED BY <3>1, <3>2, <1>1, <1>3
  <2>3. ASSUME NEW k \in Lines'
        PROVE  start'[k + 1] = start'[k] + Length(Op(k))
    <3>1. CASE k \in Lines
      BY <3>1, <1>4 DEF StartInv
    <3>2. CASE k = K
      BY <3>2, <1>1, <1>3
    <3>3. QED BY <3>1, <3>2, <1>4
  <2>4. \A k \in Lines' : start'[k + 1] = start'[k] + Length(Op(k)')
    BY <2>3, <1>1 DEF Op
  <2>5. QED BY <2>1, <2>2, <2>4 DEF StartInv
<1>7. ObjInv'
  <2>1. ASSUME NEW k \in Lines'
        PROVE  start'[k] \in DOMAIN objOp' /\ objOp'[start'[k]] = Op(k)
    <3>1. DOMAIN objOp' = DOMAIN objOp \cup {code_ind} /\ objOp'[code_ind] = Op(K)
          /\ \A y \in DOMAIN objOp : y # code_ind => objOp'[y] = objOp[y]
      BY <1>1 DEF Put
    <3>2. CASE k \in Lines
      <4>1. start[k] # start[K] /\ start'[k] = start[k]
        BY <3>2, <1>1, <1>4, Positions
      <4>2. QED BY <4>1, <3>1, <3>2, <1>1 DEF ObjInv
    <3>3. CASE k = K
      BY <3>3, <3>1, <1>1, <1>3
    <3>4. QED BY <3>2, <3>3, <1>4
  <2>2. QED BY <2>1, <1>1 DEF ObjInv, Op
<1>8. LabelInv'
  <2>1. ASSUME NEW l \in Labels
        PROVE  Read(l)' = Read(l)
    <3>1. K \in prog.place[l] => l \in placed
      BY DEF AtOpcode, ToPlace
    <3>2. \A k \in prog.place[l] : k \in Nat
      BY Programming
    <3>3. placed' = {}
      OBVIOUS
    <3>4. QED BY <3>1, <3>2, <3>3, <1>1, <1>3 DEF Read
  <2>2. \A l \in Labels, t \in 1 .. K : IsTarget(l, t)' <=> IsTarget(l, t)
    BY <2>1 DEF IsTarget
  <2>3. ASSUME NEW l \in Labels
        PROVE  /\ Read(l) # {} => l \in DOMAIN label'
               /\ l \in DOMAIN label' =>
                    \/ label'[l] = -1 /\ Read(l) = {}
                    \/ \E t \in 1 .. K : IsTarget(l, t) /\ label'[l] = start[t]
    <3>1. CASE label' = label
      BY <3>1 DEF LabelInv
    <3>2. CASE label' = Put(label, Lab(K), -1) /\ Lab(K) \notin DOMAIN label
      BY <3>2 DEF LabelInv, Put
    <3>3. QED BY <3>1, <3>2, <1>1 DEF Mentioned
  <2>4. ASSUME NEW l \in Labels
        PROVE  /\ Read(l)' # {} => l \in DOMAIN label'
               /\ l \in DOMAIN label' =>
                    \/ label'[l] = -1 /\ Read(l)' = {}
                    \/ \E t \in 1 .. K' : IsTarget(l, t)' /\ label'[l] = start'[t]
    <3>1. \A t \in 1 .. K : t \in 1 .. K' /\ start'[t] = start[t]
      BY <1>1, <1>3
    <3>2. QED BY <3>1, <2>1, <2>2, <2>3
  <2>5. QED BY <2>4 DEF LabelInv
<1>9. QuadInv'
  <2>1. ASSUME NEW k \in Lines', UsesLabel(Op(k)),
               NEW q, q = start'[k] + LabelAt(Op(k))
        PROVE  /\ Lab(k) \in DOMAIN label'
               /\ q \in DOMAIN objQuad'
               /\ objQuad'[q] = Lab(k)
    <3>1. DOMAIN label \subseteq DOMAIN label'
      BY DEF Mentioned, Put
    <3>2. CASE k \in Lines
      <4>1. /\ Lab(k) \in DOMAIN label
            /\ QuadAt(k) \in DOMAIN objQuad
            /\ objQuad[QuadAt(k)] = Lab(k)
        BY <3>2, <2>1, <1>1 DEF QuadInv, Fixed, AfterFix, AfterLoad, AfterBoot
      <4>2. UsesLabel(Op(K)) => QuadAt(k) # code_ind + LabelAt(Op(K))
        <5>1. QuadAt(k) \in Nat /\ QuadAt(k) < start[k + 1]
          BY <3>2, <2>1, Operand
        <5>2. start[k + 1] <= start[K] /\ start[k + 1] \in Nat /\ start[K] \in Nat
          <6>1. k + 1 \in 1 .. K /\ K \in 1 .. K
            BY <3>2, <1>1, <1>4
          <6>2. start[k + 1] \in Nat /\ start[K] \in Nat
            BY <6>1, Positions
          <6>3. k + 1 = K \/ k + 1 < K
            BY <6>1
          <6>4. QED BY <6>1, <6>2, <6>3, Positions
        <5>3. LabelAt(Op(K)) \in Nat
          BY <1>1, Lengths
        <5>4. QED BY <5>1, <5>2, <5>3, <1>1
      <4>3. QuadAt(k) \in DOMAIN objQuad' /\ objQuad'[QuadAt(k)] = Lab(k)
        BY <4>1, <4>2, <1>1 DEF Put
      <4>4. q = QuadAt(k)
        BY <3>2, <2>1, <1>4 DEF QuadAt
      <4>5. QED BY <4>1, <4>3, <4>4, <3>1
    <3>3. CASE k = K
      <4>0. UsesLabel(Op(K))
        BY <3>3, <2>1
      <4>1. Lab(K) \in DOMAIN label'
        <5>1. CASE Lab(K) \in DOMAIN label
          BY <5>1, <3>1
        <5>2. CASE Lab(K) \notin DOMAIN label
          <6>1. label' = Put(label, Lab(K), -1)
            BY <5>2, <4>0, <1>1 DEF Mentioned
          <6>2. QED BY <6>1 DEF Put
        <5>3. QED BY <5>1, <5>2
      <4>2. objQuad' = Put(objQuad, code_ind + LabelAt(Op(K)), Lab(K))
        BY <4>0, <1>1
      <4>3. q = code_ind + LabelAt(Op(K)) /\ Lab(k) = Lab(K)
        BY <3>3, <2>1, <1>1, <1>3
      <4>4. objQuad' = Put(objQuad, q, Lab(k))
        BY <4>2, <4>3
      <4>5. QED BY <4>1, <4>3, <4>4 DEF Put
    <3>4. QED BY <3>2, <3>3, <1>4
  <2>2. \A k \in Lines' : UsesLabel(Op(k)) =>
           /\ Lab(k) \in DOMAIN label'
           /\ start'[k] + LabelAt(Op(k)) \in DOMAIN objQuad'
           /\ objQuad'[start'[k] + LabelAt(Op(k))] = Lab(k)
    BY <2>1
  <2>3. QED BY <2>2, <1>1 DEF QuadInv, Op, Lab, QuadAt, Fixed, AfterFix, AfterLoad, AfterBoot
<1>10. WalkInv'
  BY <1>1 DEF WalkInv
<1>11. MemInv' /\ JumpInv'
  BY <1>1 DEF MemInv, JumpInv, Loaded, Booted, AfterLoad, AfterBoot
<1>12. RunInv'
  <2>1. ep' \in Starts' /\ reg' \in {0} \cup Starts'
    BY <1>4 DEF RunInv
  <2>2. ReturnsBehindCalls'
    BY <1>1, <1>4 DEF RunInv, ReturnsBehindCalls
  <2>3. QED BY <2>1, <2>2 DEF RunInv
<1>13. QED BY <1>5, <1>6, <1>7, <1>8, <1>9, <1>10, <1>11, <1>12

\* Steps that change nothing but the phase and the position of the walk.
LEMMA PhaseInv ==
    ASSUME IInv, UNCHANGED <<prog, asmVars, objVars, memVars, jumpoffs, runVars>>,
           phase' \in {"fix", "load", "boot", "run", "refused", "spoilt", "done",
                       "fatal", "wild"},
           WalkInv', i' \in Nat,
           \A k \in Lines : Fixed(k)' => Fixed(k),
           \A k \in Lines : phase' = "fix" /\ Fixed(k) => Fixed(k)',
           \A k \in Lines : Loaded(k)' => Loaded(k),
           \A k \in Lines : Booted(k)' => Booted(k),
           phase' = "fix" => phase \in {"asm", "fix"}
    PROVE  IInv'
<1> USE DEF IInv, asmVars, objVars, memVars, runVars
<1>1. /\ prog' = prog /\ start' = start /\ K' = K /\ Lines' = Lines /\ Starts' = Starts
      /\ label' = label /\ objOp' = objOp /\ objQuad' = objQuad /\ placed' = placed
      /\ memOp' = memOp /\ memQuad' = memQuad /\ jumpoffs' = jumpoffs
  BY DEF K, Lines, Starts
<1>2. TypeOK'
  BY <1>1 DEF TypeOK
<1>3. StartInv' /\ ObjInv'
  BY <1>1 DEF StartInv, ObjInv, Op
<1>4. LabelInv'
  BY <1>1 DEF LabelInv, IsTarget, Read
<1>5. QuadInv'
  <2>2. \A k \in Lines : phase' = "fix" /\ ~Fixed(k)' => phase \in {"asm", "fix"} /\ ~Fixed(k)
    OBVIOUS
  <2>3. \A k \in Lines : Op(k)' = Op(k) /\ Lab(k)' = Lab(k) /\ QuadAt(k)' = QuadAt(k)
    BY <1>1 DEF Op, Lab, QuadAt
  <2>4. phase' # "asm"
    OBVIOUS
  <2>5. QED BY <1>1, <2>2, <2>3, <2>4 DEF QuadInv
<1>6. MemInv' /\ JumpInv'
  BY <1>1 DEF MemInv, JumpInv, Op, Lab, QuadAt
<1>7. RunInv'
  BY <1>1 DEF RunInv, ReturnsBehindCalls
<1>8. QED BY <1>2, <1>3, <1>4, <1>5, <1>6, <1>7

LEMMA EndOfSourceInv == IInv /\ EndOfSource => IInv'
<1> SUFFICES ASSUME IInv, EndOfSource PROVE IInv'
  OBVIOUS
<1>1. phase = "asm" /\ phase' = "fix" /\ i' = i /\ i = Header /\ start' = start /\ Starts' = Starts
      /\ Lines' = Lines
  BY DEF EndOfSource, IInv, WalkInv, asmVars, Starts, Lines, K
<1>2. Header \in Starts /\ start[1] = Header /\ 1 \in 1 .. K
  BY Positions DEF IInv, StartInv, Starts
<1>3. WalkInv'
  BY <1>1, <1>2 DEF WalkInv
<1>4. \A k \in Lines : ~(start[k] < Header)
  BY Programming, Positions DEF IInv, Header
<1>5. \A k \in Lines : ~Fixed(k)' /\ ~Fixed(k) /\ ~Loaded(k)' /\ ~Booted(k)'
  BY <1>1, <1>4 DEF Fixed, Loaded, Booted, AfterFix, AfterLoad, AfterBoot
<1>6. QED BY <1>1, <1>3, <1>5, PhaseInv DEF EndOfSource, Header

\* The program is refused, spoilt, or has ended.
LEMMA EndInv ==
    ASSUME IInv, UNCHANGED <<prog, asmVars, objVars, memVars, i, jumpoffs, runVars>>,
           \/ phase' \in {"refused", "spoilt"}
           \/ phase = "run" /\ phase' \in {"done", "fatal", "wild"}
    PROVE  IInv'
<1>1. i' = i /\ i \in Nat /\ start' = start /\ Lines' = Lines
  BY DEF IInv, TypeOK, asmVars, Lines, K
<1>2. WalkInv'
  BY <1>1 DEF WalkInv
<1>3. \A k \in Lines : Loaded(k)' => Loaded(k)
  BY DEF Loaded, AfterLoad, AfterBoot
<1>4. \A k \in Lines : Booted(k)' => Booted(k)
  BY DEF Booted, AfterBoot
<1>5. \A k \in Lines : /\ phase' \in {"refused", "spoilt"} => ~Fixed(k)'
                       /\ phase' \notin {"refused", "spoilt"} => Fixed(k)' /\ Fixed(k)
  BY DEF Fixed, AfterFix, AfterLoad, AfterBoot
<1>6. QED BY <1>1, <1>2, <1>3, <1>4, <1>5, PhaseInv

-----------------------------------------------------------------------------
(***************************************************************************)
(* The walks over the code.                                                *)
(***************************************************************************)
LEMMA AtEnd ==
    ASSUME TypeOK, StartInv
    PROVE  /\ \A k \in Lines : start[k] < code_ind /\ ~(start[k] < Header)
           /\ Header \in Starts /\ Header <= code_ind /\ code_ind \in Nat
           /\ \A p \in Starts : p \in Nat
<1>1. K \in 1 .. K /\ 1 \in 1 .. K /\ code_ind = start[K]
  BY Positions DEF code_ind
<1>2. \A k \in Lines : k \in 1 .. K /\ k < K
  BY Positions DEF Lines
<1>3. \A k \in Lines : start[k] < code_ind /\ ~(start[k] < Header)
  BY <1>1, <1>2, Positions DEF Header
<1>4. Header \in Starts
  BY <1>1 DEF StartInv, Starts
<1>5. QED BY <1>1, <1>3, <1>4, Positions DEF Starts, Header

LEMMA DumpInv == IInv /\ Dump => IInv'
<1> SUFFICES ASSUME IInv, Dump PROVE IInv'
  OBVIOUS
<1>1. /\ phase = "fix" /\ phase' = "load" /\ i' = Header /\ start' = start /\ i >= code_ind
      /\ Starts' = Starts /\ Lines' = Lines /\ code_ind' = code_ind /\ code_ind > Header
      /\ i \in Nat
  BY DEF Dump, IInv, TypeOK, asmVars, Starts, Lines, K, code_ind, code_size
<1>2. WalkInv'
  BY <1>1, AtEnd DEF WalkInv, IInv, Header
<1>3. \A k \in Lines : start[k] \in Nat /\ start[k] < code_ind /\ ~(start[k] < Header)
  BY AtEnd, Positions, Programming DEF IInv
<1>4. \A k \in Lines : Fixed(k) /\ Fixed(k)' /\ ~Loaded(k)' /\ ~Booted(k)'
  BY <1>1, <1>3, AtEnd DEF Fixed, Loaded, Booted, AfterFix, AfterLoad, AfterBoot, IInv
<1>5. QED BY <1>1, <1>2, <1>4, PhaseInv DEF Dump, Header

LEMMA BeginInv == IInv /\ Begin => IInv'
<1> SUFFICES ASSUME IInv, Begin PROVE IInv'
  OBVIOUS
<1>1. /\ phase = "boot" /\ phase' = "run" /\ i' = i /\ start' = start /\ i >= code_ind
      /\ Lines' = Lines /\ i \in Nat
  BY DEF Begin, IInv, TypeOK, asmVars, Lines, K, code_size
<1>2. WalkInv'
  BY <1>1 DEF WalkInv
<1>3. \A k \in Lines : start[k] \in Nat /\ start[k] < code_ind
  BY AtEnd, Positions, Programming DEF IInv
<1>4. \A k \in Lines : Booted(k) /\ Fixed(k) /\ Loaded(k) /\ Fixed(k)'
  BY <1>1, <1>3, AtEnd DEF Fixed, Loaded, Booted, AfterFix, AfterLoad, AfterBoot, IInv
<1>5. QED BY <1>1, <1>2, <1>4, PhaseInv DEF Begin

LEMMA FixInv == IInv /\ Fix => IInv'
<1> SUFFICES ASSUME IInv, Fix PROVE IInv'
  OBVIOUS
<1> USE DEF IInv, asmVars, memVars, runVars
<1>1. PICK a \in Lines :
         /\ i = start[a]
         /\ Op(a) \in Ops
         /\ i + Length(Op(a)) = start[a + 1]
         /\ a + 1 \in 1 .. K
         /\ \A k \in Lines : start[k] < start[a + 1] <=> (start[k] < i \/ k = a)
  <2>1. i \in Starts /\ i < code_ind
    BY DEF Fix, WalkInv
  <2>2. QED BY <2>1, Walk
<1>2. objOp[i] = Op(a)
  BY <1>1 DEF ObjInv
<1>3. /\ phase = "fix" /\ phase' = "fix" /\ i' = start[a + 1]
      /\ UsesLabel(Op(a)) => Defined(FixOperand)
      /\ objQuad' = IF UsesLabel(Op(a))
                    THEN Put(objQuad, i + FixAt(Op(a)), label[FixOperand])
                    ELSE objQuad
      /\ prog' = prog /\ start' = start /\ K' = K /\ Lines' = Lines /\ Starts' = Starts
      /\ placed' = placed /\ label' = label /\ objOp' = objOp
      /\ code_ind' = code_ind
  BY <1>1, <1>2 DEF Fix, K, Lines, Starts, code_ind
<1>4. ASSUME UsesLabel(Op(a))
      PROVE  /\ objQuad' = Put(objQuad, QuadAt(a), label[Lab(a)])
             /\ label[Lab(a)] # -1 /\ Lab(a) \in DOMAIN label
             /\ QuadAt(a) \in DOMAIN objQuad
  <2>1. FixAt(Op(a)) = LabelAt(Op(a)) /\ i + FixAt(Op(a)) = QuadAt(a)
    BY <1>1, <1>4, Tables DEF QuadAt
  <2>2. ~Fixed(a)
    <3>1. start[a] \in Nat
      BY Programming, Positions
    <3>2. QED BY <3>1, <1>1, <1>3 DEF Fixed, AfterFix, AfterLoad, AfterBoot
  <2>3. objQuad[QuadAt(a)] = Lab(a) /\ Lab(a) \in DOMAIN label /\ QuadAt(a) \in DOMAIN objQuad
    BY <2>2, <1>3, <1>4 DEF QuadInv
  <2>4. FixOperand = Lab(a)
    BY <2>1, <2>3, <1>2 DEF FixOperand
  <2>5. QED BY <2>1, <2>3, <2>4, <1>3, <1>4 DEF Defined
<1>5. i' \in Nat /\ i' \in Starts'
  BY <1>1, <1>3, Positions DEF Starts
<1>6. DOMAIN objQuad' = DOMAIN objQuad
  BY <1>3, <1>4 DEF Put
<1>7. TypeOK'
  BY <1>3, <1>5, <1>6 DEF TypeOK, Fix
<1>8. StartInv' /\ ObjInv'
  BY <1>3 DEF StartInv, ObjInv, Op, Fix
<1>9. LabelInv'
  BY <1>3 DEF LabelInv, IsTarget, Read, Fix
<1>10. QuadInv'
  <2>1. \A k \in Lines : Fixed(k)' <=> Fixed(k) \/ k = a
    BY <1>1, <1>3 DEF Fixed, AfterFix, AfterLoad, AfterBoot
  <2>2. ASSUME NEW k \in Lines, UsesLabel(Op(k))
        PROVE  /\ Lab(k) \in DOMAIN label
               /\ QuadAt(k) \in DOMAIN objQuad'
               /\ ~Fixed(k)' => objQuad'[QuadAt(k)] = Lab(k)
               /\ Fixed(k)' => /\ objQuad'[QuadAt(k)] = label[Lab(k)]
                               /\ label[Lab(k)] # -1
    <3>1. CASE k = a
      BY <3>1, <2>1, <2>2, <1>4, <1>6 DEF Put
    <3>2. CASE k # a
      <4>1. UsesLabel(Op(a)) => QuadAt(k) # QuadAt(a)
        BY <3>2, <2>2, Operand
      <4>2. QuadAt(k) \in DOMAIN objQuad
        BY <2>2 DEF QuadInv
      <4>3. objQuad'[QuadAt(k)] = objQuad[QuadAt(k)]
        BY <4>1, <4>2, <1>3, <1>4 DEF Put
      <4>4. QED BY <4>2, <4>3, <3>2, <2>1, <2>2, <1>3, <1>6 DEF QuadInv
    <3>3. QED BY <3>1, <3>2
  <2>3. \A k \in Lines : Op(k)' = Op(k) /\ Lab(k)' = Lab(k) /\ QuadAt(k)' = QuadAt(k)
    BY <1>3 DEF Op, Lab, QuadAt
  <2>4. QED BY <2>2, <2>3, <1>3 DEF QuadInv
<1>11. WalkInv'
  BY <1>3, <1>5 DEF WalkInv
<1>12. MemInv' /\ JumpInv'
  BY <1>3 DEF MemInv, JumpInv, Loaded, Booted, AfterLoad, AfterBoot
<1>13. RunInv'
  BY <1>3 DEF RunInv, ReturnsBehindCalls, Fix
<1>14. QED BY <1>7, <1>8, <1>9, <1>10, <1>11, <1>12, <1>13

LEMMA LoadInv == IInv /\ Load => IInv'
<1> SUFFICES ASSUME IInv, Load PROVE IInv'
  OBVIOUS
<1> USE DEF IInv, asmVars, objVars, runVars
<1>1. PICK a \in Lines :
         /\ i = start[a]
         /\ Op(a) \in Ops
         /\ i + Length(Op(a)) = start[a + 1]
         /\ a + 1 \in 1 .. K
         /\ \A k \in Lines : start[k] < start[a + 1] <=> (start[k] < i \/ k = a)
  <2>1. i \in Starts /\ i < code_ind
    BY DEF Load, WalkInv
  <2>2. QED BY <2>1, Walk
<1>2. objOp[i] = Op(a)
  BY <1>1 DEF ObjInv
<1>3. /\ phase = "load"
      /\ memOp' = Put(memOp, i, Op(a))
      /\ memQuad' = IF UsesLabel(Op(a))
                    THEN Put(memQuad, i + LabelAt(Op(a)), objQuad[i + LabelAt(Op(a))])
                    ELSE memQuad
      /\ \/ /\ start[a + 1] > code_ind - 1 /\ i' = Header /\ phase' = "boot"
         \/ /\ ~(start[a + 1] > code_ind - 1) /\ i' = start[a + 1] /\ phase' = "load"
      /\ prog' = prog /\ start' = start /\ K' = K /\ Lines' = Lines /\ Starts' = Starts
      /\ placed' = placed /\ label' = label /\ objOp' = objOp /\ objQuad' = objQuad
      /\ code_ind' = code_ind /\ jumpoffs' = jumpoffs
  BY <1>1, <1>2 DEF Load, K, Lines, Starts, code_ind, code_size
<1>4. /\ code_ind \in Nat /\ start[a + 1] \in Nat /\ start[a + 1] \in Starts /\ start[a] \in Nat
      /\ Header \in Starts /\ i \in Nat
      /\ \A k \in Lines : start[k] \in Nat /\ start[k] < code_ind /\ ~(start[k] < Header)
  BY <1>1, AtEnd, Positions, Programming DEF Starts
<1>5. \A k \in Lines : Loaded(k)' => Loaded(k) \/ k = a
  <2>1. CASE phase' = "load"
    BY <2>1, <1>1, <1>3 DEF Loaded, AfterLoad, AfterBoot
  <2>2. CASE phase' = "boot"
    <3>1. \A k \in Lines : start[k] < start[a + 1]
      BY <2>2, <1>3, <1>4
    <3>2. QED BY <3>1, <1>1, <1>3 DEF Loaded
  <2>3. QED BY <2>1, <2>2, <1>3
<1>6. ASSUME UsesLabel(Op(a))
      PROVE  /\ memQuad' = Put(memQuad, QuadAt(a), label[Lab(a)])
             /\ QuadAt(a) \in Nat
  <2>1. i + LabelAt(Op(a)) = QuadAt(a)
    BY <1>1 DEF QuadAt
  <2>2. Fixed(a)
    BY <1>3 DEF Fixed, AfterFix
  <2>3. objQuad[QuadAt(a)] = label[Lab(a)]
    BY <2>2, <1>6 DEF QuadInv
  <2>4. QED BY <2>1, <2>3, <1>3, <1>6, Operand
<1>7. TypeOK'
  <2>1. DOMAIN memOp' \subseteq Nat
    BY <1>3, <1>4 DEF TypeOK, Put
  <2>2. DOMAIN memQuad' \subseteq Nat
    <3>1. CASE UsesLabel(Op(a))
      <4>1. DOMAIN memQuad' = DOMAIN memQuad \cup {QuadAt(a)} /\ QuadAt(a) \in Nat
        BY <3>1, <1>6 DEF Put
      <4>2. QED BY <4>1 DEF TypeOK
    <3>2. CASE ~UsesLabel(Op(a))
      BY <3>2, <1>3 DEF TypeOK
    <3>3. QED BY <3>1, <3>2
  <2>3. i' \in Nat /\ phase' \in {"load", "boot"}
    BY <1>3, <1>4 DEF Header
  <2>4. QED BY <2>1, <2>2, <2>3, <1>3 DEF TypeOK, Load
<1>8. StartInv' /\ ObjInv'
  BY <1>3 DEF StartInv, ObjInv, Op
<1>9. LabelInv'
  BY <1>3 DEF LabelInv, IsTarget, Read
<1>10. QuadInv'
  BY <1>3 DEF QuadInv, Op, Lab, QuadAt, Fixed, AfterFix, AfterLoad, AfterBoot
<1>11. WalkInv'
  BY <1>3, <1>4 DEF WalkInv
<1>12. MemInv'
  <2>1. ASSUME NEW k \in Lines, Loaded(k)'
        PROVE  /\ start[k] \in DOMAIN memOp' /\ memOp'[start[k]] = Op(k)
               /\ UsesLabel(Op(k)) => /\ QuadAt(k) \in DOMAIN memQuad'
                                      /\ memQuad'[QuadAt(k)] = label[Lab(k)]
    <3>1. CASE k = a
      BY <3>1, <1>1, <1>3, <1>6 DEF Put
    <3>2. CASE k # a
      <4>1. start[k] # start[a]
        BY <3>2, Positions, Programming
      <4>2. UsesLabel(Op(a)) /\ UsesLabel(Op(k)) => QuadAt(k) # QuadAt(a)
        BY <3>2, Operand
      <4>3. Loaded(k)
        BY <3>2, <2>1, <1>5
      <4>4. /\ start[k] \in DOMAIN memOp /\ memOp[start[k]] = Op(k)
            /\ UsesLabel(Op(k)) => /\ QuadAt(k) \in DOMAIN memQuad
                                   /\ memQuad[QuadAt(k)] = label[Lab(k)]
        BY <4>3 DEF MemInv
      <4>5. start[k] \in DOMAIN memOp' /\ memOp'[start[k]] = Op(k)
        BY <4>1, <4>4, <1>1, <1>3 DEF Put
      <4>6. UsesLabel(Op(k)) => /\ QuadAt(k) \in DOMAIN memQuad'
                               /\ memQuad'[QuadAt(k)] = label[Lab(k)]
        BY <4>2, <4>4, <1>3, <1>6 DEF Put
      <4>7. QED BY <4>5, <4>6
    <3>3. QED BY <3>1, <3>2
  <2>2. \A k \in Lines : Op(k)' = Op(k) /\ Lab(k)' = Lab(k) /\ QuadAt(k)' = QuadAt(k)
    BY <1>3 DEF Op, Lab, QuadAt
  <2>3. QED BY <2>1, <2>2, <1>3 DEF MemInv
<1>13. JumpInv'
  <2>1. \A k \in Lines : ~Booted(k)'
    BY <1>3, <1>4 DEF Booted, AfterBoot
  <2>2. QED BY <2>1, <1>3 DEF JumpInv
<1>14. RunInv'
  BY <1>3 DEF RunInv, ReturnsBehindCalls, Load
<1>15. QED BY <1>7, <1>8, <1>9, <1>10, <1>11, <1>12, <1>13, <1>14

LEMMA BootInv == IInv /\ Boot => IInv'
<1> SUFFICES ASSUME IInv, Boot PROVE IInv'
  OBVIOUS
<1> USE DEF IInv, asmVars, objVars, memVars, runVars
<1>1. PICK a \in Lines :
         /\ i = start[a]
         /\ Op(a) \in Ops
         /\ i + Length(Op(a)) = start[a + 1]
         /\ a + 1 \in 1 .. K
         /\ \A k \in Lines : start[k] < start[a + 1] <=> (start[k] < i \/ k = a)
  <2>1. i \in Starts /\ i < code_ind
    BY DEF Boot, WalkInv, code_size
  <2>2. QED BY <2>1, Walk
<1>2. memOp[i] = Op(a)
  <2>1. Loaded(a)
    BY DEF Boot, Loaded, AfterLoad
  <2>2. QED BY <2>1, <1>1 DEF MemInv
<1>3. /\ phase = "boot" /\ phase' = "boot" /\ i' = start[a + 1]
      /\ jumpoffs' = IF Op(a) \in Jumps
                     THEN Put(jumpoffs, i, memQuad[i + WalkAt(Op(a))])
                     ELSE jumpoffs
      /\ prog' = prog /\ start' = start /\ K' = K /\ Lines' = Lines /\ Starts' = Starts
      /\ placed' = placed /\ label' = label /\ objOp' = objOp /\ objQuad' = objQuad
      /\ memOp' = memOp /\ memQuad' = memQuad /\ code_ind' = code_ind
  BY <1>1, <1>2, Tables DEF Boot, K, Lines, Starts, code_ind
<1>4. ASSUME Op(a) \in Jumps
      PROVE  jumpoffs' = Put(jumpoffs, start[a], label[Lab(a)])
  <2>1. i + WalkAt(Op(a)) = QuadAt(a) /\ UsesLabel(Op(a))
    BY <1>1, <1>4, Tables DEF QuadAt, UsesLabel
  <2>2. Loaded(a)
    BY DEF Boot, Loaded, AfterLoad
  <2>3. memQuad[QuadAt(a)] = label[Lab(a)]
    BY <2>1, <2>2 DEF MemInv
  <2>4. QED BY <2>1, <2>3, <1>1, <1>3, <1>4
<1>5. i' \in Nat /\ i' \in Starts' /\ start[a] \in Nat
  BY <1>1, <1>3, Positions, Programming DEF Starts
<1>6. TypeOK'
  <2>1. DOMAIN jumpoffs' \subseteq Nat
    BY <1>3, <1>4, <1>5 DEF TypeOK, Put
  <2>2. QED BY <2>1, <1>3, <1>5 DEF TypeOK, Boot
<1>7. StartInv' /\ ObjInv'
  BY <1>3 DEF StartInv, ObjInv, Op
<1>8. LabelInv'
  BY <1>3 DEF LabelInv, IsTarget, Read
<1>9. QuadInv'
  BY <1>3 DEF QuadInv, Op, Lab, QuadAt, Fixed, AfterFix, AfterLoad, AfterBoot
<1>10. WalkInv'
  BY <1>3, <1>5 DEF WalkInv
<1>11. MemInv'
  BY <1>3 DEF MemInv, Op, Lab, QuadAt, Loaded, AfterLoad
<1>12. JumpInv'
  <2>1. \A k \in Lines : Booted(k)' => Booted(k) \/ k = a
    BY <1>1, <1>3 DEF Booted, AfterBoot
  <2>2. ASSUME NEW k \in Lines, Booted(k)', Op(k) \in Jumps
        PROVE  start[k] \in DOMAIN jumpoffs' /\ jumpoffs'[start[k]] = label[Lab(k)]
    <3>1. CASE k = a
      BY <3>1, <2>2, <1>4 DEF Put
    <3>2. CASE k # a
      <4>1. start[k] # start[a]
        BY <3>2, Positions, Programming
      <4>2. start[k] \in DOMAIN jumpoffs /\ jumpoffs[start[k]] = label[Lab(k)]
        BY <3>2, <2>1, <2>2 DEF JumpInv
      <4>3. QED BY <4>1, <4>2, <1>3, <1>4 DEF Put
    <3>3. QED BY <3>1, <3>2
  <2>3. \A k \in Lines : Op(k)' = Op(k) /\ Lab(k)' = Lab(k)
    BY <1>3 DEF Op, Lab
  <2>4. QED BY <2>2, <2>3, <1>3 DEF JumpInv
<1>13. RunInv'
  BY <1>3 DEF RunInv, ReturnsBehindCalls, Boot
<1>14. QED BY <1>6, <1>7, <1>8, <1>9, <1>10, <1>11, <1>12, <1>13

-----------------------------------------------------------------------------
(***************************************************************************)
(* Execution.                                                              *)
(***************************************************************************)
\* A running program that is not at its end is on an instruction.
LEMMA Running1 ==
    ASSUME IInv, phase = "run", ep < code_size
    PROVE  \E a \in Lines :
              /\ ep = start[a] /\ memOp[ep] = Op(a) /\ Op(a) \in Ops
              /\ ep + Length(Op(a)) = start[a + 1] /\ start[a + 1] \in Starts
              /\ start[a + 1] \in Nat
<1>1. PICK a \in Lines : /\ ep = start[a] /\ Op(a) \in Ops
                        /\ ep + Length(Op(a)) = start[a + 1] /\ a + 1 \in 1 .. K
  <2>1. ep \in Starts /\ ep < code_ind
    BY DEF IInv, RunInv, code_size
  <2>2. QED BY <2>1, Walk DEF IInv
<1>2. memOp[start[a]] = Op(a)
  BY DEF IInv, MemInv, Loaded, AfterLoad, AfterBoot
<1>3. start[a + 1] \in Starts /\ start[a + 1] \in Nat
  BY <1>1, Positions DEF Starts, IInv
<1>4. QED BY <1>1, <1>2, <1>3

\* Behind the walks, an operand is the position of the last definition.
LEMMA Resolved ==
    ASSUME IInv, phase = "run", NEW a \in Lines, UsesLabel(Op(a))
    PROVE  /\ \E t \in 1 .. K : IsTarget(Lab(a), t) /\ label[Lab(a)] = start[t]
           /\ label[Lab(a)] \in Starts
           /\ memQuad[QuadAt(a)] = label[Lab(a)]
           /\ Op(a) \in Jumps => start[a] \in DOMAIN jumpoffs /\ jumpoffs[start[a]] = label[Lab(a)]
<1>1. Fixed(a) /\ Loaded(a) /\ Booted(a)
  BY DEF Fixed, Loaded, Booted, AfterFix, AfterLoad, AfterBoot
<1>2. Lab(a) \in DOMAIN label /\ label[Lab(a)] # -1
  BY <1>1 DEF IInv, QuadInv
<1>3. Lab(a) \in Labels
  BY Programming DEF IInv
<1>4. \E t \in 1 .. K : IsTarget(Lab(a), t) /\ label[Lab(a)] = start[t]
  BY <1>2, <1>3 DEF IInv, LabelInv
<1>5. label[Lab(a)] \in Starts
  BY <1>4 DEF Starts
<1>6. memQuad[QuadAt(a)] = label[Lab(a)]
  BY <1>1 DEF IInv, MemInv
<1>7. Op(a) \in Jumps => start[a] \in DOMAIN jumpoffs /\ jumpoffs[start[a]] = label[Lab(a)]
  BY <1>1 DEF IInv, JumpInv
<1>8. QED BY <1>4, <1>5, <1>6, <1>7

LEMMA MoveInv ==
    ASSUME IInv, phase = "run", NEW e \in Starts, GoOn(e),
           reg' \in {0} \cup Starts,
           jumpstack' \in [0 .. MaxSubJumps - 1 -> Nat],
           jumpstack_ind' \in -1 .. MaxSubJumps - 1,
           \A n \in 0 .. jumpstack_ind' :
              \E k \in Lines : Op(k) \in {"jsr", "jsra"} /\ jumpstack'[n] = start[k + 1]
    PROVE  IInv'
<1> USE DEF IInv, GoOn, asmVars, objVars, memVars
<1>1. /\ phase' = phase /\ prog' = prog /\ start' = start /\ K' = K /\ Lines' = Lines
      /\ Starts' = Starts /\ placed' = placed /\ label' = label /\ objOp' = objOp
      /\ objQuad' = objQuad /\ memOp' = memOp /\ memQuad' = memQuad /\ i' = i
      /\ jumpoffs' = jumpoffs /\ ep' = e
  BY DEF K, Lines, Starts
<1>2. e \in Nat /\ reg' \in Nat
  BY AtEnd
<1>3. TypeOK'
  BY <1>1, <1>2 DEF TypeOK
<1>4. StartInv' /\ ObjInv'
  BY <1>1 DEF StartInv, ObjInv, Op
<1>5. LabelInv'
  BY <1>1 DEF LabelInv, IsTarget, Read
<1>6. QuadInv'
  BY <1>1 DEF QuadInv, Op, Lab, QuadAt, Fixed
<1>7. WalkInv'
  BY <1>1 DEF WalkInv
<1>8. MemInv' /\ JumpInv'
  BY <1>1 DEF MemInv, JumpInv, Op, Lab, QuadAt, Loaded, Booted
<1>9. RunInv'
  BY <1>1 DEF RunInv, ReturnsBehindCalls, Op
<1>10. QED BY <1>3, <1>4, <1>5, <1>6, <1>7, <1>8, <1>9

LEMMA StackKept ==
    ASSUME IInv
    PROVE  /\ reg \in {0} \cup Starts
           /\ jumpstack \in [0 .. MaxSubJumps - 1 -> Nat]
           /\ jumpstack_ind \in -1 .. MaxSubJumps - 1
           /\ \A n \in 0 .. jumpstack_ind :
                 \E k \in Lines : Op(k) \in {"jsr", "jsra"} /\ jumpstack[n] = start[k + 1]
BY DEF IInv, TypeOK, RunInv, ReturnsBehindCalls, Op

LEMMA PlainInv == IInv /\ Plain => IInv'
<1> SUFFICES ASSUME IInv, Plain PROVE IInv'
  OBVIOUS
<1>1. phase = "run" /\ ep < code_size /\ memOp[ep] \in {"alu", "stack", "mov", "load", "intr"}
  BY DEF Plain, At
<1>2. Next1 \in Starts
  BY <1>1, Running1, Tables DEF Next1
<1>3. GoOn(Next1) /\ reg' = reg /\ jumpstack' = jumpstack /\ jumpstack_ind' = jumpstack_ind
  BY DEF Plain
<1>4. QED BY <1>1, <1>2, <1>3, StackKept, MoveInv

LEMMA LoadlInv == IInv /\ Loadl => IInv'
<1> SUFFICES ASSUME IInv, Loadl PROVE IInv'
  OBVIOUS
<1>1. phase = "run" /\ ep < code_size /\ memOp[ep] = "loadl"
  BY DEF Loadl, At
<1>2. PICK a \in Lines : /\ ep = start[a] /\ Op(a) = "loadl" /\ start[a + 1] \in Starts
                        /\ ep + Length(Op(a)) = start[a + 1]
  BY <1>1, Running1
<1>3. Next1 \in Starts
  BY <1>1, <1>2, Tables DEF Next1, Ops
<1>4. memQuad[ep + 1] \in Starts
  <2>1. QuadAt(a) = ep + 1
    BY <1>2, Tables DEF QuadAt, Ops
  <2>2. UsesLabel(Op(a))
    BY <1>2 DEF UsesLabel
  <2>3. QED BY <1>1, <2>1, <2>2, Resolved
<1>5. GoOn(Next1) /\ reg' = memQuad[ep + 1] /\ jumpstack' = jumpstack /\ jumpstack_ind' = jumpstack_ind
  BY DEF Loadl
<1>6. QED BY <1>1, <1>3, <1>4, <1>5, StackKept, MoveInv

LEMMA JumpStepInv == IInv /\ Jump => IInv'
<1> SUFFICES ASSUME IInv, Jump PROVE IInv'
  OBVIOUS
<1>1. phase = "run" /\ ep < code_size /\ memOp[ep] \in {"jmp", "jmpi", "loop"}
  BY DEF Jump, At
<1>2. PICK a \in Lines : /\ ep = start[a] /\ memOp[ep] = Op(a) /\ start[a + 1] \in Starts
                        /\ ep + Length(Op(a)) = start[a + 1] /\ Op(a) \in Ops
  BY <1>1, Running1
<1>3. jumpoffs[ep] \in Starts
  BY <1>1, <1>2, Resolved DEF UsesLabel, Jumps
<1>4. reg' = reg /\ jumpstack' = jumpstack /\ jumpstack_ind' = jumpstack_ind
  BY DEF Jump
<1>5. CASE GoOn(jumpoffs[ep])
  BY <1>1, <1>3, <1>4, <1>5, StackKept, MoveInv
<1>6. CASE At({"jmpi", "loop"}) /\ GoOn(Next1)
  <2>1. Next1 \in Starts
    BY <1>2, <1>6, Tables DEF Next1, At
  <2>2. QED BY <1>1, <2>1, <1>4, <1>6, StackKept, MoveInv
<1>7. QED BY <1>5, <1>6 DEF Jump

\* A register the jumps accept points to an instruction.
LEMMA LegalTarget ==
    ASSUME IInv, Legal(reg)
    PROVE  reg \in Starts
BY DEF IInv, RunInv, Legal, Header

LEMMA JumpRegisterInv == IInv /\ JumpRegister => IInv'
<1> SUFFICES ASSUME IInv, JumpRegister PROVE IInv'
  OBVIOUS
<1>1. /\ phase = "run" /\ GoOn(reg) /\ reg \in Starts
      /\ reg' = reg /\ jumpstack' = jumpstack /\ jumpstack_ind' = jumpstack_ind
  BY LegalTarget DEF JumpRegister, At
<1>2. QED BY <1>1, StackKept, MoveInv

LEMMA CallInv ==
    ASSUME IInv, phase = "run", ep < code_size, memOp[ep] \in {"jsr", "jsra"},
           NEW target \in Starts, Call(target)
    PROVE  IInv'
<1>1. PICK a \in Lines : /\ ep = start[a] /\ memOp[ep] = Op(a) /\ start[a + 1] \in Nat
                        /\ ep + Length(Op(a)) = start[a + 1] /\ Op(a) \in Ops
  BY Running1
<1>2. BehindCall = start[a + 1]
  BY <1>1, Tables DEF BehindCall
<1>3. /\ GoOn(target) /\ reg' = reg
      /\ jumpstack_ind' = jumpstack_ind + 1
      /\ jumpstack' = Put(jumpstack, jumpstack_ind + 1, start[a + 1])
      /\ jumpstack_ind # MaxSubJumps - 1
  BY <1>2 DEF Call, Full
<1>4. MaxSubJumps \in Nat /\ jumpstack_ind + 1 \in 0 .. MaxSubJumps - 1
  BY <1>3, StackKept, ObjectAssumption
<1>5. jumpstack' \in [0 .. MaxSubJumps - 1 -> Nat]
  BY <1>1, <1>3, <1>4, StackKept DEF Put
<1>6. ASSUME NEW n \in 0 .. jumpstack_ind'
      PROVE  \E k \in Lines : Op(k) \in {"jsr", "jsra"} /\ jumpstack'[n] = start[k + 1]
  <2>1. n \in 0 .. MaxSubJumps - 1
    BY <1>3, <1>4
  <2>2. CASE n = jumpstack_ind + 1
    <3>1. jumpstack'[n] = start[a + 1]
      BY <2>1, <2>2, <1>3, StackKept DEF Put
    <3>2. QED BY <3>1, <1>1
  <2>3. CASE n # jumpstack_ind + 1
    <3>1. n \in 0 .. jumpstack_ind
      BY <2>3, <1>3, <1>4, StackKept
    <3>2. jumpstack'[n] = jumpstack[n]
      BY <2>1, <2>3, <1>3, StackKept DEF Put
    <3>3. QED BY <3>1, <3>2, StackKept
  <2>4. QED BY <2>2, <2>3
<1>7. reg' \in {0} \cup Starts /\ jumpstack_ind' \in -1 .. MaxSubJumps - 1
  BY <1>3, <1>4, StackKept
<1>8. QED BY <1>3, <1>5, <1>6, <1>7, MoveInv

LEMMA JsrInv == IInv /\ Jsr => IInv'
<1> SUFFICES ASSUME IInv, Jsr PROVE IInv'
  OBVIOUS
<1>1. phase = "run" /\ ep < code_size /\ memOp[ep] = "jsr" /\ Call(jumpoffs[ep])
  BY DEF Jsr, At
<1>2. PICK a \in Lines : ep = start[a] /\ memOp[ep] = Op(a)
  BY <1>1, Running1
<1>3. jumpoffs[ep] \in Starts
  BY <1>1, <1>2, Resolved DEF UsesLabel, Jumps
<1>4. QED BY <1>1, <1>3, CallInv

LEMMA JsraInv == IInv /\ Jsra => IInv'
<1> SUFFICES ASSUME IInv, Jsra PROVE IInv'
  OBVIOUS
<1>1. phase = "run" /\ ep < code_size /\ memOp[ep] = "jsra" /\ Call(reg) /\ reg \in Starts
  BY LegalTarget DEF Jsra, At
<1>2. QED BY <1>1, CallInv

LEMMA RtsInv == IInv /\ Rts => IInv'
<1> SUFFICES ASSUME IInv, Rts PROVE IInv'
  OBVIOUS
<1>1. /\ phase = "run" /\ jumpstack_ind # -1 /\ jumpstack_ind' = jumpstack_ind - 1
      /\ reg' = reg /\ jumpstack' = jumpstack /\ GoOn(jumpstack[jumpstack_ind])
  BY DEF Rts, At
<1>2. /\ jumpstack_ind \in 0 .. jumpstack_ind /\ jumpstack_ind' \in -1 .. MaxSubJumps - 1
      /\ 0 .. jumpstack_ind' \subseteq 0 .. jumpstack_ind
  BY <1>1, StackKept, ObjectAssumption
<1>3. jumpstack[jumpstack_ind] \in Starts
  <2>1. PICK k \in Lines : jumpstack[jumpstack_ind] = start[k + 1]
    BY <1>2, StackKept
  <2>2. k + 1 \in 1 .. K
    BY Programming DEF IInv
  <2>3. QED BY <2>1, <2>2 DEF Starts
<1>4. QED BY <1>1, <1>2, <1>3, StackKept, MoveInv

THEOREM InductiveInv == IInv /\ [Next]_vars => IInv'
<1> SUFFICES ASSUME IInv, [Next]_vars PROVE IInv'
  OBVIOUS
<1>1. CASE \E l \in Labels : DefineLabel(l)
  BY <1>1, DefineLabelInv
<1>2. CASE Emit
  BY <1>2, EmitInv
<1>3. CASE EmitPartly
  BY <1>3, EndInv DEF EmitPartly
<1>4. CASE LabelListFull \/ LabelNotDefined \/ NotLoaded
  BY <1>4, EndInv DEF LabelListFull, LabelNotDefined, NotLoaded, Refused
<1>5. CASE EndOfSource
  BY <1>5, EndOfSourceInv
<1>6. CASE Fix \/ Dump \/ Load \/ Boot \/ Begin
  BY <1>6, FixInv, DumpInv, LoadInv, BootInv, BeginInv
<1>7. CASE Plain \/ Loadl \/ Jump \/ JumpRegister \/ Jsr \/ Jsra \/ Rts
  BY <1>7, PlainInv, LoadlInv, JumpStepInv, JumpRegisterInv, JsrInv, JsraInv, RtsInv
<1>8. CASE Exit \/ Error \/ FetchPastEnd
  BY <1>8, EndInv DEF Exit, Error, FetchPastEnd, Ends, At
<1>9. CASE UNCHANGED vars
  <2>1. phase' = phase /\ i' = i /\ start' = start /\ K' = K /\ Lines' = Lines /\ Starts' = Starts
    BY <1>9 DEF vars, asmVars, K, Lines, Starts
  <2>2. UNCHANGED <<prog, placed, label, objOp, objQuad, memOp, memQuad, jumpoffs, ep, reg,
                    jumpstack, jumpstack_ind>>
    BY <1>9 DEF vars, asmVars, objVars, memVars, runVars
  <2>3. TypeOK'
    BY <2>1, <2>2 DEF IInv, TypeOK
  <2>4. StartInv' /\ ObjInv' /\ WalkInv'
    BY <2>1, <2>2 DEF IInv, StartInv, ObjInv, Op, WalkInv, code_ind
  <2>5. LabelInv'
    BY <2>1, <2>2 DEF IInv, LabelInv, IsTarget, Read
  <2>6. QuadInv'
    BY <2>1, <2>2 DEF IInv, QuadInv, Op, Lab, QuadAt, Fixed
  <2>7. MemInv' /\ JumpInv'
    BY <2>1, <2>2 DEF IInv, MemInv, JumpInv, Op, Lab, QuadAt, Loaded, Booted
  <2>8. RunInv'
    BY <2>1, <2>2 DEF IInv, RunInv, ReturnsBehindCalls, Op
  <2>9. QED BY <2>3, <2>4, <2>5, <2>6, <2>7, <2>8 DEF IInv
<1>10. QED BY <1>1, <1>2, <1>3, <1>4, <1>5, <1>6, <1>7, <1>8, <1>9 DEF Next, Assemble, Execute

THEOREM Invariance == Spec => []IInv
<1>1. QED BY InitInv, InductiveInv, PTL DEF Spec

\* The variables keep their types: positions are natural numbers, the jump
\* stack's index stays in the jump stack.
THEOREM Typing == Spec => []TypeOK
<1>1. IInv => TypeOK
  BY DEF IInv
<1>2. QED BY <1>1, Invariance, PTL

\* No walk over the code, and no jump, ever stops inside an instruction.
THEOREM AlwaysOnInstruction == Spec => []OnInstruction
<1>1. IInv => OnInstruction
  BY DEF IInv, WalkInv, RunInv, OnInstruction
<1>2. QED BY <1>1, Invariance, PTL

\* A running program has the position of the last definition of its label as
\* the offset of every jump.
THEOREM AllJumpsResolved == Spec => []JumpsResolved
<1>1. ASSUME IInv PROVE JumpsResolved
  <2>1. ASSUME phase = "run", NEW k \in Lines, Op(k) \in Jumps
        PROVE  \E t \in 1 .. K : /\ IsTarget(Lab(k), t)
                                 /\ start[k] \in DOMAIN jumpoffs
                                 /\ jumpoffs[start[k]] = start[t]
    <3>1. UsesLabel(Op(k))
      BY <2>1 DEF UsesLabel
    <3>2. QED BY <3>1, <2>1, <1>1, Resolved
  <2>2. QED BY <2>1 DEF JumpsResolved, Op, Lab
<1>2. QED BY <1>1, Invariance, PTL

\* rts goes to the instruction behind a call, never into one.
THEOREM AllReturnsBehindCalls == Spec => []ReturnsBehindCalls
<1>1. IInv => ReturnsBehindCalls
  BY DEF IInv, RunInv
<1>2. QED BY <1>1, Invariance, PTL

-----------------------------------------------------------------------------
(***************************************************************************)
(* The object implements the source.                                       *)
(***************************************************************************)
NotRun == {"asm", "fix", "load", "boot"}

\* What the refinement needs besides: nothing is placed behind the point where
\* the assembler stopped reading, and a program starts from the beginning.
SourceInv ==
    /\ phase \in NotRun => reg = 0 /\ jumpstack_ind = -1 /\ ep = Header
    /\ placed # {} => code_ind < CodeMax - 1
    /\ phase \in {"fix"} \cup AfterFix =>
          \/ placed = {}
          \/ /\ K > Len(prog.code)
             /\ \A l \in Labels : K \in prog.place[l] => l \in placed
    /\ phase \in AfterFix => K > 1

LEMMA SourceInvStep == IInv /\ SourceInv /\ [Next]_vars => SourceInv'
<1> SUFFICES ASSUME IInv, SourceInv, [Next]_vars PROVE SourceInv'
  OBVIOUS
<1> USE DEF SourceInv, NotRun
<1>1. ASSUME NEW l \in Labels, DefineLabel(l) PROVE SourceInv'
  <2>1. phase = "asm" /\ phase' = "asm" /\ code_ind' = code_ind /\ code_ind < CodeMax - 1
        /\ reg' = reg /\ jumpstack_ind' = jumpstack_ind /\ ep' = ep
    BY <1>1 DEF DefineLabel, Reads, code_ind, K, runVars
  <2>2. QED BY <2>1 DEF AfterFix, AfterLoad, AfterBoot
<1>2. CASE Emit
  <2>1. phase = "asm" /\ phase' = "asm" /\ placed' = {}
        /\ reg' = reg /\ jumpstack_ind' = jumpstack_ind /\ ep' = ep
    BY <1>2 DEF Emit, Reads, runVars
  <2>2. QED BY <2>1 DEF AfterFix, AfterLoad, AfterBoot
<1>3. CASE EndOfSource
  <2>1. phase = "asm" /\ phase' = "fix" /\ (Reads => ToPlace = {} /\ K > Len(prog.code))
        /\ prog' = prog /\ placed' = placed /\ K' = K /\ code_ind' = code_ind
        /\ reg' = reg /\ jumpstack_ind' = jumpstack_ind /\ ep' = ep
    BY <1>3 DEF EndOfSource, asmVars, runVars, K, code_ind
  <2>2. CASE Reads
    BY <2>1, <2>2 DEF ToPlace, AfterFix, AfterLoad, AfterBoot
  <2>3. CASE ~Reads
    BY <2>1, <2>3 DEF Reads, AfterFix, AfterLoad, AfterBoot
  <2>4. QED BY <2>2, <2>3
<1>4. CASE Dump
  <2>1. phase = "fix" /\ phase' = "load" /\ code_ind > Header
        /\ prog' = prog /\ placed' = placed /\ K' = K /\ code_ind' = code_ind
        /\ reg' = reg /\ jumpstack_ind' = jumpstack_ind /\ ep' = ep
    BY <1>4 DEF Dump, asmVars, runVars, K, code_ind, code_size
  <2>2. K > 1
    <3>1. K # 1
      BY <2>1 DEF IInv, StartInv, code_ind, Header
    <3>2. QED BY <3>1, Positions DEF IInv
  <2>3. QED BY <2>1, <2>2
<1>5. CASE Fix \/ Load \/ Boot \/ Begin
  <2>1. /\ prog' = prog /\ placed' = placed /\ K' = K /\ code_ind' = code_ind
        /\ reg' = reg /\ jumpstack_ind' = jumpstack_ind /\ ep' = ep
        /\ phase \in NotRun /\ (phase = "fix" => phase' = "fix") /\ phase # "asm" /\ phase' # "asm"
    BY <1>5 DEF Fix, Load, Boot, Begin, asmVars, runVars, K, code_ind
  <2>2. phase' = "fix" \/ phase \in AfterFix
    BY <2>1 DEF AfterFix, AfterLoad
  <2>3. phase \in {"fix"} \cup AfterFix
    BY <2>1 DEF AfterFix, AfterLoad
  <2>4. phase' = "fix" => phase' \notin AfterFix
    BY DEF AfterFix, AfterLoad, AfterBoot
  <2>5. QED BY <2>1, <2>2, <2>3, <2>4
<1>6. CASE Plain \/ Loadl \/ Jump \/ JumpRegister \/ Jsr \/ Jsra \/ Rts
  <2>1. /\ prog' = prog /\ placed' = placed /\ K' = K /\ code_ind' = code_ind
        /\ phase = "run" /\ phase' = "run"
    BY <1>6 DEF Plain, Loadl, Jump, JumpRegister, Jsr, Jsra, Rts, Call, GoOn, At, asmVars, K, code_ind
  <2>2. QED BY <2>1
<1>7. CASE EmitPartly \/ LabelListFull \/ LabelNotDefined \/ NotLoaded
  <2>1. /\ phase' \in {"refused", "spoilt"} /\ placed' = placed /\ code_ind' = code_ind
    BY <1>7 DEF EmitPartly, LabelListFull, LabelNotDefined, NotLoaded, Refused, asmVars, K, code_ind
  <2>2. QED BY <2>1 DEF AfterFix, AfterLoad, AfterBoot
<1>8. CASE Exit \/ Error \/ FetchPastEnd
  <2>1. /\ prog' = prog /\ placed' = placed /\ K' = K /\ code_ind' = code_ind
        /\ phase = "run" /\ phase' \in {"done", "fatal", "wild"}
    BY <1>8 DEF Exit, Error, FetchPastEnd, Ends, At, asmVars, K, code_ind
  <2>2. QED BY <2>1 DEF AfterFix, AfterLoad, AfterBoot
<1>9. CASE UNCHANGED vars
  <2>1. /\ prog' = prog /\ placed' = placed /\ K' = K /\ code_ind' = code_ind /\ phase' = phase
        /\ reg' = reg /\ jumpstack_ind' = jumpstack_ind /\ ep' = ep
    BY <1>9 DEF vars, asmVars, runVars, K, code_ind
  <2>2. QED BY <2>1
<1>10. QED BY <1>1, <1>2, <1>3, <1>4, <1>5, <1>6, <1>7, <1>8, <1>9 DEF Next, Assemble, Execute

LEMMA Inverse ==
    ASSUME IInv
    PROVE  \A k \in 1 .. K : LineAt(start[k]) = k
BY Positions DEF LineAt, IInv

\* Before the program runs, the source is still to be read.
LEMMA SourceKept ==
    ASSUME IInv, SourceInv, phase \in NotRun
    PROVE  /\ srcState = "source" /\ srcSize = 0 /\ srcWhere = [l \in Labels |-> {}]
           /\ srcLine = 1 /\ srcCalls = << >> /\ srcReg = 0
<1>1. ~Built /\ reg = 0 /\ jumpstack_ind = -1
  BY DEF SourceInv, NotRun, Built
<1>2. srcCalls = << >>
  <2>1. 1 .. jumpstack_ind + 1 = {}
    BY <1>1
  <2>2. QED BY <2>1 DEF srcCalls
<1>3. QED BY <1>1, <1>2 DEF NotRun, srcState, srcSize, srcWhere, srcLine, srcReg

\* A step that leaves the instructions and the program's state as they are.
LEMMA MapKept ==
    ASSUME UNCHANGED <<prog, asmVars>>
    PROVE  /\ K' = K
           /\ \A p : LineAt(p)' = LineAt(p)
           /\ \A l : Read(l)' = Read(l)
<1>1. K' = K /\ start' = start
  BY DEF K, asmVars
<1>2. \A p : LineAt(p)' = LineAt(p)
  BY <1>1 DEF LineAt
<1>3. \A l : Read(l)' = Read(l)
  BY <1>1 DEF Read, asmVars
<1>4. QED BY <1>1, <1>2, <1>3

LEMMA StutterMaps ==
    ASSUME IInv, SourceInv, IInv', SourceInv', phase \in NotRun, phase' \in NotRun, prog' = prog
    PROVE  UNCHANGED Source!vars
<1>1. /\ srcState = "source" /\ srcSize = 0 /\ srcWhere = [l \in Labels |-> {}]
      /\ srcLine = 1 /\ srcCalls = << >> /\ srcReg = 0
  BY SourceKept
<1>2. /\ srcState' = "source" /\ srcSize' = 0 /\ srcWhere' = [l \in Labels |-> {}]
      /\ srcLine' = 1 /\ srcCalls' = << >> /\ srcReg' = 0
  <2>1. (IInv /\ SourceInv /\ phase \in NotRun =>
            /\ srcState = "source" /\ srcSize = 0 /\ srcWhere = [l \in Labels |-> {}]
            /\ srcLine = 1 /\ srcCalls = << >> /\ srcReg = 0)'
    BY SourceKept, PTL
  <2>2. QED BY <2>1 DEF NotRun
<1>3. QED BY <1>1, <1>2 DEF Source!vars

LEMMA RefusedMaps ==
    ASSUME IInv, SourceInv, phase \in NotRun, phase' \in {"refused", "spoilt"},
           UNCHANGED <<prog, asmVars, runVars>>
    PROVE  Source!Refuse
<1>1. /\ srcState = "source" /\ srcSize = 0 /\ srcWhere = [l \in Labels |-> {}]
      /\ srcLine = 1 /\ srcCalls = << >> /\ srcReg = 0
  BY SourceKept
<1>2. ~Built' /\ reg' = 0 /\ jumpstack_ind' = -1
  BY DEF Built, runVars, SourceInv
<1>3. srcCalls' = << >>
  <2>1. 1 .. jumpstack_ind' + 1 = {}
    BY <1>2
  <2>2. QED BY <2>1 DEF srcCalls
<1>4. srcState' \in {"refused", "spoilt"} /\ srcSize' = 0 /\ srcLine' = 1 /\ srcReg' = 0
      /\ srcWhere' = [l \in Labels |-> {}]
  BY <1>2 DEF srcState, srcSize, srcLine, srcReg, srcWhere
<1>5. QED BY <1>1, <1>3, <1>4 DEF Source!Refuse

\* Source is what a running program has read.
LEMMA BeginMaps ==
    ASSUME IInv, IInv', SourceInv, Begin
    PROVE  Source!Begin
<1>1. /\ phase = "boot" /\ phase' = "run" /\ prog' = prog /\ ep' = ep /\ reg' = reg
      /\ jumpstack' = jumpstack /\ jumpstack_ind' = jumpstack_ind
      /\ start' = start /\ label' = label
      /\ K' = K /\ Lines' = Lines /\ \A l : Read(l)' = Read(l)
      /\ \A p : LineAt(p)' = LineAt(p)
  BY MapKept DEF Begin, asmVars, runVars, Lines
<1>2. /\ srcState = "source" /\ srcSize = 0 /\ srcLine = 1 /\ srcCalls = << >> /\ srcReg = 0
      /\ reg = 0 /\ jumpstack_ind = -1 /\ ep = Header
  BY <1>1, SourceKept DEF NotRun, SourceInv
<1>3. Built'
  BY <1>1 DEF Built
<1>4. srcSize' = K - 1 /\ srcState' = "run"
  BY <1>1, <1>3 DEF srcSize, srcState
<1>5. srcWhere' = [l \in Labels |-> Read(l)]
  BY <1>1, <1>3 DEF srcWhere
<1>6. srcLine' = 1
  <2>1. 1 \in 1 .. K /\ start[1] = Header
    BY Positions DEF IInv, StartInv
  <2>2. LineAt(Header) = 1
    BY <2>1, Inverse
  <2>3. QED BY <2>2, <1>1, <1>2, <1>3 DEF srcLine
<1>7. srcCalls' = << >> /\ srcReg' = 0
  <2>1. 1 .. jumpstack_ind' + 1 = {}
    BY <1>1, <1>2
  <2>2. QED BY <2>1, <1>1, <1>2 DEF srcCalls, srcReg
<1>8. /\ K \in Nat /\ Len(prog.code) \in Nat /\ K - 1 \in 1 .. Len(prog.code)
  <2>1. K > 1
    BY <1>1 DEF SourceInv, AfterFix, AfterLoad
  <2>2. QED BY <2>1, Positions, Programming DEF IInv, TypeOK
<1>9. \E last \in {K - 1, K} :
         /\ srcWhere' = [l \in Labels |-> {k \in prog.place[l] : k <= last}]
         /\ K - 1 < Len(prog.code) => last = K - 1
  <2>1. \A l \in Labels : \A k \in prog.place[l] : k \in Nat
    BY Programming DEF IInv
  <2>2. CASE placed = {}
    <3>1. \A l \in Labels : Read(l) = {k \in prog.place[l] : k <= K - 1}
      BY <2>1, <2>2, <1>8 DEF Read
    <3>2. QED BY <3>1, <1>5
  <2>3. CASE K > Len(prog.code) /\ \A l \in Labels : K \in prog.place[l] => l \in placed
    <3>1. \A l \in Labels : Read(l) = {k \in prog.place[l] : k <= K}
      BY <2>1, <2>3, <1>8 DEF Read
    <3>2. ~(K - 1 < Len(prog.code))
      BY <2>3, <1>8
    <3>3. QED BY <3>1, <3>2, <1>5
  <2>4. QED BY <2>2, <2>3, <1>1 DEF SourceInv, AfterFix, AfterLoad
<1>10. ASSUME NEW k \in 1 .. K - 1, UsesLabel(Op(k))
       PROVE  srcWhere'[Lab(k)] # {}
  <2>1. k \in Lines /\ Lab(k) \in Labels
    BY <1>10, Programming DEF IInv, Lines
  <2>2. Fixed(k)
    BY <1>1 DEF Fixed, AfterFix, AfterLoad
  <2>3. Lab(k) \in DOMAIN label /\ label[Lab(k)] # -1
    BY <2>1, <2>2, <1>10 DEF IInv, QuadInv
  <2>4. Read(Lab(k)) # {}
    BY <2>1, <2>3 DEF IInv, LabelInv, IsTarget
  <2>5. QED BY <2>1, <2>4, <1>5
<1>11. \E n \in 1 .. Len(prog.code) : \E last \in {n, n + 1} :
          /\ srcSize' = n
          /\ srcWhere' = Source!Read(n, last)
          /\ \A k \in 1 .. n :
                Source!UsesLabel(prog.code[k].op) => srcWhere'[prog.code[k].label] # {}
          /\ n < Len(prog.code) => last = n
  <2>1. PICK last \in {K - 1, K} :
         /\ srcWhere' = [l \in Labels |-> {k \in prog.place[l] : k <= last}]
         /\ K - 1 < Len(prog.code) => last = K - 1
    BY <1>9
  <2>2. srcWhere' = Source!Read(K - 1, last)
    BY <2>1 DEF Source!Read
  <2>3. \A k \in 1 .. K - 1 :
           Source!UsesLabel(prog.code[k].op) => srcWhere'[prog.code[k].label] # {}
    BY <1>10 DEF Op, Lab, Source!UsesLabel, UsesLabel, Jumps
  <2>4. last \in {K - 1, (K - 1) + 1}
    BY <1>8
  <2>5. QED BY <2>1, <2>2, <2>3, <2>4, <1>4, <1>8
<1>12. QED BY <1>1, <1>2, <1>4, <1>6, <1>7, <1>11 DEF Source!Begin

\* Where a running program is.
LEMMA RunMaps ==
    ASSUME IInv, phase = "run"
    PROVE  /\ srcState = "run" /\ srcSize = K - 1 /\ K \in Nat
           /\ srcWhere = [l \in Labels |-> Read(l)]
           /\ srcLine = LineAt(ep) /\ srcLine \in 1 .. K
           /\ Len(srcCalls) = jumpstack_ind + 1 /\ jumpstack_ind + 1 \in Nat
           /\ \A n \in 1 .. jumpstack_ind + 1 : srcCalls[n] = LineAt(jumpstack[n - 1])
<1>1. Built
  BY DEF Built
<1>2. K \in Nat
  BY Positions DEF IInv
<1>3. LineAt(ep) \in 1 .. K
  BY Inverse DEF IInv, RunInv, Starts
<1>4. jumpstack_ind + 1 \in Nat
  BY StackKept, ObjectAssumption
<1>5. Len(srcCalls) = jumpstack_ind + 1
  BY <1>4 DEF srcCalls
<1>6. QED BY <1>1, <1>2, <1>3, <1>4, <1>5 DEF srcState, srcSize, srcWhere, srcLine, srcCalls

\* The instruction the VM is at is the one the source is at.
LEMMA AtMaps ==
    ASSUME IInv, phase = "run", ep < code_size
    PROVE  /\ srcLine \in Lines /\ srcLine \in 1 .. K - 1 /\ ep = start[srcLine]
           /\ memOp[ep] = Op(srcLine)
           /\ Op(srcLine) \in Ops
           /\ start[srcLine + 1] = ep + Length(Op(srcLine))
           /\ srcLine + 1 \in 1 .. K
           /\ \A ops : memOp[ep] \in ops => Source!At(ops)
<1>1. PICK a \in Lines : /\ ep = start[a] /\ memOp[ep] = Op(a) /\ Op(a) \in Ops
                        /\ ep + Length(Op(a)) = start[a + 1]
  BY Running1
<1>2. a \in 1 .. K /\ a + 1 \in 1 .. K /\ a \in 1 .. K - 1
  BY Programming DEF IInv, Lines
<1>3. srcLine = a
  BY <1>1, <1>2, Inverse, RunMaps
<1>4. srcState = "run" /\ srcLine <= srcSize
  BY <1>2, <1>3, RunMaps
<1>5. ASSUME NEW ops, memOp[ep] \in ops
      PROVE  Source!At(ops)
  BY <1>1, <1>3, <1>4, <1>5 DEF Source!At, Op
<1>6. QED BY <1>1, <1>2, <1>3, <1>5

LEMMA TargetMaps ==
    ASSUME IInv, phase = "run", ep < code_size, UsesLabel(memOp[ep])
    PROVE  /\ Source!Target \in 1 .. K
           /\ label[Lab(srcLine)] = start[Source!Target]
           /\ memOp[ep] \in Jumps => jumpoffs[ep] = start[Source!Target]
           /\ memOp[ep] = "loadl" => memQuad[ep + 1] = start[Source!Target]
<1>1. /\ srcLine \in Lines /\ ep = start[srcLine] /\ memOp[ep] = Op(srcLine)
      /\ UsesLabel(Op(srcLine)) /\ Op(srcLine) \in Ops
  BY AtMaps
<1>2. PICK t \in 1 .. K : IsTarget(Lab(srcLine), t) /\ label[Lab(srcLine)] = start[t]
  BY <1>1, Resolved
<1>3. Lab(srcLine) \in Labels /\ \A k \in Read(Lab(srcLine)) : k \in Nat
  BY <1>1, Programming DEF IInv, Read
<1>4. srcWhere[prog.code[srcLine].label] = Read(Lab(srcLine))
  BY <1>3, RunMaps DEF Lab
<1>5. Source!Target = t
  <2>1. Source!Target = CHOOSE k \in Read(Lab(srcLine)) : \A j \in Read(Lab(srcLine)) : j <= k
    BY <1>4 DEF Source!Target
  <2>2. t \in Read(Lab(srcLine)) /\ \A j \in Read(Lab(srcLine)) : j <= t
    BY <1>2 DEF IsTarget
  <2>3. ASSUME NEW k \in Read(Lab(srcLine)), \A j \in Read(Lab(srcLine)) : j <= k
        PROVE  k = t
    BY <2>2, <2>3, <1>3
  <2>4. QED BY <2>1, <2>2, <2>3
<1>6. memOp[ep] \in Jumps => jumpoffs[ep] = start[t]
  BY <1>1, <1>2, Resolved
<1>7. ASSUME memOp[ep] = "loadl" PROVE memQuad[ep + 1] = start[t]
  <2>1. QuadAt(srcLine) = ep + 1
    BY <1>1, <1>7, Tables DEF QuadAt
  <2>2. QED BY <2>1, <1>1, <1>2, Resolved
<1>8. QED BY <1>2, <1>5, <1>6, <1>7

\* A step of the VM to instruction m.
LEMMA MoveMaps ==
    ASSUME IInv, phase = "run", NEW m \in 1 .. K, GoOn(start[m])
    PROVE  /\ UNCHANGED <<prog, srcState, srcSize, srcWhere>>
           /\ srcLine' = m
           /\ K' = K
           /\ \A p : LineAt(p)' = LineAt(p)
<1>1. UNCHANGED <<prog, asmVars, phase>> /\ ep' = start[m]
  BY DEF GoOn
<1>2. K' = K /\ (\A p : LineAt(p)' = LineAt(p)) /\ \A l : Read(l)' = Read(l)
  BY <1>1, MapKept
<1>3. Built /\ Built'
  BY <1>1 DEF Built
<1>4. LineAt(start[m]) = m
  BY Inverse
<1>5. srcLine' = m
  BY <1>1, <1>2, <1>3, <1>4 DEF srcLine
<1>6. UNCHANGED <<srcState, srcSize, srcWhere>>
  BY <1>1, <1>2, <1>3 DEF srcState, srcSize, srcWhere
<1>7. QED BY <1>1, <1>2, <1>5, <1>6

LEMMA CallsKept ==
    ASSUME \A p : LineAt(p)' = LineAt(p), UNCHANGED <<jumpstack, jumpstack_ind>>
    PROVE  srcCalls' = srcCalls
BY DEF srcCalls
LEMMA RegKept ==
    ASSUME \A p : LineAt(p)' = LineAt(p), UNCHANGED reg
    PROVE  srcReg' = srcReg
BY DEF srcReg

SourceStep == Source!Step /\ UNCHANGED <<prog, srcState, srcSize, srcWhere>>

LEMMA NextMaps ==
    ASSUME IInv, phase = "run", ep < code_size, GoOn(Next1),
           memOp[ep] \in {"alu", "stack", "mov", "load", "intr", "jmpi", "loadl", "loop"}
    PROVE  /\ UNCHANGED <<prog, srcState, srcSize, srcWhere>>
           /\ srcLine' = srcLine + 1
           /\ \A p : LineAt(p)' = LineAt(p)
<1>1. Next1 = start[srcLine + 1] /\ srcLine + 1 \in 1 .. K
  BY AtMaps, Tables DEF Next1
<1>2. QED BY <1>1, MoveMaps

LEMMA PlainMaps == IInv /\ Plain => SourceStep
<1> SUFFICES ASSUME IInv, Plain PROVE SourceStep
  OBVIOUS
<1>1. /\ phase = "run" /\ ep < code_size /\ GoOn(Next1)
      /\ memOp[ep] \in {"alu", "stack", "mov", "load", "intr"}
      /\ UNCHANGED <<reg, jumpstack, jumpstack_ind>>
  BY DEF Plain, At
<1>2. /\ UNCHANGED <<prog, srcState, srcSize, srcWhere>> /\ srcLine' = srcLine + 1
      /\ srcCalls' = srcCalls /\ srcReg' = srcReg
  BY <1>1, NextMaps, CallsKept, RegKept
<1>3. Source!At({"alu", "stack", "mov", "load", "intr"})
  BY <1>1, AtMaps
<1>4. QED BY <1>2, <1>3 DEF Source!Plain, Source!Step, SourceStep

LEMMA LoadlMaps == IInv /\ Loadl => SourceStep
<1> SUFFICES ASSUME IInv, Loadl PROVE SourceStep
  OBVIOUS
<1>1. /\ phase = "run" /\ ep < code_size /\ GoOn(Next1) /\ memOp[ep] = "loadl"
      /\ reg' = memQuad[ep + 1] /\ UNCHANGED <<jumpstack, jumpstack_ind>>
  BY DEF Loadl, At
<1>2. /\ UNCHANGED <<prog, srcState, srcSize, srcWhere>> /\ srcLine' = srcLine + 1
      /\ srcCalls' = srcCalls /\ \A p : LineAt(p)' = LineAt(p)
  BY <1>1, NextMaps, CallsKept
<1>3. Source!At({"loadl"})
  BY <1>1, AtMaps
<1>4. reg' = start[Source!Target] /\ Source!Target \in 1 .. K
  BY <1>1, TargetMaps DEF UsesLabel
<1>5. srcReg' = Source!Target
  <2>1. reg' # 0
    BY <1>4, Positions DEF IInv, Header
  <2>2. LineAt(start[Source!Target]) = Source!Target
    BY <1>4, Inverse
  <2>3. QED BY <2>1, <2>2, <1>2, <1>4 DEF srcReg
<1>6. QED BY <1>2, <1>3, <1>5 DEF Source!Loadl, Source!Step, SourceStep

LEMMA JumpMaps == IInv /\ Jump => SourceStep
<1> SUFFICES ASSUME IInv, Jump PROVE SourceStep
  OBVIOUS
<1>1. /\ phase = "run" /\ ep < code_size /\ memOp[ep] \in {"jmp", "jmpi", "loop"}
      /\ UNCHANGED <<reg, jumpstack, jumpstack_ind>>
  BY DEF Jump, At
<1>2. CASE GoOn(jumpoffs[ep])
  <2>1. jumpoffs[ep] = start[Source!Target] /\ Source!Target \in 1 .. K
    BY <1>1, TargetMaps DEF UsesLabel, Jumps
  <2>2. /\ UNCHANGED <<prog, srcState, srcSize, srcWhere>> /\ srcLine' = Source!Target
        /\ srcCalls' = srcCalls /\ srcReg' = srcReg
    BY <1>1, <1>2, <2>1, MoveMaps, CallsKept, RegKept
  <2>3. Source!At({"jmp", "jmpi", "loop"})
    BY <1>1, AtMaps
  <2>4. QED BY <2>2, <2>3 DEF Source!Jump, Source!Step, SourceStep
<1>3. CASE At({"jmpi", "loop"}) /\ GoOn(Next1)
  <2>1. memOp[ep] \in {"jmpi", "loop"}
    BY <1>3 DEF At
  <2>2. /\ UNCHANGED <<prog, srcState, srcSize, srcWhere>> /\ srcLine' = srcLine + 1
        /\ srcCalls' = srcCalls /\ srcReg' = srcReg
    BY <1>1, <1>3, <2>1, NextMaps, CallsKept, RegKept
  <2>3. Source!At({"jmpi", "loop"})
    BY <1>1, <2>1, AtMaps
  <2>4. QED BY <2>2, <2>3 DEF Source!Jump, Source!Step, SourceStep
<1>4. QED BY <1>2, <1>3 DEF Jump

\* A register is legal for the VM exactly when it points to an instruction of
\* the source.
LEMMA LegalMaps ==
    ASSUME IInv, phase = "run"
    PROVE  /\ Legal(reg) <=> srcReg \in 1 .. srcSize
           /\ Legal(reg) => reg = start[srcReg]
<1>1. K \in Nat /\ srcSize = K - 1 /\ K \in 1 .. K
  BY RunMaps, Positions DEF IInv
<1>2. CASE reg = 0
  BY <1>1, <1>2 DEF srcReg, Legal, Header
<1>3. CASE reg # 0
  <2>1. PICK k \in 1 .. K : reg = start[k]
    BY <1>3 DEF IInv, RunInv, Starts
  <2>2. srcReg = k
    BY <1>3, <2>1, Inverse DEF srcReg
  <2>3. start[k] \in Nat /\ start[k] >= Header /\ (start[k] < start[K] <=> k < K)
    BY <1>1, Positions DEF IInv
  <2>4. Legal(reg) <=> k < K
    BY <2>1, <2>3 DEF Legal, code_size, code_ind
  <2>5. QED BY <2>1, <2>2, <2>4, <1>1
<1>4. QED BY <1>2, <1>3

LEMMA JumpRegisterMaps == IInv /\ JumpRegister => SourceStep
<1> SUFFICES ASSUME IInv, JumpRegister PROVE SourceStep
  OBVIOUS
<1>1. /\ phase = "run" /\ ep < code_size /\ memOp[ep] = "jmpa" /\ Legal(reg) /\ GoOn(reg)
      /\ UNCHANGED <<reg, jumpstack, jumpstack_ind>>
  BY DEF JumpRegister, At
<1>2. srcReg \in 1 .. srcSize /\ reg = start[srcReg] /\ srcReg \in 1 .. K
  BY <1>1, LegalMaps, RunMaps
<1>3. /\ UNCHANGED <<prog, srcState, srcSize, srcWhere>> /\ srcLine' = srcReg
      /\ srcCalls' = srcCalls /\ srcReg' = srcReg
  BY <1>1, <1>2, MoveMaps, CallsKept, RegKept
<1>4. Source!At({"jmpa"})
  BY <1>1, AtMaps
<1>5. QED BY <1>2, <1>3, <1>4 DEF Source!Jump, Source!Step, SourceStep

\* Open calls return to instructions, or behind the last one.
LEMMA CallsInRange ==
    ASSUME IInv, phase = "run", NEW n \in 1 .. jumpstack_ind + 1
    PROVE  srcCalls[n] \in 1 .. K /\ jumpstack[n - 1] = start[srcCalls[n]]
<1>1. n - 1 \in 0 .. jumpstack_ind
  <2>1. MaxSubJumps \in Nat /\ jumpstack_ind \in -1 .. MaxSubJumps - 1
    BY StackKept, ObjectAssumption
  <2>2. QED BY <2>1
<1>2. PICK k \in Lines : jumpstack[n - 1] = start[k + 1]
  BY <1>1, StackKept
<1>3. k + 1 \in 1 .. K
  BY Programming DEF IInv
<1>4. srcCalls[n] = LineAt(start[k + 1])
  BY <1>2 DEF srcCalls
<1>5. QED BY <1>2, <1>3, <1>4, Inverse

LEMMA SequenceIs ==
    ASSUME NEW S, NEW n \in Nat, NEW f, f = [k \in 1 .. n |-> f[k]],
           \A k \in 1 .. n : f[k] \in S
    PROVE  f \in Seq(S) /\ Len(f) = n
<1> DEFINE g == [k \in 1 .. n |-> f[k]]
<1>1. g \in Seq(S)
  OBVIOUS
<1>2. Len(g) = n
  OBVIOUS
<1>3. QED BY <1>1, <1>2

LEMMA AppendIs ==
    ASSUME NEW S, NEW s \in Seq(S), NEW x \in S, NEW f \in Seq(S), Len(f) = Len(s) + 1,
           f[Len(s) + 1] = x, \A n \in 1 .. Len(s) : f[n] = s[n]
    PROVE  f = Append(s, x)
<1>1. Append(s, x) \in Seq(S) /\ Len(Append(s, x)) = Len(s) + 1
  OBVIOUS
<1>2. \A n \in 1 .. Len(s) + 1 : f[n] = Append(s, x)[n]
  OBVIOUS
<1>3. QED BY <1>1, <1>2

LEMMA FrontIs ==
    ASSUME NEW S, NEW s \in Seq(S), NEW n \in Nat, Len(s) - 1 = n
    PROVE  SubSeq(s, 1, Len(s) - 1) = [k \in 1 .. n |-> s[k]]
OBVIOUS

LEMMA CallMaps ==
    ASSUME IInv, phase = "run", ep < code_size, memOp[ep] \in {"jsr", "jsra"},
           NEW m \in 1 .. K, Call(start[m])
    PROVE  /\ UNCHANGED <<prog, srcState, srcSize, srcWhere, srcReg>>
           /\ srcLine' = m
           /\ Len(srcCalls) < MaxSubJumps
           /\ srcCalls' = Append(srcCalls, srcLine + 1)
<1>1. /\ GoOn(start[m]) /\ reg' = reg /\ jumpstack_ind' = jumpstack_ind + 1
      /\ jumpstack' = Put(jumpstack, jumpstack_ind + 1, BehindCall)
      /\ jumpstack_ind # MaxSubJumps - 1
  BY DEF Call, Full
<1>2. /\ UNCHANGED <<prog, srcState, srcSize, srcWhere>> /\ srcLine' = m
      /\ \A p : LineAt(p)' = LineAt(p)
  BY <1>1, MoveMaps
<1>3. srcReg' = srcReg
  BY <1>1, <1>2, RegKept
<1>4. /\ Len(srcCalls) = jumpstack_ind + 1 /\ jumpstack_ind + 1 \in Nat
      /\ jumpstack_ind \in Int
      /\ \A n \in 1 .. jumpstack_ind + 1 : srcCalls[n] = LineAt(jumpstack[n - 1])
      /\ MaxSubJumps \in Nat /\ jumpstack_ind + 1 \in 0 .. MaxSubJumps - 1
      /\ DOMAIN jumpstack = 0 .. MaxSubJumps - 1
  <2>1. /\ Len(srcCalls) = jumpstack_ind + 1 /\ jumpstack_ind + 1 \in Nat
        /\ \A n \in 1 .. jumpstack_ind + 1 : srcCalls[n] = LineAt(jumpstack[n - 1])
    BY RunMaps
  <2>2. MaxSubJumps \in Nat
    BY ObjectAssumption
  <2>3. jumpstack_ind \in -1 .. MaxSubJumps - 1 /\ DOMAIN jumpstack = 0 .. MaxSubJumps - 1
    BY StackKept
  <2>4. jumpstack_ind \in Int /\ jumpstack_ind + 1 \in 0 .. MaxSubJumps - 1
    BY <2>2, <2>3, <1>1
  <2>5. QED BY <2>1, <2>2, <2>3, <2>4
<1>5. BehindCall = start[srcLine + 1] /\ srcLine + 1 \in 1 .. K
  BY AtMaps, Tables DEF BehindCall
<1>6. LineAt(BehindCall) = srcLine + 1
  BY <1>5, Inverse
<1>7. srcCalls' = [n \in 1 .. jumpstack_ind + 2 |-> LineAt(jumpstack'[n - 1])]
  <2>1. srcCalls' = [n \in 1 .. jumpstack_ind' + 1 |-> LineAt(jumpstack'[n - 1])]
    BY <1>2 DEF srcCalls
  <2>2. jumpstack_ind' + 1 = jumpstack_ind + 2
    BY <1>1, <1>4
  <2>3. QED BY <2>1, <2>2
<1>8. ASSUME NEW n \in 1 .. jumpstack_ind + 2
      PROVE  srcCalls'[n] = IF n = jumpstack_ind + 2 THEN srcLine + 1 ELSE srcCalls[n]
  <2>1. n - 1 \in 0 .. MaxSubJumps - 1
    BY <1>4
  <2>2. CASE n = jumpstack_ind + 2
    <3>1. n - 1 = jumpstack_ind + 1
      BY <2>2, <1>4
    <3>2. jumpstack'[n - 1] = BehindCall
      BY <3>1, <2>1, <1>1, <1>4 DEF Put
    <3>3. QED BY <3>2, <2>2, <1>6, <1>7
  <2>3. CASE n # jumpstack_ind + 2
    <3>1. n - 1 # jumpstack_ind + 1 /\ n \in 1 .. jumpstack_ind + 1
      BY <2>3, <1>4
    <3>2. jumpstack'[n - 1] = jumpstack[n - 1]
      BY <3>1, <2>1, <1>1, <1>4 DEF Put
    <3>3. QED BY <3>1, <3>2, <2>3, <1>4, <1>7
  <2>4. QED BY <2>2, <2>3
<1>9. srcCalls' = Append(srcCalls, srcLine + 1)
  <2>1. srcCalls \in Seq(1 .. K)
    <3>1. ASSUME NEW n \in 1 .. jumpstack_ind + 1
          PROVE  srcCalls[n] \in 1 .. K
      BY <1>4, CallsInRange
    <3>2. srcCalls = [n \in 1 .. jumpstack_ind + 1 |-> srcCalls[n]]
      BY DEF srcCalls
    <3>3. QED BY <3>1, <3>2, <1>4, SequenceIs
  <2>2. \A n \in 1 .. jumpstack_ind + 2 : srcCalls'[n] \in 1 .. K
    <3>1. ASSUME NEW n \in 1 .. jumpstack_ind + 2
          PROVE  srcCalls'[n] \in 1 .. K
      <4>1. CASE n = jumpstack_ind + 2
        BY <4>1, <1>5, <1>8
      <4>2. CASE n # jumpstack_ind + 2
        <5>1. n \in 1 .. jumpstack_ind + 1
          BY <4>2, <1>4
        <5>2. QED BY <4>2, <5>1, <1>4, <1>8, CallsInRange
      <4>3. QED BY <4>1, <4>2
    <3>2. QED BY <3>1
  <2>3. srcCalls' \in Seq(1 .. K) /\ Len(srcCalls') = jumpstack_ind + 2
    <3>1. srcCalls' = [n \in 1 .. jumpstack_ind + 2 |-> srcCalls'[n]]
      BY <1>7
    <3>2. jumpstack_ind + 2 \in Nat
      BY <1>4
    <3>3. ASSUME NEW N \in Nat, NEW f, f = [n \in 1 .. N |-> f[n]],
                 \A n \in 1 .. N : f[n] \in 1 .. K
          PROVE  f \in Seq(1 .. K) /\ Len(f) = N
      BY <3>3, SequenceIs
    <3>4. QED BY <3>1, <3>2, <3>3, <2>2
  <2>4. srcCalls'[Len(srcCalls) + 1] = srcLine + 1 /\ Len(srcCalls') = Len(srcCalls) + 1
    <3>1. jumpstack_ind + 2 \in 1 .. jumpstack_ind + 2 /\ Len(srcCalls) + 1 = jumpstack_ind + 2
      BY <1>4
    <3>2. QED BY <3>1, <2>3, <1>8
  <2>5. \A n \in 1 .. Len(srcCalls) : srcCalls'[n] = srcCalls[n]
    <3>1. ASSUME NEW n \in 1 .. jumpstack_ind + 1
          PROVE  srcCalls'[n] = srcCalls[n]
      <4>1. n \in 1 .. jumpstack_ind + 2 /\ n # jumpstack_ind + 2
        BY <1>4
      <4>2. QED BY <4>1, <1>8
    <3>2. QED BY <3>1, <1>4
  <2>6. QED BY <2>1, <2>3, <2>4, <2>5, <1>5, AppendIs
<1>10. QED BY <1>2, <1>3, <1>4, <1>9

LEMMA JsrMaps == IInv /\ Jsr => SourceStep
<1> SUFFICES ASSUME IInv, Jsr PROVE SourceStep
  OBVIOUS
<1>1. phase = "run" /\ ep < code_size /\ memOp[ep] = "jsr" /\ Call(jumpoffs[ep])
  BY DEF Jsr, At
<1>2. jumpoffs[ep] = start[Source!Target] /\ Source!Target \in 1 .. K
  BY <1>1, TargetMaps DEF UsesLabel, Jumps
<1>3. /\ UNCHANGED <<prog, srcState, srcSize, srcWhere, srcReg>> /\ srcLine' = Source!Target
      /\ Len(srcCalls) < MaxSubJumps /\ srcCalls' = Append(srcCalls, srcLine + 1)
  BY <1>1, <1>2, CallMaps
<1>4. Source!At({"jsr"})
  BY <1>1, AtMaps
<1>5. QED BY <1>3, <1>4 DEF Source!Call, Source!Step, SourceStep

LEMMA JsraMaps == IInv /\ Jsra => SourceStep
<1> SUFFICES ASSUME IInv, Jsra PROVE SourceStep
  OBVIOUS
<1>1. phase = "run" /\ ep < code_size /\ memOp[ep] = "jsra" /\ Legal(reg) /\ Call(reg)
  BY DEF Jsra, At
<1>2. srcReg \in 1 .. srcSize /\ reg = start[srcReg] /\ srcReg \in 1 .. K
  BY <1>1, LegalMaps, RunMaps
<1>3. /\ UNCHANGED <<prog, srcState, srcSize, srcWhere, srcReg>> /\ srcLine' = srcReg
      /\ Len(srcCalls) < MaxSubJumps /\ srcCalls' = Append(srcCalls, srcLine + 1)
  BY <1>1, <1>2, CallMaps
<1>4. Source!At({"jsra"})
  BY <1>1, AtMaps
<1>5. QED BY <1>2, <1>3, <1>4 DEF Source!Call, Source!Step, SourceStep

LEMMA RtsMaps == IInv /\ Rts => SourceStep
<1> SUFFICES ASSUME IInv, Rts PROVE SourceStep
  OBVIOUS
<1>1. /\ phase = "run" /\ ep < code_size /\ memOp[ep] = "rts" /\ jumpstack_ind # -1
      /\ GoOn(jumpstack[jumpstack_ind]) /\ UNCHANGED <<reg, jumpstack>>
      /\ jumpstack_ind' = jumpstack_ind - 1
  BY DEF Rts, At
<1>2. /\ Len(srcCalls) = jumpstack_ind + 1 /\ jumpstack_ind \in Nat
      /\ jumpstack_ind + 1 \in 1 .. jumpstack_ind + 1
  <2>1. MaxSubJumps \in Nat /\ jumpstack_ind \in -1 .. MaxSubJumps - 1
    BY StackKept, ObjectAssumption
  <2>2. QED BY <2>1, <1>1, RunMaps
<1>3. srcCalls[Len(srcCalls)] \in 1 .. K /\ jumpstack[jumpstack_ind] = start[srcCalls[Len(srcCalls)]]
  <2>1. (jumpstack_ind + 1) - 1 = jumpstack_ind
    BY <1>2
  <2>2. QED BY <2>1, <1>1, <1>2, CallsInRange
<1>4. /\ UNCHANGED <<prog, srcState, srcSize, srcWhere>> /\ srcLine' = srcCalls[Len(srcCalls)]
      /\ \A p : LineAt(p)' = LineAt(p)
  BY <1>1, <1>3, MoveMaps
<1>5. srcReg' = srcReg
  BY <1>1, <1>4, RegKept
<1>6. srcCalls' = SubSeq(srcCalls, 1, Len(srcCalls) - 1)
  <2>1. srcCalls' = [n \in 1 .. jumpstack_ind |-> srcCalls[n]]
    <3>1. srcCalls' = [n \in 1 .. jumpstack_ind' + 1 |-> LineAt(jumpstack'[n - 1])]
      BY <1>4 DEF srcCalls
    <3>2. jumpstack_ind' + 1 = jumpstack_ind
      BY <1>1, <1>2
    <3>3. \A n \in 1 .. jumpstack_ind : srcCalls[n] = LineAt(jumpstack[n - 1])
      BY <1>1, <1>2, RunMaps
    <3>4. QED BY <3>1, <3>2, <3>3, <1>1
  <2>2. srcCalls \in Seq(1 .. K)
    <3>1. ASSUME NEW n \in 1 .. jumpstack_ind + 1
          PROVE  srcCalls[n] \in 1 .. K
      BY <1>1, CallsInRange
    <3>2. srcCalls = [n \in 1 .. jumpstack_ind + 1 |-> srcCalls[n]]
      BY DEF srcCalls
    <3>3. jumpstack_ind + 1 \in Nat
      BY <1>2
    <3>4. QED BY <3>1, <3>2, <3>3, SequenceIs
  <2>3. Len(srcCalls) - 1 = jumpstack_ind
    BY <1>2
  <2>4. QED BY <2>1, <2>2, <2>3, <1>2, FrontIs
<1>7. srcCalls # << >>
  BY <1>2
<1>8. Source!At({"rts"})
  BY <1>1, AtMaps
<1>9. QED BY <1>4, <1>5, <1>6, <1>7, <1>8 DEF Source!Return, Source!Step, SourceStep

LEMMA EndsMap ==
    ASSUME IInv, phase = "run", NEW how \in {"done", "fatal", "wild"}, Ends(how)
    PROVE  UNCHANGED <<prog, srcSize, srcWhere, srcLine, srcCalls, srcReg>> /\ srcState' = how
<1>1. UNCHANGED <<prog, asmVars, ep, reg, jumpstack, jumpstack_ind>> /\ phase' = how
  BY DEF Ends, runVars
<1>2. K' = K /\ (\A p : LineAt(p)' = LineAt(p)) /\ \A l : Read(l)' = Read(l)
  BY <1>1, MapKept
<1>3. Built /\ Built'
  BY <1>1 DEF Built
<1>4. srcCalls' = srcCalls /\ srcReg' = srcReg
  BY <1>1, <1>2, CallsKept, RegKept
<1>5. UNCHANGED <<srcSize, srcWhere, srcLine>>
  BY <1>1, <1>2, <1>3 DEF srcSize, srcWhere, srcLine
<1>6. srcState' = how
  BY <1>1 DEF srcState
<1>7. QED BY <1>1, <1>4, <1>5, <1>6

LEMMA StopMaps == IInv /\ (Exit \/ Error \/ FetchPastEnd) =>
                     Source!Stop /\ UNCHANGED <<prog, srcSize, srcWhere>>
<1> SUFFICES ASSUME IInv, Exit \/ Error \/ FetchPastEnd
             PROVE  Source!Stop /\ UNCHANGED <<prog, srcSize, srcWhere>>
  OBVIOUS
<1>1. CASE Exit
  <2>1. phase = "run" /\ ep < code_size /\ memOp[ep] = "exit" /\ Ends("done")
    BY <1>1 DEF Exit, At
  <2>2. Source!At({"exit"})
    BY <2>1, AtMaps
  <2>3. QED BY <2>1, <2>2, EndsMap DEF Source!Stop
<1>2. CASE Error
  <2>1. phase = "run" /\ ep < code_size /\ Ends("fatal")
    BY <1>2 DEF Error, At
  <2>2. CASE memOp[ep] \in {"jmpa", "jsra"} /\ ~Legal(reg)
    <3>1. Source!At({"jmpa", "jsra"}) /\ srcReg \notin 1 .. srcSize
      BY <2>1, <2>2, AtMaps, LegalMaps
    <3>2. QED BY <3>1, <2>1, EndsMap DEF Source!Stop, Source!Fails
  <2>3. CASE memOp[ep] \in {"jsr", "jsra"} /\ Full
    <3>1. Source!At({"jsr", "jsra"})
      BY <2>1, <2>3, AtMaps
    <3>2. Len(srcCalls) = MaxSubJumps
      BY <2>1, <2>3, RunMaps, ObjectAssumption DEF Full
    <3>3. QED BY <3>1, <3>2, <2>1, EndsMap DEF Source!Stop, Source!Fails
  <2>4. CASE memOp[ep] = "rts" /\ jumpstack_ind = -1
    <3>1. Source!At({"rts"})
      BY <2>1, <2>4, AtMaps
    <3>2. srcCalls = << >>
      <4>1. 1 .. jumpstack_ind + 1 = {}
        BY <2>4
      <4>2. QED BY <4>1 DEF srcCalls
    <3>3. QED BY <3>1, <3>2, <2>1, EndsMap DEF Source!Stop, Source!Fails
  <2>5. QED BY <2>2, <2>3, <2>4, <1>2 DEF Error, At
<1>3. CASE FetchPastEnd
  <2>1. phase = "run" /\ ep >= code_size /\ Ends("wild")
    BY <1>3 DEF FetchPastEnd
  <2>2. srcLine > srcSize /\ srcState = "run"
    <3>1. PICK k \in 1 .. K : ep = start[k]
      BY DEF IInv, RunInv, Starts
    <3>2. K \in 1 .. K /\ srcLine = k /\ srcSize = K - 1 /\ srcState = "run"
      BY <3>1, <2>1, Inverse, RunMaps, Positions DEF IInv
    <3>3. ~(start[k] < start[K])
      BY <3>1, <3>2, <2>1, Positions DEF IInv, code_size, code_ind
    <3>4. ~(k < K)
      BY <3>2, <3>3, Positions DEF IInv
    <3>5. QED BY <3>2, <3>4, Positions DEF IInv
  <2>3. QED BY <2>1, <2>2, EndsMap DEF Source!Stop
<1>4. QED BY <1>1, <1>2, <1>3

LEMMA InitMaps == Init => SourceInv /\ Source!Init
<1> SUFFICES ASSUME Init PROVE SourceInv /\ Source!Init
  OBVIOUS
<1>1. /\ phase = "asm" /\ placed = {} /\ reg = 0 /\ jumpstack_ind = -1 /\ ep = Header
      /\ prog \in Programs
  BY DEF Init
<1>2. SourceInv
  BY <1>1 DEF SourceInv, AfterFix, AfterLoad, AfterBoot
<1>3. /\ srcState = "source" /\ srcSize = 0 /\ srcWhere = [l \in Labels |-> {}]
      /\ srcLine = 1 /\ srcCalls = << >> /\ srcReg = 0
  BY <1>1, <1>2, InitInv, SourceKept DEF NotRun
<1>4. QED BY <1>1, <1>2, <1>3 DEF Source!Init

LEMMA StepMaps ==
    ASSUME IInv, IInv', SourceInv, SourceInv', [Next]_vars
    PROVE  [Source!Next]_(Source!vars)
<1>1. CASE \/ \E l \in Labels : DefineLabel(l)
           \/ Emit \/ EndOfSource \/ Fix \/ Dump \/ Load \/ Boot
  <2>1. phase \in NotRun /\ phase' \in NotRun /\ prog' = prog
    BY <1>1 DEF DefineLabel, Emit, EndOfSource, Fix, Dump, Load, Boot, Reads, NotRun
  <2>2. QED BY <2>1, StutterMaps
<1>2. CASE EmitPartly \/ LabelListFull \/ LabelNotDefined \/ NotLoaded
  <2>1. /\ phase \in NotRun /\ phase' \in {"refused", "spoilt"}
        /\ UNCHANGED <<prog, asmVars, runVars>>
    BY <1>2 DEF EmitPartly, LabelListFull, LabelNotDefined, NotLoaded, Refused, Reads, NotRun
  <2>2. QED BY <2>1, RefusedMaps DEF Source!Next
<1>3. CASE Begin
  BY <1>3, BeginMaps DEF Source!Next
<1>4. CASE Plain \/ Loadl \/ Jump \/ JumpRegister \/ Jsr \/ Jsra \/ Rts
  <2>1. SourceStep
    BY <1>4, PlainMaps, LoadlMaps, JumpMaps, JumpRegisterMaps, JsrMaps, JsraMaps, RtsMaps
  <2>2. QED BY <2>1 DEF SourceStep, Source!Next
<1>5. CASE Exit \/ Error \/ FetchPastEnd
  BY <1>5, StopMaps DEF Source!Next
<1>6. CASE UNCHANGED vars
  <2>1. UNCHANGED <<prog, asmVars, phase, ep, reg, jumpstack, jumpstack_ind>>
    BY <1>6 DEF vars, runVars
  <2>2. K' = K /\ (\A p : LineAt(p)' = LineAt(p)) /\ \A l : Read(l)' = Read(l)
    BY <2>1, MapKept
  <2>3. Built' <=> Built
    BY <2>1 DEF Built
  <2>4. srcCalls' = srcCalls /\ srcReg' = srcReg
    BY <2>1, <2>2, CallsKept, RegKept
  <2>5. UNCHANGED <<srcState, srcSize, srcWhere, srcLine>>
    BY <2>1, <2>2, <2>3 DEF srcState, srcSize, srcWhere, srcLine
  <2>6. QED BY <2>1, <2>4, <2>5 DEF Source!vars
<1>7. QED BY <1>1, <1>2, <1>3, <1>4, <1>5, <1>6 DEF Next, Assemble, Execute

\* What the VM executes is the source, for every program that is assembled,
\* loaded and run: instructions in their order, jumps to the last definition
\* of their label, returns behind their call.
THEOREM Implementation == Spec => ImplementsSource
<1>1. Spec => []SourceInv
  BY InitMaps, SourceInvStep, Invariance, PTL DEF Spec
<1>2. Init => Source!Init
  BY InitMaps
<1>3. IInv /\ IInv' /\ SourceInv /\ SourceInv' /\ [Next]_vars => [Source!Next]_(Source!vars)
  BY StepMaps
<1>4. QED BY <1>1, <1>2, <1>3, Invariance, PTL DEF Spec, ImplementsSource, Source!Spec
=============================================================================
