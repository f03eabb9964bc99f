--------------------------- MODULE Compiler_proofs ---------------------------
(***************************************************************************)
(* For every program, any number of registers and table entries: what the  *)
(* compiler believes of its registers is true wherever the code gets to,   *)
(* calls leave nothing on the stack, and what runs is the source.          *)
(***************************************************************************)
EXTENDS Compiler, WellFoundedInduction, FiniteSetTheorems, SequenceTheorems, TLAPS

-----------------------------------------------------------------------------
(***************************************************************************)
(* The least and the highest of a set of numbers.                          *)
(***************************************************************************)

LEMMA LeastOf ==
    ASSUME NEW R \in SUBSET Nat, R # {}
    PROVE  Least(R) \in R /\ \A s \in R : Least(R) <= s
<1> DEFINE Less == {p \in Nat \X Nat : p[1] < p[2]}
<1>1. IsWellFoundedOn(Less, Nat)
    BY NatLessThanWellFounded DEF OpToRel
<1> HIDE DEF Less
<1>2. PICK r \in R : \A s \in R : ~ (<<s, r>> \in Less)
    BY <1>1, WFMin
<1>3. \A s \in R : r <= s
    <2> SUFFICES ASSUME NEW s \in R, s < r PROVE FALSE
        OBVIOUS
    <2>1. <<s, r>> \in Less
        BY DEF Less
    <2> QED BY <1>2, <2>1
<1> QED BY <1>3 DEF Least

LEMMA HighestOf ==
    ASSUME NEW N \in SUBSET Nat, N # {}, NEW n \in Nat, \A k \in N : k <= n
    PROVE  Highest(N) \in N /\ \A m \in N : m <= Highest(N)
<1> DEFINE Above == {k \in Nat : \A m \in N : m <= k}
           top == Least(Above)
<1>1. top \in Above /\ \A k \in Above : top <= k
    <2>1. n \in Above
        OBVIOUS
    <2> HIDE DEF Above
    <2>2. Above \in SUBSET Nat
        BY DEF Above
    <2> QED BY <2>1, <2>2, LeastOf
<1> HIDE DEF top
<1>2. \A m \in N : m <= top
    BY <1>1
<1>3. top \in N
    <2> SUFFICES ASSUME top \notin N PROVE FALSE
        OBVIOUS
    <2>1. PICK m \in N : TRUE
        OBVIOUS
    <2>2. \A k \in N : k <= top - 1
        BY <1>1, <1>2
    <2>3. top - 1 \in Above
        BY <1>1, <2>1, <2>2
    <2> QED BY <1>1, <2>3
<1> QED BY <1>2, <1>3 DEF Highest

-----------------------------------------------------------------------------
(***************************************************************************)
(* The table of registers.                                                 *)
(***************************************************************************)

LEMMA Numbers == MaxReg \in Nat /\ MaxReg > 0 /\ Regs \in SUBSET Nat /\ -1 \notin Regs
<1>1. MaxReg \in Nat \ {0}
    BY CompilerAssumption
<1> QED BY <1>1 DEF Regs

LEMMA Names == "" \notin Vars /\ "temp" \notin Vars /\ None \notin Vars
BY CompilerAssumption

\* No variable is in two registers.
Tidy(t) ==
    /\ t \in Table
    /\ \A r, s \in Regs : t[r] \in Vars /\ t[r] = t[s] => r = s

LEMMA FreeRegIs ==
    ASSUME NEW t \in Table
    PROVE  /\ FreeReg(t) \in RegNum
           /\ FreeReg(t) # -1 => FreeReg(t) \in Regs /\ t[FreeReg(t)] = ""
<1>1. CASE Unused(t) = {}
    BY <1>1 DEF FreeReg, RegNum
<1>2. CASE Unused(t) # {}
    <2>1. Unused(t) \in SUBSET Nat
        BY Numbers DEF Unused
    <2>2. Least(Unused(t)) \in Unused(t)
        BY <1>2, <2>1, LeastOf
    <2> QED BY <1>2, <2>2 DEF FreeReg, RegNum, Unused
<1> QED BY <1>1, <1>2

LEMMA RegIs ==
    ASSUME NEW t \in Table, NEW v \in Vars
    PROVE  /\ Reg(t, v) \in RegNum
           /\ Holds(t, v) => Reg(t, v) \in Regs /\ t[Reg(t, v)] = v
           /\ ~Holds(t, v) => Reg(t, v) = FreeReg(t)
<1>1. CASE Holds(t, v)
    <2> DEFINE R == {r \in Regs : t[r] = v}
    <2>1. R # {} /\ R \in SUBSET Nat
        BY <1>1, Numbers DEF Holds
    <2>2. Least(R) \in R
        BY <2>1, LeastOf
    <2> QED BY <1>1, <2>2 DEF Reg, RegNum
<1>2. CASE ~Holds(t, v)
    BY <1>2, FreeRegIs DEF Reg
<1> QED BY <1>1, <1>2

LEMMA CleanIsTidy == Tidy(Clean)
BY Names DEF Tidy, Clean, Table

\* The table that func leaves.
First == [Clean EXCEPT ![0] = Zero]

LEMMA FirstIs ==
    /\ Tidy(First) /\ 0 \in Regs /\ Zero \in Vars
    /\ \A r \in Regs : First[r] = IF r = 0 THEN Zero ELSE ""
<1>1. 0 \in Regs
    BY Numbers DEF Regs
<1>2. Zero \in Vars
    BY CompilerAssumption
<1>3. \A r \in Regs : First[r] = IF r = 0 THEN Zero ELSE ""
    BY DEF First, Clean
<1>4. First \in Table
    BY <1>1, <1>2, CleanIsTidy DEF First, Tidy, Table
<1> QED BY <1>1, <1>2, <1>3, <1>4, Names DEF Tidy

\* A register that t takes for a variable was loaded, or t0 took it so.
Carried(t0, L, t) ==
    \A r \in Regs : t[r] \in Vars =>
        \/ [var |-> t[r], reg |-> r] \in L
        \/ t0[r] = t[r] /\ \A l \in L : l.reg # r

Functional(L) == \A l, m \in L : l.reg \in Regs /\ l.reg = m.reg => l = m

\* A variable gets in by a load.
LEMMA WithIs ==
    ASSUME NEW t, Tidy(t), NEW v \in Vars
    PROVE  /\ Tidy(With(t, v))
           /\ Reg(t, v) \in RegNum
           /\ Loads(t, v) \subseteq {[var |-> v, reg |-> Reg(t, v)]}
           /\ Functional(Loads(t, v))
           /\ \A l \in Loads(t, v) : l.reg \in Regs => t[l.reg] = "" /\ With(t, v)[l.reg] = v
           /\ Carried(t, Loads(t, v), With(t, v))
<1>1. t \in Table
    BY DEF Tidy
<1>2. PICK q : q = Reg(t, v)
    OBVIOUS
<1>3. q \in RegNum /\ (Holds(t, v) => q \in Regs /\ t[q] = v)
    BY <1>1, <1>2, RegIs
<1>4. ~Holds(t, v) => (q # -1 => q \in Regs /\ t[q] = "")
    BY <1>1, <1>2, RegIs, FreeRegIs
<1>5. With(t, v) = [t EXCEPT ![q] = v]
    BY <1>2 DEF With
<1>6. Loads(t, v) = IF Holds(t, v) THEN {} ELSE {[var |-> v, reg |-> q]}
    BY <1>2 DEF Loads
<1>7. -1 \notin Regs /\ "" \notin Vars
    BY Numbers, Names
<1>8. Tidy(With(t, v))
    <2>1. With(t, v) \in Table
        BY <1>1, <1>5 DEF Table
    <2>2. CASE Holds(t, v)
        <3>1. With(t, v) = t
            BY <1>1, <1>3, <1>5, <2>2 DEF Table
        <3> QED BY <3>1
    <2>3. CASE ~Holds(t, v)
        <3>1. \A r \in Regs : t[r] # v
            BY <2>3 DEF Holds
        <3>2. \A r \in Regs : With(t, v)[r] = IF r = q THEN v ELSE t[r]
            BY <1>1, <1>5 DEF Table
        <3> QED BY <2>1, <3>1, <3>2 DEF Tidy
    <2> QED BY <2>2, <2>3
<1>9. \A r \in Regs : With(t, v)[r] = IF r = q THEN v ELSE t[r]
    BY <1>1, <1>5 DEF Table
<1>10. Carried(t, Loads(t, v), With(t, v))
    <2> SUFFICES ASSUME NEW r \in Regs, With(t, v)[r] \in Vars
                 PROVE  \/ [var |-> With(t, v)[r], reg |-> r] \in Loads(t, v)
                        \/ t[r] = With(t, v)[r] /\ \A l \in Loads(t, v) : l.reg # r
        BY DEF Carried
    <2>1. CASE Holds(t, v)
        BY <1>3, <1>6, <1>9, <2>1
    <2>2. CASE ~Holds(t, v)
        BY <1>6, <1>9, <2>2
    <2> QED BY <2>1, <2>2
<1>11. \A l \in Loads(t, v) : l.reg \in Regs => t[l.reg] = "" /\ With(t, v)[l.reg] = v
    <2>1. CASE Holds(t, v)
        BY <1>6, <2>1
    <2>2. CASE ~Holds(t, v)
        <3> SUFFICES ASSUME NEW l \in Loads(t, v), l.reg \in Regs
                     PROVE  t[l.reg] = "" /\ With(t, v)[l.reg] = v
            OBVIOUS
        <3>1. l.reg = q
            BY <1>6, <2>2
        <3>2. q # -1
            BY <3>1, <1>7
        <3> QED BY <1>4, <1>9, <2>2, <3>1, <3>2
    <2> QED BY <2>1, <2>2
<1>12. Loads(t, v) \subseteq {[var |-> v, reg |-> Reg(t, v)]}
    BY <1>2, <1>6
<1>13. Functional(Loads(t, v))
    BY <1>12 DEF Functional
<1> QED BY <1>2, <1>3, <1>8, <1>10, <1>11, <1>12, <1>13

\* A register that is taken for something else held no variable.
LEMMA TempIs ==
    ASSUME NEW t, Tidy(t)
    PROVE  /\ Tidy(Temp(t))
           /\ FreeReg(t) \in RegNum
           /\ FreeReg(t) \in Regs => t[FreeReg(t)] = "" /\ Temp(t)[FreeReg(t)] = "temp"
           /\ \A r \in Regs : Temp(t)[r] \in Vars => t[r] = Temp(t)[r] /\ r # FreeReg(t)
           /\ \A r \in Regs : t[r] \in Vars => t[r] = Temp(t)[r]
<1>1. t \in Table
    BY DEF Tidy
<1>2. PICK q : q = FreeReg(t)
    OBVIOUS
<1>3. q \in RegNum /\ (q # -1 => q \in Regs /\ t[q] = "")
    BY <1>1, <1>2, FreeRegIs
<1>4. Temp(t) \in Table /\ \A r \in Regs : Temp(t)[r] = IF r = q THEN "temp" ELSE t[r]
    BY <1>1, <1>2 DEF Temp, Table
<1>5. "temp" \notin Vars /\ "" \notin Vars /\ -1 \notin Regs
    BY Numbers, Names
<1> QED BY <1>2, <1>3, <1>4, <1>5 DEF Tidy

\* A variable that was stored is in no register.
LEMMA WithoutIs ==
    ASSUME NEW t, Tidy(t), NEW v \in Vars
    PROVE  /\ Tidy(Without(t, v))
           /\ \A r \in Regs : Without(t, v)[r] \in Vars => t[r] = Without(t, v)[r] /\ t[r] # v
<1>1. t \in Table /\ "" \notin Vars
    BY Names DEF Tidy
<1>2. CASE Holds(t, v)
    <2>1. PICK q \in Regs : q = Reg(t, v) /\ t[q] = v
        BY <1>1, <1>2, RegIs
    <2>2. Without(t, v) \in Table /\ \A r \in Regs : Without(t, v)[r] = IF r = q THEN "" ELSE t[r]
        BY <1>1, <1>2, <2>1 DEF Without, Table
    <2> QED BY <1>1, <2>1, <2>2 DEF Tidy
<1>3. CASE ~Holds(t, v)
    BY <1>3 DEF Without, Holds
<1> QED BY <1>2, <1>3

\* Two variables one after the other.
LEMMA CarriedTwice ==
    ASSUME NEW t, Tidy(t), NEW x \in Vars, NEW y \in Vars
    PROVE  /\ Tidy(With(With(t, x), y))
           /\ Carried(t, Loads(t, x) \cup Loads(With(t, x), y), With(With(t, x), y))
           /\ Functional(Loads(t, x) \cup Loads(With(t, x), y))
           /\ Loads(t, x) \cup Loads(With(t, x), y) \in SUBSET [var : Vars, reg : RegNum]
           /\ Reg(t, x) \in RegNum /\ Reg(With(t, x), y) \in RegNum
<1> DEFINE t1 == With(t, x)
           L1 == Loads(t, x)
           t2 == With(t1, y)
           L2 == Loads(t1, y)
<1>1. /\ Tidy(t1) /\ Reg(t, x) \in RegNum
      /\ L1 \subseteq {[var |-> x, reg |-> Reg(t, x)]}
      /\ \A l \in L1 : l.reg \in Regs => t[l.reg] = "" /\ t1[l.reg] = x
      /\ Carried(t, L1, t1)
    BY WithIs
<1> HIDE DEF t1
<1>2. /\ Tidy(t2) /\ Reg(t1, y) \in RegNum
      /\ L2 \subseteq {[var |-> y, reg |-> Reg(t1, y)]}
      /\ \A l \in L2 : l.reg \in Regs => t1[l.reg] = "" /\ t2[l.reg] = y
      /\ Carried(t1, L2, t2)
    BY <1>1, WithIs
<1> HIDE DEF L1, L2, t2
<1>a. L1 \cup L2 \in SUBSET [var : Vars, reg : RegNum]
    <2>1. [var |-> x, reg |-> Reg(t, x)] \in [var : Vars, reg : RegNum]
        BY <1>1
    <2>2. [var |-> y, reg |-> Reg(t1, y)] \in [var : Vars, reg : RegNum]
        BY <1>2
    <2>3. \A l \in L1 : l \in [var : Vars, reg : RegNum]
        BY <1>1, <2>1
    <2>4. \A l \in L2 : l \in [var : Vars, reg : RegNum]
        BY <1>2, <2>2
    <2> QED BY <2>3, <2>4
<1>3. Carried(t, L1 \cup L2, t2)
    <2> SUFFICES ASSUME NEW r \in Regs, t2[r] \in Vars,
                        [var |-> t2[r], reg |-> r] \notin L1 \cup L2
                 PROVE  t[r] = t2[r] /\ \A l \in L1 \cup L2 : l.reg # r
        BY DEF Carried
    <2>1. t1[r] = t2[r] /\ \A l \in L2 : l.reg # r
        BY <1>2 DEF Carried
    <2>2. t[r] = t1[r] /\ \A l \in L1 : l.reg # r
        BY <1>1, <2>1 DEF Carried
    <2> QED BY <2>1, <2>2
<1>4. Functional(L1 \cup L2)
    <2> SUFFICES ASSUME NEW l \in L1 \cup L2, NEW m \in L1 \cup L2, l.reg \in Regs, l.reg = m.reg
                 PROVE  l = m
        BY DEF Functional
    <2>1. CASE l \in L1 /\ m \in L1
        BY <1>1, <2>1
    <2>2. CASE l \in L2 /\ m \in L2
        BY <1>2, <2>2
    <2>3. ASSUME NEW k \in L1, NEW h \in L2, k.reg \in Regs PROVE k.reg # h.reg
        <3>1. t1[k.reg] = x /\ x # ""
            BY <1>1, <2>3, Names
        <3>2. h.reg \in Regs => t1[h.reg] = ""
            BY <1>2, <2>3
        <3> QED BY <2>3, <3>1, <3>2
    <2> QED BY <2>1, <2>2, <2>3
<1> QED BY <1>1, <1>2, <1>3, <1>4, <1>a DEF t1, t2, L1, L2

LEMMA HighestIn ==
    ASSUME NEW n \in Nat, NEW N \in SUBSET (1 .. n)
    PROVE  Highest(N) \in 0 .. n /\ (Highest(N) # 0 => Highest(N) \in N)
<1>1. CASE N = {}
    BY <1>1 DEF Highest
<1>2. CASE N # {}
    <2>1. N \in SUBSET Nat /\ \A k \in N : k <= n
        <3>1. \A k \in N : k \in 1 .. n
            OBVIOUS
        <3>2. \A k \in N : k \in Nat /\ k <= n
            BY <3>1
        <3> QED BY <3>2
    <2>2. Highest(N) \in N
        BY <1>2, <2>1, HighestOf
    <2>3. Highest(N) \in Nat /\ Highest(N) <= n
        BY <2>1, <2>2
    <2> QED BY <2>2, <2>3
<1> QED BY <1>1, <1>2

-----------------------------------------------------------------------------
(***************************************************************************)
(* What the compiler knows behind a statement, of its code.                *)
(***************************************************************************)
Now == [regi |-> regi, call_set |-> call_set, save_regi |-> save_regi]

Points == Append(was, Now)

Own == {"if", "for2"}

\* The registers that its code writes behind the loads.
Scratch(c, s) ==
    IF s.op = "set" THEN {c.regs[3], c.regs[4]}
    ELSE IF s.op = "copy" THEN {c.regs[2]}
    ELSE IF s.op = "pop" THEN {c.regs[1], c.regs[2]}
    ELSE IF s.op = "?" THEN {c.regs[3]}
    ELSE {}

Untouched(c, s, t) ==
    /\ s.op = "copy" => Len(c.regs) = 2
    /\ \A r \in Regs : t[r] \in Vars =>
           r \notin Scratch(c, s) /\ (s.op \in {"set", "copy", "pop"} => t[r] # s.to)

\* What is in a register from before or by a load: not what was popped.
Kept(c, s, t) == IF s.op = "pop" THEN [t EXCEPT ![c.regs[1]] = ""] ELSE t

Base(b, s) ==
    IF (b.call_set /\ s.op # "pop") \/ s.op \in Resets THEN Clean ELSE b.regi

Places(c, s, t) ==
    /\ \A l \in c.place : s.op \notin {"call", "pop"} /\ (l[1] \notin Own => t = Clean)
    /\ \A k \in 1 .. Len(c.jumps) : c.jumps[k].to[1] \in Own => c.jumps[k].to \in c.place

Good(b, c, s, n) ==
    /\ n.call_set <=> (s.op = "call" \/ (b.call_set /\ s.op = "pop"))
    /\ c.restore = IF b.call_set /\ s.op # "pop" THEN b.save_regi ELSE {}
    /\ n.save_regi = IF s.op = "call" THEN c.saves ELSE b.save_regi
    /\ Functional(c.loads)
    /\ s.op = "pop" => c.loads = {}
    /\ ~n.call_set => /\ Carried(Base(b, s), c.loads, Kept(c, s, n.regi))
                      /\ Untouched(c, s, Kept(c, s, n.regi))
    /\ s.op = "pop" /\ ~n.call_set /\ c.regs[1] \in Regs =>
           n.regi[c.regs[1]] = s.to /\ c.regs[1] # c.regs[2]
    /\ Places(c, s, n.regi)

CodeInv ==
    \A j \in 1 .. Len(code) :
        /\ j <= Len(source) => Good(Points[j], code[j], source[j], Points[j + 1])
        /\ j > Len(source) => code[j].place = {}
        /\ phase # "broken" => -1 \notin Used(code[j])

\* The labels that a statement jumps to itself are its own.
LabelInv ==
    \A j \in 1 .. Len(code) :
        /\ \A l \in code[j].place :
              /\ l[1] = "if" => l[2] <= Len(ifs)
              /\ l[1] = "for2" => l[2] \in 1 .. Len(fors) /\ fors[l[2]].for_def_set
        /\ \A i \in 1 .. Len(code) : \A l \in code[i].place \cap code[j].place :
              l[1] \in Own => i = j

\* Arguments are popped first, what a function returns is popped at once,
\* and nothing else is.
Popped(p) ==
    \A j \in 0 .. Len(p) :
        (j + 1 < Program!Body(p) \/ (j > 0 /\ p[j].op = "call" /\ p[j].ret))
            <=> (j < Len(p) /\ p[j + 1].op = "pop")

PhaseInv ==
    /\ source \in Seq(Statement)
    /\ Points[1] = [regi |-> First, call_set |-> FALSE, save_regi |-> {}]
    /\ phase = "compile" => line <= Len(source) + 1
    /\ phase \in {"run", "done"} =>
          line = Len(source) + 2 /\ ("nested" \in Rules => Popped(source))
    /\ phase \notin {"run", "done"} =>
          /\ pc = 1 /\ Len(stack) = Program!Body(source) - 1 /\ regs[0] = mem[Zero]
    /\ phase \in {"run", "done"} => Labelled

IInv ==
    /\ TypeOK /\ Tidy(regi)
    /\ PhaseInv /\ CodeInv /\ LabelInv
    /\ Coherent
    /\ "nested" \in Rules => StackBalanced

-----------------------------------------------------------------------------
(***************************************************************************)
(* One more statement is compiled.                                         *)
(***************************************************************************)

\* What the step does to the tables and labels.
LabelStep(item) ==
    /\ Len(ifs) <= Len(ifs')
    /\ \A k \in 1 .. Len(fors) :
          k <= Len(fors') /\ (fors[k].for_def_set => fors'[k].for_def_set)
    /\ \A l \in item.place :
          /\ l[1] = "if" => l[2] \in Nat /\ Len(ifs) < l[2] /\ l[2] <= Len(ifs')
          /\ l[1] = "for2" => /\ l[2] \in 1 .. Len(fors) /\ ~fors[l[2]].for_def_set
                              /\ fors'[l[2]].for_def_set

Tables ==
    /\ ifs \in Seq([open : BOOLEAN, plus : BOOLEAN, else_set : BOOLEAN])
    /\ whiles \in Seq(BOOLEAN) /\ fors \in Seq([open : BOOLEAN, for_def_set : BOOLEAN])
    /\ switches \in Seq(BOOLEAN)

LEMMA PointsAt ==
    ASSUME TypeOK
    PROVE  /\ Len(Points) = line
           /\ Points[line] = Now
           /\ \A j \in 1 .. line - 1 : Points[j] = was[j]
<1> DEFINE P == [regi : Table, call_set : BOOLEAN, save_regi : SUBSET Regs]
<1>1. was \in Seq(P) /\ Len(was) = line - 1 /\ line \in Nat
    BY DEF TypeOK
<1> HIDE DEF P
<1> QED BY <1>1 DEF Points

LEMMA PointsPut ==
    ASSUME TypeOK, NEW t, NEW item, Put(t, item)
    PROVE  /\ \A j \in 1 .. line : Points'[j] = Points[j]
           /\ Points'[line + 1] = Now'
<1> DEFINE P == [regi : Table, call_set : BOOLEAN, save_regi : SUBSET Regs]
<1>1. was \in Seq(P) /\ Len(was) = line - 1 /\ line \in Nat \ {0}
    BY DEF TypeOK
<1>2. was' = Append(was, Now)
    BY DEF Put, Now
<1>3. Now \in P
    BY DEF TypeOK, Now
<1> HIDE DEF P
<1>4. was' \in Seq(P) /\ Len(was') = line /\ was'[line] = Now
    BY <1>1, <1>2, <1>3
<1>5. \A j \in 1 .. line - 1 : was'[j] = was[j]
    BY <1>1, <1>2, <1>3
<1>6. Points' = Append(was', Now')
    BY DEF Points
<1>7. Points'[line + 1] = Now' /\ \A j \in 1 .. line : Points'[j] = was'[j]
    BY <1>1, <1>4, <1>6
<1>8. \A j \in 1 .. line - 1 : Points[j] = was[j]
    BY PointsAt
<1>9. Points[line] = Now
    BY PointsAt
<1> QED BY <1>1, <1>4, <1>5, <1>7, <1>8, <1>9

LEMMA PutTypes ==
    ASSUME TypeOK, phase = "compile", line \in 1 .. Len(source) + 1, source \in Seq(Statement),
           NEW t \in Table, NEW item \in Item, Put(t, item),
           call_set' \in BOOLEAN, save_regi' \in SUBSET Regs, Tables'
    PROVE  TypeOK'
<1> DEFINE P == [regi : Table, call_set : BOOLEAN, save_regi : SUBSET Regs]
<1>1. was \in Seq(P) /\ Len(was) = line - 1 /\ line \in Nat
    BY DEF TypeOK
<1>2. Now \in P
    BY DEF TypeOK, Now
<1>3. was' = Append(was, Now)
    BY DEF Put, Now
<1>4. was' \in Seq(P) /\ Len(was') = line' - 1
    <2> HIDE DEF P
    <2> QED BY <1>1, <1>2, <1>3 DEF Put
<1>5. code' \in Seq(Item) /\ Len(code') = line' - 1
    <2>1. code \in Seq(Item) /\ Len(code) = line - 1 /\ code' = Append(code, item) /\ line' = line + 1
        BY DEF TypeOK, Put
    <2> QED BY <1>1, <2>1
<1>6. line' \in 1 .. Len(source') + 2
    <2>1. line' = line + 1 /\ source' = source
        BY DEF Put
    <2>2. Len(source) \in Nat
        OBVIOUS
    <2> QED BY <2>1, <2>2
<1>7. pc' \in 1 .. Len(source') + 1
    BY DEF TypeOK, Put, machine
<1>8. /\ regs' \in [Regs -> Values \cup {None}]
      /\ mem' \in [Vars -> Values \cup {None}]
      /\ stack' \in Seq(Values \cup {None})
    BY DEF TypeOK, Put, machine
<1>9. phase' \in {"compile", "run", "done", "error", "broken"}
    BY DEF Put
<1>10. regi' \in Table
    BY DEF Put
<1> QED BY <1>4, <1>5, <1>6, <1>7, <1>8, <1>9, <1>10 DEF TypeOK, Tables

LEMMA PutStep ==
    ASSUME IInv, phase = "compile", line <= Len(source),
           NEW t, Tidy(t), NEW item \in Item, Put(t, item),
           call_set' \in BOOLEAN, save_regi' \in SUBSET Regs, Tables',
           Good(Now, item, S, Now'), LabelStep(item)
    PROVE  IInv'
<1>1. /\ line \in Nat \ {0} /\ line <= Len(source) /\ Len(source) \in Nat
      /\ source \in Seq(Statement) /\ line \in 1 .. Len(source) + 1
    BY DEF IInv, TypeOK, PhaseInv
<1>2. TypeOK /\ t \in Table
    BY DEF IInv, Tidy
<1>3. TypeOK'
    BY <1>1, <1>2, PutTypes
<1>4. /\ code \in Seq(Item) /\ Len(code) = line - 1
      /\ code' = Append(code, item) /\ line' = line + 1 /\ source' = source
      /\ phase' = (IF -1 \in Used(item) THEN "broken" ELSE phase) /\ pc' = pc /\ stack' = stack
      /\ regs' = regs /\ mem' = mem
    BY DEF IInv, TypeOK, Put, machine
<1>5. /\ Len(code') = line /\ code'[line] = item
      /\ \A j \in 1 .. line - 1 : code'[j] = code[j]
    BY <1>1, <1>4
<1>6. (\A j \in 1 .. line : Points'[j] = Points[j]) /\ Points'[line + 1] = Now'
    BY <1>2, PointsPut
<1>7. Points[line] = Now
    BY <1>2, PointsAt
<1>8. CodeInv'
    <2> SUFFICES ASSUME NEW j \in 1 .. line
                 PROVE  /\ j <= Len(source) => Good(Points'[j], code'[j], source[j], Points'[j + 1])
                        /\ j > Len(source) => code'[j].place = {}
                        /\ phase' # "broken" => -1 \notin Used(code'[j])
        BY <1>4, <1>5 DEF CodeInv
    <2>1. CASE j = line
        <3>1. S = source[line]
            BY <1>1 DEF S
        <3> QED BY <1>1, <1>4, <1>5, <1>6, <1>7, <2>1, <3>1
    <2>2. CASE j # line
        <3>1. j \in 1 .. line - 1 /\ j + 1 \in 1 .. line
            BY <1>1, <2>2
        <3>2. /\ j <= Len(source) => Good(Points[j], code[j], source[j], Points[j + 1])
              /\ j > Len(source) => code[j].place = {}
              /\ -1 \notin Used(code[j])
            BY <1>4, <3>1 DEF IInv, CodeInv
        <3>3. Points'[j] = Points[j] /\ Points'[j + 1] = Points[j + 1] /\ code'[j] = code[j]
            BY <1>5, <1>6, <3>1
        <3> QED BY <3>2, <3>3
    <2> QED BY <2>1, <2>2
<1>9. LabelInv'
    <2>1. ASSUME NEW j \in 1 .. line, NEW l \in code'[j].place
          PROVE  /\ l[1] = "if" => l[2] <= Len(ifs')
                 /\ l[1] = "for2" => l[2] \in 1 .. Len(fors') /\ fors'[l[2]].for_def_set
        <3>1. CASE j = line
            <4>1. Len(fors) <= Len(fors') /\ Len(fors) \in Nat /\ Len(fors') \in Nat
                <5>1. Len(fors) \in Nat /\ Len(fors') \in Nat
                    BY DEF IInv, TypeOK, Tables
                <5>2. Len(fors) > 0 => Len(fors) <= Len(fors')
                    BY <5>1 DEF LabelStep
                <5> QED BY <5>1, <5>2
            <4>2. l \in item.place
                BY <1>5, <2>1, <3>1
            <4> QED BY <4>1, <4>2 DEF LabelStep
        <3>2. CASE j # line
            <4>1. j \in 1 .. Len(code) /\ l \in code[j].place
                BY <1>1, <1>4, <1>5, <2>1, <3>2
            <4>2. Len(ifs) \in Nat /\ Len(ifs') \in Nat /\ Len(ifs) <= Len(ifs')
                BY DEF IInv, TypeOK, Tables, LabelStep
            <4>3. code[j] \in Item
                BY <1>4, <4>1
            <4>4. l[2] \in Nat
                BY <4>1, <4>3 DEF Item, Label
            <4>5. /\ l[1] = "if" => l[2] <= Len(ifs)
                  /\ l[1] = "for2" => l[2] \in 1 .. Len(fors) /\ fors[l[2]].for_def_set
                BY <4>1 DEF IInv, LabelInv
            <4>6. l[1] = "for2" => l[2] <= Len(fors') /\ fors'[l[2]].for_def_set
                BY <4>5 DEF LabelStep
            <4>7. Len(fors') \in Nat
                BY DEF Tables
            <4> QED BY <4>2, <4>4, <4>5, <4>6, <4>7
        <3> QED BY <3>1, <3>2
    <2>2. ASSUME NEW i \in 1 .. line - 1, NEW l \in code[i].place \cap item.place, l[1] \in Own
          PROVE  FALSE
        <3>1. /\ l[1] = "if" => l[2] <= Len(ifs)
              /\ l[1] = "for2" => fors[l[2]].for_def_set
            BY <1>4, <2>2 DEF IInv, LabelInv
        <3>2. /\ l[1] = "if" => l[2] \in Nat /\ Len(ifs) < l[2]
              /\ l[1] = "for2" => ~fors[l[2]].for_def_set
            BY <2>2 DEF LabelStep
        <3>3. Len(ifs) \in Nat
            BY DEF IInv, TypeOK
        <3> QED BY <2>2, <3>1, <3>2, <3>3 DEF Own
    <2>3. ASSUME NEW i \in 1 .. line, NEW j \in 1 .. line,
                 NEW l \in code'[i].place \cap code'[j].place, l[1] \in Own, i # j
          PROVE  FALSE
        <3>1. CASE i # line /\ j # line
            <4>1. i \in 1 .. Len(code) /\ j \in 1 .. Len(code) /\ l \in code[i].place \cap code[j].place
                BY <1>1, <1>4, <1>5, <2>3, <3>1
            <4> QED BY <2>3, <4>1 DEF IInv, LabelInv
        <3>2. CASE i = line
            <4>1. j \in 1 .. line - 1 /\ l \in code[j].place \cap item.place
                BY <1>1, <1>5, <2>3, <3>2
            <4> QED BY <2>2, <2>3, <4>1
        <3>3. CASE j = line
            <4>1. i \in 1 .. line - 1 /\ l \in code[i].place \cap item.place
                BY <1>1, <1>5, <2>3, <3>3
            <4> QED BY <2>2, <2>3, <4>1
        <3> QED BY <3>1, <3>2, <3>3
    <2> QED BY <1>5, <2>1, <2>3 DEF LabelInv
<1>10. PhaseInv'
    <2>1. Points'[1] = Points[1]
        BY <1>1, <1>6
    <2>2. phase' \notin {"run", "done"}
        BY <1>4
    <2>3. line' <= Len(source') + 1
        BY <1>1, <1>4
    <2> QED BY <1>1, <1>4, <2>1, <2>2, <2>3 DEF IInv, PhaseInv
<1>11. Coherent' /\ StackBalanced' /\ Tidy(regi')
    BY <1>4 DEF Coherent, StackBalanced, Put
<1> QED BY <1>3, <1>8, <1>9, <1>10, <1>11 DEF IInv

LEMMA EmitKept ==
    ASSUME IInv, phase = "compile", line <= Len(source), S.op # "call",
           NEW t, Tidy(t), NEW item \in Item, Emit(t, item),
           item.restore = Bare.restore, Functional(item.loads),
           S.op = "pop" => item.loads = {},
           Carried(Before, item.loads, Kept(item, S, t)), Untouched(item, S, Kept(item, S, t)),
           S.op = "pop" /\ item.regs[1] \in Regs =>
               t[item.regs[1]] = S.to /\ item.regs[1] # item.regs[2],
           Places(item, S, t), Tables', LabelStep(item)
    PROVE  IInv'
<1>1. /\ Put(t, item) /\ save_regi' = save_regi /\ regi' = t
      /\ call_set' = (call_set /\ ~Reload)
    BY DEF Emit, Put
<1>2. TypeOK
    BY DEF IInv
<1>3. call_set \in BOOLEAN /\ save_regi \in SUBSET Regs
    BY <1>2 DEF TypeOK
<1>4. call_set' \in BOOLEAN /\ save_regi' \in SUBSET Regs
    BY <1>1, <1>3
<1>5. /\ Now.call_set = call_set /\ Now.regi = regi /\ Now.save_regi = save_regi
      /\ Now'.call_set = call_set' /\ Now'.regi = t /\ Now'.save_regi = save_regi
    BY <1>1 DEF Now
<1>6. Base(Now, S) = Before
    BY <1>5 DEF Base, Before, Reload
<1>7. item.restore = IF Now.call_set /\ S.op # "pop" THEN Now.save_regi ELSE {}
    BY <1>5 DEF Bare, Reload
<1>8. Now'.call_set <=> (S.op = "call" \/ (Now.call_set /\ S.op = "pop"))
    BY <1>1, <1>5 DEF Reload
<1>9. Good(Now, item, S, Now')
    BY <1>5, <1>6, <1>7, <1>8 DEF Good
<1> QED BY <1>1, <1>4, <1>9, PutStep

LEMMA EmitStep ==
    ASSUME IInv, phase = "compile", line <= Len(source), S.op \notin {"call", "pop"},
           NEW t, Tidy(t), NEW item \in Item, Emit(t, item),
           item.restore = Bare.restore, Functional(item.loads),
           Carried(Before, item.loads, t), Untouched(item, S, t), Places(item, S, t),
           Tables', LabelStep(item)
    PROVE  IInv'
<1>1. Kept(item, S, t) = t
    BY DEF Kept
<1> QED BY <1>1, EmitKept

LEMMA StatementIs ==
    ASSUME IInv, NEW ops, Compiling(ops)
    PROVE  /\ phase = "compile" /\ line \in 1 .. Len(source) /\ S \in Statement /\ S.op \in ops
           /\ TypeOK /\ Tables /\ Tidy(Before) /\ Tidy(regi)
           /\ Len(ifs) \in Nat /\ Len(fors) \in Nat
<1>1. TypeOK /\ source \in Seq(Statement) /\ Tidy(regi)
    BY DEF IInv, PhaseInv
<1>2. line \in 1 .. Len(source)
    BY <1>1 DEF Compiling, TypeOK
<1>3. S = source[line]
    BY <1>2 DEF S
<1>4. S \in Statement
    BY <1>1, <1>2, <1>3
<1>5. Tidy(Before)
    BY <1>1, CleanIsTidy DEF Before
<1>6. Tables /\ Len(ifs) \in Nat /\ Len(fors) \in Nat
    BY <1>1 DEF TypeOK, Tables
<1> QED BY <1>1, <1>2, <1>4, <1>5, <1>6 DEF Compiling

LEMMA ArgsAre ==
    ASSUME NEW s \in Statement
    PROVE  /\ s.op \in {"set", "?"} => s.args[1] \in Vars /\ s.args[2] \in Vars
           /\ s.op \in {"copy", "if", "if+", "while", "for"} => s.args[1] \in Vars
           /\ s.op = "call" => s.args = <<>> \/ (s.args # <<>> /\ s.args[1] \in Vars)
           /\ s.op \in {"set", "copy", "pop"} => s.to \in Vars
           /\ s.ret \in BOOLEAN /\ (s.op # "call" => ~s.ret)
<1>0. \A q \in One : q # <<>> /\ q[1] \in Vars
    BY DEF One
<1>1. CASE s \in [op : {"set"}, args : Vars \X Vars, to : Vars, ret : {FALSE}]
    BY <1>1
<1>2. CASE s \in [op : {"copy"}, args : One, to : Vars, ret : {FALSE}]
    BY <1>0, <1>2
<1>3. CASE s \in [op : {"call"}, args : One \cup {<<>>}, to : {None}, ret : BOOLEAN]
    <2>1. s.args \in One \/ s.args = <<>>
        BY <1>3
    <2>2. s.op = "call" /\ s.ret \in BOOLEAN
        BY <1>3
    <2> QED BY <1>0, <2>1, <2>2
<1>4. CASE s \in [op : {"pop"}, args : {<<>>}, to : Vars, ret : {FALSE}]
    BY <1>4
<1>5. CASE s \in Word({"if", "if+", "while", "for"}, One)
    <2>1. s.args \in One /\ s.op \in {"if", "if+", "while", "for"} /\ s.ret = FALSE
        BY <1>5 DEF Word
    <2> QED BY <1>0, <2>1
<1>6. CASE s \in Word({"?"}, Vars \X Vars)
    BY <1>6 DEF Word
<1>7. CASE s \in Word({"else", "endif", "break", "do", "for-loop", "next", "switch", "switchend"}, {<<>>})
    BY <1>7 DEF Word
<1> QED BY <1>1, <1>2, <1>3, <1>4, <1>5, <1>6, <1>7 DEF Statement

LEMMA BareIs ==
    ASSUME TypeOK
    PROVE  /\ Bare \in Item
           /\ Bare.loads = {} /\ Bare.regs = <<>> /\ Bare.saves = {}
           /\ Bare.jumps = <<>> /\ Bare.place = {}
BY DEF Bare, TypeOK, Item

LEMMA SameTables ==
    ASSUME Tables, Len(ifs) \in Nat, Len(fors) \in Nat, UNCHANGED blocks,
           NEW item, item.place = {}
    PROVE  Tables' /\ LabelStep(item)
BY DEF Tables, LabelStep, blocks

LEMMA SetStep ==
    ASSUME IInv, CompileSet
    PROVE  IInv'
<1> DEFINE x == S.args[1]
           y == S.args[2]
           t1 == With(Before, x)
           t2 == With(t1, y)
           t3 == Temp(t2)
           t == Without(Temp(t3), S.to)
           L == Loads(Before, x) \cup Loads(t1, y)
           R == <<Reg(Before, x), Reg(t1, y), FreeReg(t2), FreeReg(t3)>>
           item == [Bare EXCEPT !.loads = L, !.regs = R]
<1>1. /\ phase = "compile" /\ line \in 1 .. Len(source) /\ S \in Statement /\ S.op = "set"
      /\ TypeOK /\ Tables /\ Tidy(Before) /\ Len(ifs) \in Nat /\ Len(fors) \in Nat
    <2>1. Compiling({"set"})
        BY DEF CompileSet
    <2> QED BY <2>1, StatementIs
<1>2. x \in Vars /\ y \in Vars /\ S.to \in Vars
    BY <1>1, ArgsAre
<1>3. Emit(t, item) /\ UNCHANGED blocks
    BY DEF CompileSet
<1> HIDE DEF x, y
<1>4. /\ Tidy(t2) /\ Carried(Before, L, t2) /\ Functional(L)
      /\ L \in SUBSET [var : Vars, reg : RegNum]
      /\ Reg(Before, x) \in RegNum /\ Reg(t1, y) \in RegNum
    BY <1>1, <1>2, CarriedTwice
<1> HIDE DEF t2, L
<1>5. /\ Tidy(t3) /\ FreeReg(t2) \in RegNum
      /\ \A r \in Regs : t3[r] \in Vars => t2[r] = t3[r] /\ r # FreeReg(t2)
    BY <1>4, TempIs
<1> HIDE DEF t3
<1>6. /\ Tidy(Temp(t3)) /\ FreeReg(t3) \in RegNum
      /\ \A r \in Regs : Temp(t3)[r] \in Vars => t3[r] = Temp(t3)[r] /\ r # FreeReg(t3)
    BY <1>5, TempIs
<1>7. /\ Tidy(t)
      /\ \A r \in Regs : t[r] \in Vars => Temp(t3)[r] = t[r] /\ t[r] # S.to
    BY <1>2, <1>6, WithoutIs
<1> HIDE DEF t
<1>8. \A r \in Regs : t[r] \in Vars =>
          t2[r] = t[r] /\ r # FreeReg(t2) /\ r # FreeReg(t3) /\ t[r] # S.to
    BY <1>5, <1>6, <1>7
<1>9. Carried(Before, L, t)
    BY <1>4, <1>8 DEF Carried
<1>10. R \in Seq(RegNum) /\ R[3] = FreeReg(t2) /\ R[4] = FreeReg(t3)
    BY <1>4, <1>5, <1>6
<1> HIDE DEF R
<1>11. /\ item \in Item /\ item.loads = L /\ item.regs = R /\ item.restore = Bare.restore
       /\ item.jumps = <<>> /\ item.place = {}
    BY <1>1, <1>4, <1>10, BareIs DEF Item
<1> HIDE DEF item
<1>12. Untouched(item, S, t)
    BY <1>1, <1>8, <1>10, <1>11 DEF Untouched, Scratch
<1>13. Places(item, S, t)
    BY <1>11 DEF Places
<1>14. Tables' /\ LabelStep(item)
    BY <1>1, <1>3, <1>11, SameTables
<1> QED BY <1>1, <1>3, <1>4, <1>7, <1>9, <1>11, <1>12, <1>13, <1>14, EmitStep

LEMMA CopyStep ==
    ASSUME IInv, CompileCopy
    PROVE  IInv'
<1> DEFINE x == S.args[1]
           y == S.to
           t1 == Temp(Before)
           address == FreeReg(Before)
           t2 == With(t1, y)
           t3 == Without(t2, y)
           t == [t3 EXCEPT ![address] = ""]
           q == Reg(t1, y)
           L == IF Holds(t1, y) THEN {} ELSE {[var |-> x, reg |-> q]}
           R == <<q, address>>
           item == [Bare EXCEPT !.loads = L, !.regs = R]
<1>1. /\ phase = "compile" /\ line \in 1 .. Len(source) /\ S \in Statement /\ S.op = "copy"
      /\ TypeOK /\ Tables /\ Tidy(Before) /\ Len(ifs) \in Nat /\ Len(fors) \in Nat
    <2>1. Compiling({"copy"})
        BY DEF CompileCopy
    <2> QED BY <2>1, StatementIs
<1>2. x \in Vars /\ y \in Vars
    BY <1>1, ArgsAre
<1>3. Emit(t, item) /\ UNCHANGED blocks
    BY DEF CompileCopy
<1> HIDE DEF x, y
<1>4. /\ Tidy(t1) /\ address \in RegNum
      /\ \A r \in Regs : t1[r] \in Vars => Before[r] = t1[r] /\ r # address
    BY <1>1, TempIs
<1> HIDE DEF t1, address
<1>5. /\ Tidy(t2) /\ q \in RegNum
      /\ Loads(t1, y) \subseteq {[var |-> y, reg |-> q]}
      /\ \A l \in Loads(t1, y) : l.reg \in Regs => t2[l.reg] = y
      /\ Carried(t1, Loads(t1, y), t2)
    BY <1>2, <1>4, WithIs
<1>6. Loads(t1, y) = IF Holds(t1, y) THEN {} ELSE {[var |-> y, reg |-> q]}
    BY DEF Loads
<1> HIDE DEF q, t2
<1>7. /\ Tidy(t3)
      /\ \A r \in Regs : t3[r] \in Vars => t2[r] = t3[r] /\ t3[r] # y
    BY <1>2, <1>5, WithoutIs
<1> HIDE DEF t3
<1>8. t3 \in Table /\ "" \notin Vars
    BY <1>7, Names DEF Tidy
<1>9. t \in Table /\ \A r \in Regs : t[r] = IF r = address THEN "" ELSE t3[r]
    BY <1>8 DEF Table
<1> HIDE DEF t
<1>10. Tidy(t)
    BY <1>7, <1>8, <1>9 DEF Tidy
<1>11. \A r \in Regs : t[r] \in Vars =>
          /\ Before[r] = t[r] /\ t[r] # y /\ r # address
          /\ \A l \in L : l.reg # r
    <2> SUFFICES ASSUME NEW r \in Regs, t[r] \in Vars
                 PROVE  /\ Before[r] = t[r] /\ t[r] # y /\ r # address
                        /\ \A l \in L : l.reg # r
        OBVIOUS
    <2>1. r # address /\ t3[r] = t[r] /\ t2[r] = t[r] /\ t[r] # y
        BY <1>7, <1>8, <1>9
    <2>2. [var |-> t2[r], reg |-> r] \notin Loads(t1, y)
        BY <1>6, <2>1
    <2>3. t1[r] = t2[r] /\ \A l \in Loads(t1, y) : l.reg # r
        BY <1>5, <2>1, <2>2 DEF Carried
    <2>4. \A l \in L : l.reg # r
        <3>1. CASE Holds(t1, y)
            BY <3>1
        <3>2. CASE ~Holds(t1, y)
            <4>1. [var |-> y, reg |-> q] \in Loads(t1, y)
                BY <1>6, <3>2
            <4>2. [var |-> y, reg |-> q].reg # r
                BY <2>3, <4>1
            <4>3. q # r
                BY <4>2
            <4> QED BY <3>2, <4>3
        <3> QED BY <3>1, <3>2
    <2> QED BY <1>4, <2>1, <2>3, <2>4
<1>12. Carried(Before, L, t)
    BY <1>11 DEF Carried
<1>13. Functional(L)
    BY DEF Functional
<1>14. L \in SUBSET [var : Vars, reg : RegNum]
    BY <1>2, <1>5
<1>15. R \in Seq(RegNum) /\ R[2] = address /\ Len(R) = 2
    BY <1>4, <1>5
<1> HIDE DEF R, L
<1>16. /\ item \in Item /\ item.loads = L /\ item.regs = R /\ item.restore = Bare.restore
       /\ item.jumps = <<>> /\ item.place = {}
    BY <1>1, <1>14, <1>15, BareIs DEF Item
<1> HIDE DEF item
<1>17. Untouched(item, S, t)
    BY <1>1, <1>11, <1>15, <1>16 DEF Untouched, Scratch, y
<1>18. Places(item, S, t)
    BY <1>16 DEF Places
<1>19. Tables' /\ LabelStep(item)
    BY <1>1, <1>3, <1>16, SameTables
<1> QED BY <1>1, <1>3, <1>10, <1>12, <1>13, <1>16, <1>17, <1>18, <1>19, EmitStep

LEMMA PopStep ==
    ASSUME IInv, CompilePop
    PROVE  IInv'
<1> DEFINE y == S.to
           t1 == With(Before, y)
           target == Reg(Before, y)
           t == [t1 EXCEPT ![target] = ""]
           R == <<target, FreeReg(t1)>>
           item == [Bare EXCEPT !.regs = R]
<1>1. /\ phase = "compile" /\ line \in 1 .. Len(source) /\ S \in Statement /\ S.op = "pop"
      /\ TypeOK /\ Tables /\ Tidy(Before) /\ Len(ifs) \in Nat /\ Len(fors) \in Nat
    <2>1. Compiling({"pop"})
        BY DEF CompilePop
    <2> QED BY <2>1, StatementIs
<1>2. y \in Vars
    BY <1>1, ArgsAre
<1>3. Emit(t1, item) /\ UNCHANGED blocks
    BY DEF CompilePop
<1> HIDE DEF y
<1>4. /\ Tidy(t1) /\ target \in RegNum
      /\ Loads(Before, y) \subseteq {[var |-> y, reg |-> target]}
      /\ Carried(Before, Loads(Before, y), t1)
    BY <1>1, <1>2, WithIs
<1>5. \A r \in Regs : t1[r] = IF r = target THEN y ELSE Before[r]
    BY <1>1 DEF With, Tidy, Table
<1> HIDE DEF t1, target
<1>6. FreeReg(t1) \in RegNum /\ (FreeReg(t1) \in Regs => t1[FreeReg(t1)] = "")
    BY <1>4, TempIs
<1>7. t1 \in Table /\ "" \notin Vars
    BY <1>4, Names DEF Tidy
<1>8. t \in Table /\ \A r \in Regs : t[r] = IF r = target THEN "" ELSE t1[r]
    BY <1>7 DEF Table
<1>9. t = [t1 EXCEPT ![target] = ""]
    OBVIOUS
<1> HIDE DEF t
<1>10. \A r \in Regs : t[r] \in Vars =>
           /\ t1[r] = t[r] /\ Before[r] = t[r] /\ r # target /\ r # FreeReg(t1)
    BY <1>5, <1>6, <1>7, <1>8
<1>11. ASSUME NEW r \in Regs, t[r] \in Vars PROVE t[r] # y
    <2>1. t1[r] \in Vars /\ t1[r] = t[r] /\ r # target
        BY <1>10, <1>11
    <2>2. CASE Holds(Before, y)
        <3>1. target \in Regs /\ Before[target] = y
            BY <1>1, <1>2, <2>2, RegIs DEF Tidy, target
        <3>2. t1[target] = y
            BY <1>5, <3>1
        <3> QED BY <1>4, <2>1, <3>1, <3>2 DEF Tidy
    <2>3. CASE ~Holds(Before, y)
        <3>1. Before[r] # y
            BY <2>3 DEF Holds
        <3> QED BY <1>10, <1>11, <3>1
    <2> QED BY <2>2, <2>3
<1>12. Carried(Before, {}, t)
    BY <1>10 DEF Carried
<1>13. R \in Seq(RegNum) /\ R[1] = target /\ R[2] = FreeReg(t1)
    <2>1. target \in RegNum /\ FreeReg(t1) \in RegNum
        BY <1>4, <1>6
    <2> QED BY <2>1
<1> HIDE DEF R
<1>14. /\ item \in Item /\ item.loads = {} /\ item.regs = R /\ item.restore = Bare.restore
       /\ item.jumps = <<>> /\ item.place = {}
    BY <1>1, <1>13, BareIs DEF Item
<1> HIDE DEF item
<1>15. Kept(item, S, t1) = t
    BY <1>1, <1>9, <1>13, <1>14 DEF Kept
<1>16. Untouched(item, S, t)
    BY <1>1, <1>10, <1>11, <1>13, <1>14 DEF Untouched, Scratch, y
<1>17. target \in Regs => t1[target] = y /\ target # FreeReg(t1)
    BY <1>2, <1>5, <1>6, <1>7
<1>18. Places(item, S, t1) /\ Functional(item.loads)
    BY <1>14 DEF Places, Functional
<1>19. Tables' /\ LabelStep(item)
    BY <1>1, <1>3, <1>14, SameTables
<1>20. Carried(Before, item.loads, t) /\ line <= Len(source) /\ S.op # "call"
    BY <1>1, <1>12, <1>14
<1>21. item.regs[1] \in Regs => t1[item.regs[1]] = S.to /\ item.regs[1] # item.regs[2]
    BY <1>13, <1>14, <1>17 DEF y
<1> QED BY <1>1, <1>3, <1>4, <1>14, <1>15, <1>16, <1>18, <1>19, <1>20, <1>21, EmitKept

LEMMA CallStep ==
    ASSUME IInv, CompileCall
    PROVE  IInv'
<1> DEFINE saves == {r \in Regs : Before[r] # ""}
           empty == [Bare EXCEPT !.saves = saves]
           x == S.args[1]
           t1 == Without(Before, x)
           t2 == With(t1, x)
           full == [empty EXCEPT !.loads = Loads(t1, x)]
<1>1. /\ phase = "compile" /\ line \in 1 .. Len(source) /\ S \in Statement /\ S.op = "call"
      /\ TypeOK /\ Tables /\ Tidy(Before) /\ Len(ifs) \in Nat /\ Len(fors) \in Nat
    <2>1. Compiling({"call"})
        BY DEF CompileCall
    <2> QED BY <2>1, StatementIs
<1>2. call_set' = TRUE /\ save_regi' = saves /\ UNCHANGED blocks
    BY DEF CompileCall
<1>3. /\ S.args = <<>> => Put(Before, empty)
      /\ S.args # <<>> => Put(t2, full)
    BY DEF CompileCall
<1>4. saves \in SUBSET Regs
    OBVIOUS
<1> HIDE DEF saves
<1>5. /\ empty \in Item /\ empty.loads = {} /\ empty.restore = Bare.restore
      /\ empty.jumps = <<>> /\ empty.place = {} /\ empty.saves = saves
    BY <1>1, <1>4, BareIs DEF Item
<1>6. ASSUME NEW t, Tidy(t), NEW item \in Item, Put(t, item),
             Functional(item.loads), item.restore = Bare.restore,
             item.jumps = <<>>, item.place = {}, item.saves = saves
      PROVE  IInv'
    <2>1. call_set' \in BOOLEAN /\ save_regi' \in SUBSET Regs
        BY <1>2, <1>4
    <2>2. /\ Now.call_set = call_set /\ Now.regi = regi /\ Now.save_regi = save_regi
          /\ Now'.call_set = TRUE /\ Now'.save_regi = saves
        BY <1>2 DEF Now
    <2>3. item.restore = IF Now.call_set /\ S.op # "pop" THEN Now.save_regi ELSE {}
        BY <1>6, <2>2 DEF Bare, Reload
    <2>4. Places(item, S, Now'.regi)
        BY <1>6 DEF Places
    <2>5. Good(Now, item, S, Now')
        BY <1>1, <1>6, <2>2, <2>3, <2>4 DEF Good
    <2>6. Tables' /\ LabelStep(item)
        BY <1>1, <1>2, <1>6, SameTables
    <2> QED BY <1>1, <1>6, <2>1, <2>5, <2>6, PutStep
<1>7. CASE S.args = <<>>
    <2>1. Functional(empty.loads)
        BY <1>5 DEF Functional
    <2> HIDE DEF empty
    <2> QED BY <1>1, <1>3, <1>5, <1>6, <1>7, <2>1
<1>8. CASE S.args # <<>>
    <2>1. x \in Vars
        BY <1>1, <1>8, ArgsAre
    <2> HIDE DEF x
    <2>2. Tidy(t1)
        BY <1>1, <2>1, WithoutIs
    <2> HIDE DEF t1
    <2>3. /\ Tidy(t2) /\ Functional(Loads(t1, x)) /\ Reg(t1, x) \in RegNum
          /\ Loads(t1, x) \subseteq {[var |-> x, reg |-> Reg(t1, x)]}
        BY <2>1, <2>2, WithIs
    <2>4. Loads(t1, x) \in SUBSET [var : Vars, reg : RegNum]
        BY <2>1, <2>3
    <2> HIDE DEF empty, t2
    <2>5. /\ full \in Item /\ full.loads = Loads(t1, x) /\ full.restore = Bare.restore
          /\ full.jumps = <<>> /\ full.place = {} /\ full.saves = saves
        BY <1>5, <2>4 DEF Item
    <2> HIDE DEF full
    <2> QED BY <1>3, <1>6, <1>8, <2>3, <2>5
<1> QED BY <1>7, <1>8

LEMMA PlainStep ==
    ASSUME IInv, NEW ops, Compiling(ops), S.op \notin {"set", "copy", "call", "pop", "?"},
           NEW item \in Item, item.loads = {}, item.restore = Bare.restore,
           NEW t, t = Before \/ t = Clean, Emit(t, item), Places(item, S, t),
           Tables', LabelStep(item)
    PROVE  IInv'
<1>1. /\ phase = "compile" /\ line \in 1 .. Len(source) /\ Tidy(Before)
    BY StatementIs
<1>2. Tidy(t)
    BY <1>1, CleanIsTidy
<1>3. Carried(Before, item.loads, t)
    BY Names DEF Carried, Clean
<1>4. Untouched(item, S, t)
    BY DEF Untouched, Scratch
<1>5. Functional(item.loads)
    BY DEF Functional
<1>6. S.op # "call" /\ line <= Len(source)
    BY <1>1
<1> QED BY <1>1, <1>2, <1>3, <1>4, <1>5, <1>6, EmitStep

LEMMA TestStep ==
    ASSUME IInv, NEW ops, Compiling(ops), S.op \notin {"set", "copy", "call", "pop", "?"},
           NEW v \in Vars, NEW full \in BOOLEAN,
           NEW jumps, Reg(Before, v) \in RegNum => jumps \in Seq(Jump),
           NEW place \in SUBSET Label,
           Test(v, full, jumps, place),
           \A l \in place : l[1] \in Own,
           \A k \in 1 .. Len(jumps) : jumps[k].to[1] \in Own => jumps[k].to \in place,
           Tables', ~full => LabelStep([place |-> place]), full => LabelStep([place |-> {}])
    PROVE  IInv'
<1> DEFINE t == With(Before, v)
           L == Loads(Before, v)
           R == <<Reg(Before, v)>>
           J == Given(full, jumps, <<>>)
           P == Given(full, place, {})
           item == [Bare EXCEPT !.loads = L, !.regs = R, !.jumps = J, !.place = P]
<1>1. /\ phase = "compile" /\ line \in 1 .. Len(source) /\ Tidy(Before) /\ TypeOK
    BY StatementIs
<1>2. Emit(t, item)
    BY DEF Test
<1>3. /\ Tidy(t) /\ Functional(L) /\ Reg(Before, v) \in RegNum
      /\ L \subseteq {[var |-> v, reg |-> Reg(Before, v)]}
      /\ Carried(Before, L, t)
    BY <1>1, WithIs
<1>4. L \in SUBSET [var : Vars, reg : RegNum]
    BY <1>3
<1>5. R \in Seq(RegNum)
    BY <1>3
<1>6. J \in Seq(Jump) /\ P \in SUBSET Label
    BY <1>3 DEF Given
<1>7. /\ \A l \in P : l[1] \in Own
      /\ \A k \in 1 .. Len(J) : J[k].to[1] \in Own => J[k].to \in P
    BY DEF Given
<1>8. LabelStep([place |-> P])
    BY DEF Given
<1> HIDE DEF t, L, R, J, P
<1>9. /\ item \in Item /\ item.loads = L /\ item.restore = Bare.restore
      /\ item.jumps = J /\ item.place = P
    BY <1>1, <1>4, <1>5, <1>6, BareIs DEF Item
<1> HIDE DEF item
<1>10. LabelStep(item)
    BY <1>8, <1>9 DEF LabelStep
<1>11. Places(item, S, t)
    BY <1>7, <1>9 DEF Places
<1>12. Untouched(item, S, t)
    BY DEF Untouched, Scratch
<1> QED BY <1>1, <1>2, <1>3, <1>9, <1>10, <1>11, <1>12, EmitStep

LEMMA ActsIn ==
    ASSUME Tables
    PROVE  /\ ActIf \in Nat /\ ActIfPlus \in Nat /\ ActWhile \in Nat /\ ActFor \in Nat
           /\ ActFor # 0 => ActFor \in 1 .. Len(fors)
<1>1. Len(ifs) \in Nat /\ Len(whiles) \in Nat /\ Len(fors) \in Nat
    BY DEF Tables
<1>2. ActIf \in 0 .. Len(ifs)
    BY <1>1, HighestIn DEF ActIf
<1>3. ActIfPlus \in 0 .. Len(ifs)
    BY <1>1, HighestIn DEF ActIfPlus
<1>4. ActWhile \in 0 .. Len(whiles)
    BY <1>1, HighestIn DEF ActWhile
<1>5. ActFor \in 0 .. Len(fors)
    BY <1>1, HighestIn DEF ActFor
<1> QED BY <1>1, <1>2, <1>3, <1>4, <1>5

LEMMA IfStep ==
    ASSUME IInv, CompileIf
    PROVE  IInv'
<1> DEFINE n == Len(ifs) + 1
           full == Len(ifs) >= MaxBlocks
           other == IF S.op = "if+" THEN "else" ELSE "endif"
           entry == [open |-> TRUE, plus |-> S.op = "if+", else_set |-> FALSE]
           jumps == <<[reg |-> Reg(Before, S.args[1]), to |-> <<"if", n>>],
                      [reg |-> None, to |-> <<other, n>>]>>
           place == {<<"if", n>>}
           Entry == [open : BOOLEAN, plus : BOOLEAN, else_set : BOOLEAN]
<1>1. /\ Compiling({"if", "if+"}) /\ S \in Statement /\ S.op \in {"if", "if+"}
      /\ TypeOK /\ Tables /\ Len(ifs) \in Nat /\ Len(fors) \in Nat
    <2>1. Compiling({"if", "if+"})
        BY DEF CompileIf
    <2> QED BY <2>1, StatementIs
<1>2. S.args[1] \in Vars
    BY <1>1, ArgsAre
<1>3. /\ Test(S.args[1], full, jumps, place)
      /\ ifs' = Given(full, Append(ifs, entry), ifs)
      /\ UNCHANGED <<whiles, fors, switches>>
    BY DEF CompileIf
<1>4. n \in Nat /\ full \in BOOLEAN
    OBVIOUS
<1>5. <<"if", n>> \in Label /\ <<other, n>> \in Label
    BY <1>1 DEF Label
<1>6. Reg(Before, S.args[1]) \in RegNum => jumps \in Seq(Jump)
    BY <1>5 DEF Jump
<1>7. \A k \in 1 .. Len(jumps) : jumps[k].to[1] \in Own => jumps[k].to \in place
    <2>1. other \notin Own
        BY DEF Own
    <2>2. jumps[1].to \in place /\ jumps[2].to[1] = other /\ Len(jumps) = 2
        OBVIOUS
    <2>3. \A k \in 1 .. 2 : k = 1 \/ k = 2
        OBVIOUS
    <2> HIDE DEF jumps, other, place
    <2> QED BY <2>1, <2>2, <2>3
<1>8. entry \in Entry
    OBVIOUS
<1>9. Tables'
    <2>1. ifs \in Seq(Entry)
        BY <1>1 DEF Tables
    <2> HIDE DEF entry, Entry, full
    <2>2. ifs' \in Seq(Entry)
        BY <1>3, <1>8, <2>1 DEF Given
    <2> QED BY <1>1, <1>3, <2>2 DEF Tables, Entry
<1>10. full => LabelStep([place |-> {}])
    BY <1>1, <1>3 DEF LabelStep, Given
<1>11. ~full => LabelStep([place |-> place])
    <2> HIDE DEF entry
    <2>1. ~full => Len(ifs') = n
        BY <1>1, <1>3 DEF Tables, Given
    <2> QED BY <1>1, <1>3, <2>1 DEF LabelStep
<1>12. place \in SUBSET Label /\ \A l \in place : l[1] \in Own
    BY <1>5 DEF Own
<1>13. S.op \notin {"set", "copy", "call", "pop", "?"}
    BY <1>1
<1> HIDE DEF jumps, full, place
<1> QED BY <1>1, <1>2, <1>3, <1>4, <1>5, <1>6, <1>7, <1>9, <1>10, <1>11, <1>12, <1>13, TestStep

LEMMA CaseStep ==
    ASSUME IInv, CompileCase
    PROVE  IInv'
<1> DEFINE x == S.args[1]
           y == S.args[2]
           t1 == With(Before, y)
           t2 == With(t1, x)
           r == FreeReg(t2)
           n == Len(ifs) + 1
           full == Len(ifs) >= MaxBlocks
           entry == [open |-> TRUE, plus |-> FALSE, else_set |-> FALSE]
           Entry == [open : BOOLEAN, plus : BOOLEAN, else_set : BOOLEAN]
           L == Loads(Before, y) \cup Loads(t1, x)
           R == <<Reg(t1, x), Reg(Before, y), r>>
           J == Given(full, <<[reg |-> r, to |-> <<"if", n>>],
                              [reg |-> None, to |-> <<"endif", n>>]>>, <<>>)
           P == Given(full, {<<"if", n>>}, {})
           t == Temp(t2)
           item == [Bare EXCEPT !.loads = L, !.regs = R, !.jumps = J, !.place = P]
<1>1. /\ phase = "compile" /\ line \in 1 .. Len(source) /\ Tidy(Before)
      /\ S \in Statement /\ S.op = "?"
      /\ TypeOK /\ Tables /\ Len(ifs) \in Nat /\ Len(fors) \in Nat
    <2>1. Compiling({"?"})
        BY DEF CompileCase
    <2> QED BY <2>1, StatementIs
<1>2. x \in Vars /\ y \in Vars
    BY <1>1, ArgsAre
<1>3. /\ Emit(t, item)
      /\ ifs' = Given(full, Append(ifs, entry), ifs)
      /\ UNCHANGED <<whiles, fors, switches>>
    BY DEF CompileCase
<1> HIDE DEF x, y
<1>4. /\ Tidy(t2) /\ Carried(Before, L, t2) /\ Functional(L)
      /\ L \in SUBSET [var : Vars, reg : RegNum]
      /\ Reg(Before, y) \in RegNum /\ Reg(t1, x) \in RegNum
    BY <1>1, <1>2, CarriedTwice
<1> HIDE DEF t1, t2, L
<1>5. /\ Tidy(t) /\ r \in RegNum
      /\ \A q \in Regs : t[q] \in Vars => t2[q] = t[q] /\ q # r
    BY <1>4, TempIs
<1> HIDE DEF t, r
<1>6. Carried(Before, L, t)
    BY <1>4, <1>5 DEF Carried
<1>7. R \in Seq(RegNum) /\ R[3] = r
    BY <1>4, <1>5
<1> HIDE DEF R
<1>8. P \in SUBSET Label /\ J \in Seq(Jump)
    <2>1. <<"if", n>> \in Label /\ <<"endif", n>> \in Label
        BY <1>1 DEF Label
    <2>2. /\ [reg |-> r, to |-> <<"if", n>>] \in Jump
          /\ [reg |-> None, to |-> <<"endif", n>>] \in Jump
        BY <1>5, <2>1 DEF Jump
    <2> HIDE DEF n, full
    <2> QED BY <2>1, <2>2 DEF Given
<1>9. /\ \A l \in P : l[1] \in Own
      /\ \A k \in 1 .. Len(J) : J[k].to[1] \in Own => J[k].to \in P
    <2>2. CASE full
        <3>1. Len(J) = 0 /\ P = {}
            BY <2>2 DEF Given
        <3> HIDE DEF J, P
        <3> QED BY <3>1
    <2>3. CASE ~full
        <3>1. /\ Len(J) = 2 /\ J[1].to \in P /\ J[2].to[1] = "endif"
              /\ \A l \in P : l[1] = "if"
            BY <2>3 DEF Given
        <3>2. \A k \in 1 .. 2 : k = 1 \/ k = 2
            OBVIOUS
        <3> HIDE DEF J, P
        <3> QED BY <3>1, <3>2 DEF Own
    <2> QED BY <2>2, <2>3
<1>10. LabelStep([place |-> P])
    <2> HIDE DEF entry
    <2>1. ~full => Len(ifs') = n
        BY <1>1, <1>3 DEF Tables, Given
    <2>2. full => ifs' = ifs
        BY <1>3 DEF Given
    <2> QED BY <1>1, <1>3, <2>1, <2>2 DEF LabelStep, Given
<1>11. entry \in Entry
    OBVIOUS
<1>12. Tables'
    <2>1. ifs \in Seq(Entry)
        BY <1>1 DEF Tables
    <2> HIDE DEF entry, Entry, full
    <2>2. ifs' \in Seq(Entry)
        BY <1>3, <1>11, <2>1 DEF Given
    <2> QED BY <1>1, <1>3, <2>2 DEF Tables, Entry
<1> HIDE DEF J, P, entry
<1>13. /\ item \in Item /\ item.loads = L /\ item.regs = R /\ item.restore = Bare.restore
       /\ item.jumps = J /\ item.place = P
    BY <1>1, <1>4, <1>7, <1>8, BareIs DEF Item
<1> HIDE DEF item
<1>14. Untouched(item, S, t)
    BY <1>1, <1>5, <1>7, <1>13 DEF Untouched, Scratch
<1>15. Places(item, S, t)
    BY <1>1, <1>9, <1>13 DEF Places
<1>16. LabelStep(item)
    BY <1>10, <1>13 DEF LabelStep
<1>17. line <= Len(source) /\ S.op # "call" /\ S.op # "pop"
    BY <1>1
<1> QED BY <1>1, <1>3, <1>4, <1>5, <1>6, <1>12, <1>13, <1>14, <1>15, <1>16, <1>17, EmitStep

LEMMA EntryChanged ==
    ASSUME NEW T, NEW s \in Seq(T), NEW i, NEW e, i \in 1 .. Len(s) => e \in T
    PROVE  [s EXCEPT ![i] = e] \in Seq(T) /\ Len([s EXCEPT ![i] = e]) = Len(s)
<1> DEFINE q == [s EXCEPT ![i] = e]
<1>1. Len(s) \in Nat /\ DOMAIN s = 1 .. Len(s) /\ \A j \in 1 .. Len(s) : s[j] \in T
    OBVIOUS
<1>2. DOMAIN q = 1 .. Len(s) /\ \A j \in 1 .. Len(s) : q[j] = IF j = i THEN e ELSE s[j]
    BY <1>1
<1>3. q \in [1 .. Len(s) -> T]
    BY <1>1, <1>2
<1> HIDE DEF q
<1>4. q \in Seq(T) /\ Len(q) = Len(s)
    BY <1>1, <1>3
<1> QED BY <1>4 DEF q

LEMMA EntryIs ==
    ASSUME NEW T, NEW s \in Seq(T)
    PROVE  /\ \A i \in 1 .. Len(s) : s[i] \in T
           /\ \A e \in T : Append(s, e) \in Seq(T)
OBVIOUS

LEMMA ElseStep ==
    ASSUME IInv, CompileElse
    PROVE  IInv'
<1> DEFINE l == <<"else", ElseOf>>
           J == <<[reg |-> None, to |-> <<"endif", ElseOf>>]>>
           item == [Bare EXCEPT !.jumps = J, !.place = {l}]
           Entry == [open : BOOLEAN, plus : BOOLEAN, else_set : BOOLEAN]
<1>1. /\ Compiling({"else"}) /\ S.op = "else"
      /\ TypeOK /\ Tables /\ Len(ifs) \in Nat /\ Len(fors) \in Nat
    <2>1. Compiling({"else"})
        BY DEF CompileElse
    <2> QED BY <2>1, StatementIs
<1>2. /\ Emit(Before, item) /\ ifs' = [ifs EXCEPT ![ElseOf].else_set = TRUE]
      /\ UNCHANGED <<whiles, fors, switches>>
    BY DEF CompileElse
<1>3. ElseOf \in Nat
    BY <1>1, ActsIn DEF ElseOf
<1>4. l \in Label /\ J \in Seq(Jump)
    BY <1>3 DEF Label, Jump
<1>5. /\ item \in Item /\ item.loads = {} /\ item.restore = Bare.restore
      /\ item.jumps = J /\ item.place = {l}
    BY <1>1, <1>4, BareIs DEF Item
<1> HIDE DEF item
<1>6. Places(item, S, Before)
    <2>1. Len(J) = 1 /\ J[1].to[1] = "endif"
        OBVIOUS
    <2>2. Before = Clean
        BY <1>1 DEF Before, Resets
    <2>3. \A k \in 1 .. Len(item.jumps) : item.jumps[k].to[1] \notin Own
        BY <1>5, <2>1 DEF Own
    <2> QED BY <1>1, <1>5, <2>2, <2>3 DEF Places
<1>7. ifs \in Seq(Entry)
    BY <1>1 DEF Tables
<1>8. ifs' \in Seq(Entry) /\ Len(ifs') = Len(ifs)
    <2> DEFINE e == [ifs[ElseOf] EXCEPT !.else_set = TRUE]
    <2>1. ifs' = [ifs EXCEPT ![ElseOf] = e]
        BY <1>2
    <2>2. ASSUME ElseOf \in 1 .. Len(ifs) PROVE e \in Entry
        <3>1. ifs[ElseOf] \in Entry
            BY <1>7, <2>2, EntryIs
        <3> QED BY <3>1
    <2> HIDE DEF e, Entry
    <2> QED BY <1>7, <2>1, <2>2, EntryChanged
<1>9. Tables'
    BY <1>1, <1>2, <1>8 DEF Tables
<1>10. LabelStep(item)
    BY <1>1, <1>2, <1>5, <1>8 DEF LabelStep
<1>11. S.op \notin {"set", "copy", "call", "pop", "?"}
    BY <1>1
<1> QED BY <1>1, <1>2, <1>5, <1>6, <1>9, <1>10, <1>11, PlainStep

LEMMA EndifStep ==
    ASSUME IInv, CompileEndif
    PROVE  IInv'
<1> DEFINE l == <<"endif", ActIf>>
           item == [Bare EXCEPT !.place = {l}]
           Entry == [open : BOOLEAN, plus : BOOLEAN, else_set : BOOLEAN]
<1>1. /\ Compiling({"endif", "break"}) /\ S.op \in {"endif", "break"}
      /\ TypeOK /\ Tables /\ Len(ifs) \in Nat /\ Len(fors) \in Nat
    <2>1. Compiling({"endif", "break"})
        BY DEF CompileEndif
    <2> QED BY <2>1, StatementIs
<1>2. /\ Emit(Clean, item) /\ ifs' = [ifs EXCEPT ![ActIf].open = FALSE]
      /\ UNCHANGED <<whiles, fors, switches>>
    BY DEF CompileEndif, Finished
<1>3. ActIf \in Nat
    BY <1>1, ActsIn
<1>4. l \in Label
    BY <1>3 DEF Label
<1>5. /\ item \in Item /\ item.loads = {} /\ item.restore = Bare.restore
      /\ item.jumps = <<>> /\ item.place = {l}
    BY <1>1, <1>4, BareIs DEF Item
<1> HIDE DEF item
<1>6. Places(item, S, Clean)
    BY <1>1, <1>5 DEF Places
<1>7. ifs \in Seq(Entry)
    BY <1>1 DEF Tables
<1>8. ifs' \in Seq(Entry) /\ Len(ifs') = Len(ifs)
    <2> DEFINE e == [ifs[ActIf] EXCEPT !.open = FALSE]
    <2>1. ifs' = [ifs EXCEPT ![ActIf] = e]
        BY <1>2
    <2>2. ASSUME ActIf \in 1 .. Len(ifs) PROVE e \in Entry
        <3>1. ifs[ActIf] \in Entry
            BY <1>7, <2>2, EntryIs
        <3> QED BY <3>1
    <2> HIDE DEF e, Entry
    <2> QED BY <1>7, <2>1, <2>2, EntryChanged
<1>9. Tables'
    BY <1>1, <1>2, <1>8 DEF Tables
<1>10. LabelStep(item)
    BY <1>1, <1>2, <1>5, <1>8 DEF LabelStep
<1>11. S.op \notin {"set", "copy", "call", "pop", "?"}
    BY <1>1
<1> QED BY <1>1, <1>2, <1>5, <1>6, <1>9, <1>10, <1>11, PlainStep

LEMMA DoStep ==
    ASSUME IInv, CompileDo
    PROVE  IInv'
<1> DEFINE full == Len(whiles) >= MaxBlocks
           P == Given(full, {<<"while", Len(whiles) + 1>>}, {})
           item == [Bare EXCEPT !.place = P]
<1>1. /\ Compiling({"do"}) /\ S.op = "do"
      /\ TypeOK /\ Tables /\ Len(ifs) \in Nat /\ Len(fors) \in Nat
    <2>1. Compiling({"do"})
        BY DEF CompileDo
    <2> QED BY <2>1, StatementIs
<1>2. /\ Emit(Before, item) /\ whiles' = Given(full, Append(whiles, TRUE), whiles)
      /\ UNCHANGED <<ifs, fors, switches>>
    BY DEF CompileDo
<1>3. P \in SUBSET Label /\ \A l \in P : l[1] = "while"
    BY <1>1 DEF Label, Given, Tables
<1> HIDE DEF P
<1>4. /\ item \in Item /\ item.loads = {} /\ item.restore = Bare.restore
      /\ item.jumps = <<>> /\ item.place = P
    BY <1>1, <1>3, BareIs DEF Item
<1> HIDE DEF item
<1>5. Before = Clean
    BY <1>1 DEF Before, Resets
<1>6. Places(item, S, Before)
    BY <1>1, <1>4, <1>5 DEF Places
<1>7. Tables'
    <2>1. whiles \in Seq(BOOLEAN)
        BY <1>1 DEF Tables
    <2>2. whiles' \in Seq(BOOLEAN)
        <3>1. TRUE \in BOOLEAN
            OBVIOUS
        <3>2. Append(whiles, TRUE) \in Seq(BOOLEAN)
            BY <2>1, <3>1, EntryIs
        <3>3. whiles' = Append(whiles, TRUE) \/ whiles' = whiles
            BY <1>2 DEF Given
        <3> QED BY <2>1, <3>2, <3>3
    <2> QED BY <1>1, <1>2, <2>2 DEF Tables
<1>8. LabelStep(item)
    BY <1>1, <1>2, <1>3, <1>4 DEF LabelStep
<1>9. S.op \notin {"set", "copy", "call", "pop", "?"}
    BY <1>1
<1> QED BY <1>1, <1>2, <1>4, <1>6, <1>7, <1>8, <1>9, PlainStep

LEMMA WhileStep ==
    ASSUME IInv, CompileWhile
    PROVE  IInv'
<1> DEFINE jumps == <<[reg |-> Reg(Before, S.args[1]), to |-> <<"while", ActWhile>>]>>
<1>1. /\ Compiling({"while"}) /\ S \in Statement /\ S.op = "while"
      /\ TypeOK /\ Tables /\ Len(ifs) \in Nat /\ Len(fors) \in Nat
    <2>1. Compiling({"while"})
        BY DEF CompileWhile
    <2> QED BY <2>1, StatementIs
<1>2. S.args[1] \in Vars /\ ActWhile \in Nat
    BY <1>1, ArgsAre, ActsIn
<1>3. /\ Test(S.args[1], FALSE, jumps, {}) /\ whiles' = [whiles EXCEPT ![ActWhile] = FALSE]
      /\ UNCHANGED <<ifs, fors, switches>>
    BY DEF CompileWhile
<1>4. Reg(Before, S.args[1]) \in RegNum => jumps \in Seq(Jump)
    <2>1. <<"while", ActWhile>> \in Label
        BY <1>2 DEF Label
    <2> QED BY <2>1 DEF Jump
<1>5. \A k \in 1 .. Len(jumps) : jumps[k].to[1] \notin Own
    <2>1. Len(jumps) = 1 /\ jumps[1].to[1] = "while"
        OBVIOUS
    <2> HIDE DEF jumps
    <2> QED BY <2>1 DEF Own
<1>6. Tables'
    <2>1. whiles \in Seq(BOOLEAN)
        BY <1>1 DEF Tables
    <2>2. whiles' \in Seq(BOOLEAN)
        BY <1>3, <2>1, EntryChanged
    <2> QED BY <1>1, <1>3, <2>2 DEF Tables
<1>7. LabelStep([place |-> {}])
    BY <1>1, <1>3 DEF LabelStep
<1>8. S.op \notin {"set", "copy", "call", "pop", "?"}
    BY <1>1
<1> HIDE DEF jumps
<1>9. \A k \in 1 .. Len(jumps) : jumps[k].to[1] \in Own => jumps[k].to \in {}
    BY <1>5
<1>10. \A l \in {} : l[1] \in Own
    OBVIOUS
<1>11. {} \in SUBSET Label
    OBVIOUS
<1> QED BY <1>1, <1>2, <1>3, <1>4, <1>6, <1>7, <1>8, <1>9, <1>10, <1>11, TestStep

LEMMA ForLoopStep ==
    ASSUME IInv, CompileForLoop
    PROVE  IInv'
<1> DEFINE full == Len(fors) >= MaxBlocks
           P == Given(full, {<<"for", Len(fors) + 1>>}, {})
           item == [Bare EXCEPT !.place = P]
           entry == [open |-> TRUE, for_def_set |-> FALSE]
           Entry == [open : BOOLEAN, for_def_set : BOOLEAN]
<1>1. /\ Compiling({"for-loop"}) /\ S.op = "for-loop"
      /\ TypeOK /\ Tables /\ Len(ifs) \in Nat /\ Len(fors) \in Nat
    <2>1. Compiling({"for-loop"})
        BY DEF CompileForLoop
    <2> QED BY <2>1, StatementIs
<1>2. /\ Emit(Before, item) /\ fors' = Given(full, Append(fors, entry), fors)
      /\ UNCHANGED <<ifs, whiles, switches>>
    BY DEF CompileForLoop
<1>3. P \in SUBSET Label /\ \A l \in P : l[1] = "for"
    BY <1>1 DEF Label, Given
<1> HIDE DEF P
<1>4. /\ item \in Item /\ item.loads = {} /\ item.restore = Bare.restore
      /\ item.jumps = <<>> /\ item.place = P
    BY <1>1, <1>3, BareIs DEF Item
<1> HIDE DEF item
<1>5. Before = Clean
    BY <1>1 DEF Before, Resets
<1>6. Places(item, S, Before)
    BY <1>1, <1>3, <1>4, <1>5 DEF Places, Own
<1>7. fors \in Seq(Entry) /\ entry \in Entry
    BY <1>1 DEF Tables
<1> HIDE DEF entry, Entry, full
<1>8. fors' \in Seq(Entry) /\ \A k \in 1 .. Len(fors) : k <= Len(fors') /\ fors'[k] = fors[k]
    <2>1. CASE full
        BY <1>2, <1>7, <2>1 DEF Given
    <2>2. CASE ~full
        BY <1>2, <1>7, <2>2 DEF Given
    <2> QED BY <2>1, <2>2
<1>9. Tables'
    BY <1>1, <1>2, <1>8 DEF Tables, Entry
<1>10. LabelStep(item)
    BY <1>1, <1>2, <1>3, <1>4, <1>8 DEF LabelStep
<1>11. S.op \notin {"set", "copy", "call", "pop", "?"}
    BY <1>1
<1> QED BY <1>1, <1>2, <1>4, <1>6, <1>9, <1>10, <1>11, PlainStep

LEMMA ForStep ==
    ASSUME IInv, CompileFor, "nested" \in Rules
    PROVE  IInv'
<1> DEFINE l == <<"for2", ActFor>>
           jumps == <<[reg |-> Reg(Before, S.args[1]), to |-> l],
                      [reg |-> None, to |-> <<"forend", ActFor>>]>>
           place == {l}
           Entry == [open : BOOLEAN, for_def_set : BOOLEAN]
<1>1. /\ Compiling({"for"}) /\ S \in Statement /\ S.op = "for"
      /\ TypeOK /\ Tables /\ Len(ifs) \in Nat /\ Len(fors) \in Nat
    <2>1. Compiling({"for"})
        BY DEF CompileFor
    <2> QED BY <2>1, StatementIs
<1>2. S.args[1] \in Vars /\ ActFor \in Nat
    BY <1>1, ArgsAre, ActsIn
<1>3. Reg(Before, S.args[1]) \in RegNum => jumps \in Seq(Jump)
    <2>1. l \in Label /\ <<"forend", ActFor>> \in Label
        BY <1>2 DEF Label
    <2> QED BY <2>1 DEF Jump
<1>4. \A k \in 1 .. Len(jumps) : jumps[k].to[1] \in Own => jumps[k].to \in place
    <2>1. Len(jumps) = 2 /\ jumps[1].to \in place /\ jumps[2].to[1] = "forend"
        OBVIOUS
    <2>2. \A k \in 1 .. 2 : k = 1 \/ k = 2
        OBVIOUS
    <2> HIDE DEF jumps, place
    <2> QED BY <2>1, <2>2 DEF Own
<1>5. S.op \notin {"set", "copy", "call", "pop", "?"}
    BY <1>1
<1>6. place \in SUBSET Label /\ \A k \in place : k[1] \in Own
    BY <1>2 DEF Own, Label
<1>7. fors \in Seq(Entry)
    BY <1>1 DEF Tables
<1>8. CASE ActFor = 0
    <2> HIDE DEF jumps, place
    <2>1. PICK full \in BOOLEAN : full
        OBVIOUS
    <2>2. Test(S.args[1], full, jumps, place) /\ UNCHANGED <<ifs, whiles, fors, switches>>
        BY <1>8, <2>1 DEF CompileFor, Given, jumps, place
    <2>3. Tables' /\ LabelStep([place |-> {}])
        <3>1. UNCHANGED blocks
            BY <2>2 DEF blocks
        <3> QED BY <1>1, <3>1, SameTables
    <2> QED BY <1>1, <1>2, <1>3, <1>4, <1>5, <1>6, <2>1, <2>2, <2>3, TestStep
<1>9. CASE ActFor # 0
    <2>1. ActFor \in 1 .. Len(fors) /\ ~fors[ActFor].for_def_set
        BY <1>1, <1>9, ActsIn DEF CompileFor
    <2>2. /\ Test(S.args[1], FALSE, jumps, place)
          /\ fors' = [fors EXCEPT ![ActFor].for_def_set = TRUE]
          /\ UNCHANGED <<ifs, whiles, switches>>
        BY <1>9 DEF CompileFor, Given
    <2>3. /\ fors' \in Seq(Entry) /\ Len(fors') = Len(fors)
          /\ fors'[ActFor].for_def_set
          /\ \A k \in 1 .. Len(fors) : fors[k].for_def_set => fors'[k].for_def_set
        <3> DEFINE e == [fors[ActFor] EXCEPT !.for_def_set = TRUE]
        <3>1. fors' = [fors EXCEPT ![ActFor] = e]
            BY <2>2
        <3>2. ASSUME ActFor \in 1 .. Len(fors) PROVE e \in Entry
            <4>1. fors[ActFor] \in Entry
                BY <1>7, <3>2, EntryIs
            <4> QED BY <4>1
        <3>3. \A k \in 1 .. Len(fors) : fors'[k] = IF k = ActFor THEN e ELSE fors[k]
            BY <3>1, <1>7
        <3>4. e.for_def_set
            BY <2>1, <1>7
        <3> HIDE DEF e, Entry
        <3>5. fors' \in Seq(Entry) /\ Len(fors') = Len(fors)
            BY <1>7, <3>1, <3>2, EntryChanged
        <3> QED BY <2>1, <3>3, <3>4, <3>5
    <2>4. Tables'
        BY <1>1, <2>2, <2>3 DEF Tables
    <2>5. LabelStep([place |-> place])
        BY <1>1, <2>1, <2>2, <2>3 DEF LabelStep
    <2> HIDE DEF jumps, place
    <2> QED BY <1>1, <1>2, <1>3, <1>4, <1>5, <1>6, <2>2, <2>4, <2>5, TestStep
<1> QED BY <1>8, <1>9

LEMMA NextStep ==
    ASSUME IInv, CompileNext
    PROVE  IInv'
<1> DEFINE l == <<"forend", ActFor>>
           J == <<[reg |-> None, to |-> <<"for", ActFor>>]>>
           item == [Bare EXCEPT !.jumps = J, !.place = {l}]
           Entry == [open : BOOLEAN, for_def_set : BOOLEAN]
<1>1. /\ Compiling({"next"}) /\ S.op = "next"
      /\ TypeOK /\ Tables /\ Len(ifs) \in Nat /\ Len(fors) \in Nat
    <2>1. Compiling({"next"})
        BY DEF CompileNext
    <2> QED BY <2>1, StatementIs
<1>2. /\ Emit(Clean, item) /\ fors' = [fors EXCEPT ![ActFor].open = FALSE]
      /\ UNCHANGED <<ifs, whiles, switches>>
    BY DEF CompileNext
<1>3. ActFor \in Nat
    BY <1>1, ActsIn
<1>4. l \in Label /\ J \in Seq(Jump)
    BY <1>3 DEF Label, Jump
<1>5. /\ item \in Item /\ item.loads = {} /\ item.restore = Bare.restore
      /\ item.jumps = J /\ item.place = {l}
    BY <1>1, <1>4, BareIs DEF Item
<1> HIDE DEF item
<1>6. Places(item, S, Clean)
    <2>1. Len(J) = 1 /\ J[1].to[1] = "for"
        OBVIOUS
    <2>2. \A k \in 1 .. Len(item.jumps) : item.jumps[k].to[1] \notin Own
        BY <1>5, <2>1 DEF Own
    <2> QED BY <1>1, <1>5, <2>2 DEF Places
<1>7. fors \in Seq(Entry)
    BY <1>1 DEF Tables
<1>8. /\ fors' \in Seq(Entry) /\ Len(fors') = Len(fors)
      /\ \A k \in 1 .. Len(fors) : fors'[k].for_def_set = fors[k].for_def_set
    <2> DEFINE e == [fors[ActFor] EXCEPT !.open = FALSE]
    <2>1. fors' = [fors EXCEPT ![ActFor] = e]
        BY <1>2
    <2>2. ASSUME ActFor \in 1 .. Len(fors) PROVE e \in Entry
        <3>1. fors[ActFor] \in Entry
            BY <1>7, <2>2, EntryIs
        <3> QED BY <3>1
    <2>3. \A k \in 1 .. Len(fors) : fors'[k] = IF k = ActFor THEN e ELSE fors[k]
        BY <2>1, <1>7
    <2>4. ActFor \in 1 .. Len(fors) => e.for_def_set = fors[ActFor].for_def_set
        BY <1>7
    <2> HIDE DEF e, Entry
    <2>5. fors' \in Seq(Entry) /\ Len(fors') = Len(fors)
        BY <1>7, <2>1, <2>2, EntryChanged
    <2> QED BY <2>3, <2>4, <2>5
<1>9. Tables'
    BY <1>1, <1>2, <1>8 DEF Tables
<1>10. LabelStep(item)
    BY <1>1, <1>2, <1>5, <1>8 DEF LabelStep
<1>11. S.op \notin {"set", "copy", "call", "pop", "?"}
    BY <1>1
<1> QED BY <1>1, <1>2, <1>5, <1>6, <1>9, <1>10, <1>11, PlainStep

LEMMA SwitchStep ==
    ASSUME IInv, CompileSwitch \/ CompileSwitchEnd
    PROVE  IInv'
<1>1. /\ Compiling({"switch", "switchend"}) /\ S.op \in {"switch", "switchend"}
      /\ TypeOK /\ Tables /\ Len(ifs) \in Nat /\ Len(fors) \in Nat
    <2>1. Compiling({"switch", "switchend"})
        BY DEF CompileSwitch, CompileSwitchEnd, Compiling
    <2> QED BY <2>1, StatementIs
<1>2. PICK t : (t = Before \/ t = Clean) /\ Emit(t, Bare)
    BY DEF CompileSwitch, CompileSwitchEnd, Given
<1>3. UNCHANGED <<ifs, whiles, fors>> /\ switches' \in Seq(BOOLEAN)
    <2>1. switches \in Seq(BOOLEAN)
        BY <1>1 DEF Tables
    <2>2. CASE CompileSwitch
        <3>1. PICK full : switches' = Given(full, Append(switches, TRUE), switches)
            BY <2>2 DEF CompileSwitch
        <3>2. switches' \in Seq(BOOLEAN)
            <4>1. TRUE \in BOOLEAN
                OBVIOUS
            <4>2. Append(switches, TRUE) \in Seq(BOOLEAN)
                BY <2>1, <4>1, EntryIs
            <4>3. switches' = Append(switches, TRUE) \/ switches' = switches
                BY <3>1 DEF Given
            <4> QED BY <2>1, <4>2, <4>3
        <3> QED BY <2>2, <3>2 DEF CompileSwitch
    <2>3. CASE CompileSwitchEnd
        <3>1. switches' = [switches EXCEPT ![ActSwitch] = FALSE]
            BY <2>3 DEF CompileSwitchEnd
        <3>2. switches' \in Seq(BOOLEAN)
            BY <2>1, <3>1, EntryChanged
        <3> QED BY <2>3, <3>2 DEF CompileSwitchEnd
    <2> QED BY <2>2, <2>3
<1>4. /\ Bare \in Item /\ Bare.loads = {} /\ Bare.jumps = <<>> /\ Bare.place = {}
    BY <1>1, BareIs
<1>5. Places(Bare, S, t)
    BY <1>4 DEF Places
<1>6. Tables' /\ LabelStep(Bare)
    BY <1>1, <1>3, <1>4 DEF Tables, LabelStep
<1>7. S.op \notin {"set", "copy", "call", "pop", "?"}
    BY <1>1
<1> QED BY <1>1, <1>2, <1>4, <1>5, <1>6, <1>7, PlainStep

\* The body begins at the first statement that is no pop.
LEMMA BodyIs ==
    ASSUME NEW p, Len(p) \in Nat
    PROVE  /\ Program!Body(p) \in 1 .. Len(p) + 1
           /\ \A j \in 1 .. Program!Body(p) - 1 : p[j].op = "pop"
           /\ Program!Body(p) <= Len(p) => p[Program!Body(p)].op # "pop"
<1> DEFINE Others == {b \in 1 .. Len(p) + 1 : b <= Len(p) => p[b].op # "pop"}
           Start == Least(Others)
<1>1. Start \in Others /\ \A b \in Others : Start <= b
    <2>1. Len(p) + 1 \in Others
        OBVIOUS
    <2>2. Others \in SUBSET Nat
        OBVIOUS
    <2> HIDE DEF Others
    <2> QED BY <2>1, <2>2, LeastOf
<1> HIDE DEF Start
<1>2. \A j \in 1 .. Start - 1 : p[j].op = "pop"
    <2> SUFFICES ASSUME NEW j \in 1 .. Start - 1, p[j].op # "pop" PROVE FALSE
        OBVIOUS
    <2>1. j \in Others
        BY <1>1
    <2> QED BY <1>1, <2>1
<1>3. \E b \in 1 .. Len(p) + 1 :
          /\ \A j \in 1 .. b - 1 : p[j].op = "pop"
          /\ b <= Len(p) => p[b].op # "pop"
    BY <1>1, <1>2
<1> QED BY <1>3 DEF Program!Body

LEMMA StopStep ==
    ASSUME IInv, Refuse \/ BreakOutside
    PROVE  IInv'
<1>1. /\ phase = "compile" /\ phase' \in {"error", "broken"}
      /\ UNCHANGED <<source, line, regi, call_set, save_regi, blocks, code, machine, was>>
    BY DEF Refuse, BreakOutside, Compiling
<1>2. TypeOK'
    BY <1>1 DEF IInv, TypeOK, blocks, machine
<1>3. Points' = Points /\ Tidy(regi')
    BY <1>1 DEF Points, Now, IInv
<1>4. PhaseInv'
    BY <1>1, <1>3 DEF IInv, PhaseInv, machine
<1>5. CodeInv'
    BY <1>1, <1>3 DEF IInv, CodeInv
<1>6. LabelInv'
    BY <1>1 DEF IInv, LabelInv, blocks
<1>7. Coherent' /\ StackBalanced'
    BY <1>1 DEF Coherent, StackBalanced
<1> QED BY <1>2, <1>3, <1>4, <1>5, <1>6, <1>7 DEF IInv

LEMMA FinishStep ==
    ASSUME IInv, Finish
    PROVE  IInv'
<1> DEFINE P == [regi : Table, call_set : BOOLEAN, save_regi : SUBSET Regs]
<1>1. /\ phase = "compile" /\ phase' = "run" /\ line = Len(source) + 1 /\ line' = line + 1
      /\ code' = Append(code, Bare) /\ was' = Append(was, Now) /\ call_set' = FALSE
      /\ UNCHANGED <<source, regi, save_regi, blocks, machine>>
    BY DEF Finish, Now
<1>2. /\ TypeOK /\ source \in Seq(Statement) /\ Len(source) \in Nat
      /\ line \in Nat \ {0} /\ pc = 1 /\ Len(stack) = Program!Body(source) - 1
      /\ regs[0] = mem[Zero]
      /\ Points[1] = [regi |-> First, call_set |-> FALSE, save_regi |-> {}]
    BY <1>1 DEF IInv, PhaseInv, TypeOK
<1>3. was \in Seq(P) /\ Len(was) = line - 1 /\ Now \in P
    BY <1>2 DEF TypeOK, Now
<1> HIDE DEF P
<1>4. /\ was' \in Seq(P) /\ Len(was') = line /\ was'[line] = Now
      /\ \A j \in 1 .. line - 1 : was'[j] = was[j]
    BY <1>1, <1>2, <1>3
<1>5. /\ Bare \in Item /\ Bare.place = {} /\ Bare.loads = {} /\ Bare.regs = <<>>
    BY <1>2, BareIs
<1>6. code \in Seq(Item) /\ Len(code) = line - 1
    BY <1>2 DEF TypeOK
<1>7. /\ code' \in Seq(Item) /\ Len(code') = line /\ code'[line] = Bare
      /\ \A j \in 1 .. line - 1 : code'[j] = code[j]
    BY <1>1, <1>2, <1>5, <1>6
<1>8. TypeOK'
    <2>1. was' \in Seq([regi : Table, call_set : BOOLEAN, save_regi : SUBSET Regs])
        BY <1>4 DEF P
    <2>2. Len(was') = line' - 1 /\ Len(code') = line' - 1 /\ line' \in 1 .. Len(source') + 2
        BY <1>1, <1>2, <1>4, <1>7
    <2> QED BY <1>1, <1>2, <1>7, <2>1, <2>2 DEF TypeOK, blocks, machine
<1>9. \A j \in 1 .. line : Points'[j] = was'[j]
    BY <1>4 DEF Points
<1>10. \A j \in 1 .. line : Points[j] = was'[j]
    BY <1>2, <1>4, PointsAt
<1>11. CodeInv'
    <2> SUFFICES ASSUME NEW j \in 1 .. line
                 PROVE  /\ j <= Len(source) => Good(Points'[j], code'[j], source[j], Points'[j + 1])
                        /\ j > Len(source) => code'[j].place = {}
                        /\ -1 \notin Used(code'[j])
        BY <1>1, <1>7 DEF CodeInv
    <2>1. CASE j = line
        <3>1. Used(Bare) = {}
            BY <1>5 DEF Used
        <3> QED BY <1>1, <1>2, <1>5, <1>7, <2>1, <3>1
    <2>2. CASE j # line
        <3>1. j \in 1 .. line - 1 /\ j + 1 \in 1 .. line
            BY <1>2, <2>2
        <3>2. /\ j <= Len(source) => Good(Points[j], code[j], source[j], Points[j + 1])
              /\ j > Len(source) => code[j].place = {}
              /\ -1 \notin Used(code[j])
            BY <1>1, <1>6, <3>1 DEF IInv, CodeInv
        <3>3. Points'[j] = Points[j] /\ Points'[j + 1] = Points[j + 1] /\ code'[j] = code[j]
            BY <1>7, <1>9, <1>10, <3>1
        <3> QED BY <3>2, <3>3
    <2> QED BY <2>1, <2>2
<1>12. LabelInv'
    <2>1. \A j \in 1 .. line : \A l \in code'[j].place : j \in 1 .. Len(code) /\ l \in code[j].place
        BY <1>2, <1>5, <1>6, <1>7
    <2>2. ifs' = ifs /\ fors' = fors
        BY <1>1 DEF blocks
    <2>3. ASSUME NEW j \in 1 .. line, NEW l \in code'[j].place
          PROVE  /\ l[1] = "if" => l[2] <= Len(ifs)
                 /\ l[1] = "for2" => l[2] \in 1 .. Len(fors) /\ fors[l[2]].for_def_set
        BY <2>1 DEF IInv, LabelInv
    <2>4. ASSUME NEW i \in 1 .. line, NEW j \in 1 .. line,
                 NEW l \in code'[i].place \cap code'[j].place, l[1] \in Own
          PROVE  i = j
        <3>1. /\ i \in 1 .. Len(code) /\ l \in code[i].place
              /\ j \in 1 .. Len(code) /\ l \in code[j].place
            BY <2>1
        <3> QED BY <2>4, <3>1 DEF IInv, LabelInv
    <2> QED BY <1>7, <2>2, <2>3, <2>4 DEF LabelInv
<1>13. PhaseInv'
    <2>1. "nested" \in Rules => Popped(source)
        BY DEF Finish, Program!Nested, Popped
    <2>4. Labelled'
        <3>2. Labelled
            BY DEF Finish
        <3>3. ASSUME NEW j \in 1 .. line, NEW k \in 1 .. Len(code'[j].jumps)
              PROVE  \E i \in 1 .. line : code'[j].jumps[k].to \in code'[i].place
            <4>1. j \in 1 .. line - 1 /\ code'[j] = code[j]
                <5>1. j # line
                    <6>1. CASE j = line
                        <7>1. code'[j] = Bare /\ Len(Bare.jumps) = 0
                            BY <1>2, <1>7, <6>1, BareIs
                        <7> QED BY <3>3, <7>1
                    <6> QED BY <6>1
                <5> QED BY <1>2, <1>7, <5>1
            <4>2. PICK i \in 1 .. line - 1 : code[j].jumps[k].to \in code[i].place
                BY <1>6, <3>2, <3>3, <4>1 DEF Labelled
            <4>3. code'[i] = code[i] /\ i \in 1 .. line
                BY <1>2, <1>7
            <4> QED BY <4>1, <4>2, <4>3
        <3> QED BY <1>7, <3>3 DEF Labelled
    <2>2. Points'[1] = Points[1]
        BY <1>2, <1>9, <1>10
    <2>3. line' = Len(source') + 2
        BY <1>1, <1>2
    <2> QED BY <1>1, <1>2, <2>1, <2>2, <2>3, <2>4 DEF PhaseInv
<1>14. /\ pc' = 1 /\ stack' = stack /\ regs' = regs /\ mem' = mem
       /\ was'[1] = [regi |-> First, call_set |-> FALSE, save_regi |-> {}]
    BY <1>1, <1>2, <1>10 DEF machine
<1>15. Coherent'
    <2> SUFFICES ASSUME NEW r \in Regs, First[r] \in Vars PROVE regs[r] = mem[First[r]]
        BY <1>14 DEF Coherent
    <2>1. r = 0 /\ First[r] = Zero
        BY FirstIs, Names
    <2> QED BY <1>2, <2>1
<1>16. StackBalanced'
    <2>1. Len(stack') = IF pc' < Program!Body(source') THEN Program!Body(source') - pc' ELSE 0
        BY <1>1, <1>2, <1>14, BodyIs
    <2> QED BY <1>14, <2>1 DEF StackBalanced
<1>17. Tidy(regi')
    BY <1>1 DEF IInv
<1> QED BY <1>8, <1>11, <1>12, <1>13, <1>15, <1>16, <1>17 DEF IInv

-----------------------------------------------------------------------------
(***************************************************************************)
(* What was emitted runs.                                                  *)
(***************************************************************************)

\* The run leaves what was compiled as it is.
Compiled == <<source, line, regi, call_set, save_regi, blocks, code, was>>

LEMMA RunKeeps ==
    ASSUME IInv, phase = "run", phase' \in {"run", "done"}, UNCHANGED Compiled
    PROVE  Tidy(regi)' /\ PhaseInv' /\ CodeInv' /\ LabelInv'
<1>1. /\ source' = source /\ line' = line /\ regi' = regi /\ call_set' = call_set
      /\ save_regi' = save_regi /\ code' = code /\ was' = was /\ ifs' = ifs /\ fors' = fors
    BY DEF Compiled, blocks
<1>2. Points' = Points
    BY <1>1 DEF Points, Now
<1>3. Tidy(regi)'
    BY <1>1 DEF IInv, Tidy
<1>4. PhaseInv'
    <2>1. Labelled'
        BY <1>1 DEF IInv, PhaseInv, Labelled
    <2> QED BY <1>1, <1>2, <2>1 DEF IInv, PhaseInv
<1>5. CodeInv'
    BY <1>1, <1>2 DEF IInv, CodeInv
<1>6. LabelInv'
    BY <1>1 DEF IInv, LabelInv
<1> QED BY <1>3, <1>4, <1>5, <1>6

LEMMA RunTypes ==
    ASSUME IInv, phase = "run", phase' \in {"run", "done"}, UNCHANGED Compiled,
           pc' \in 1 .. Len(source) + 1,
           regs' \in [Regs -> Values \cup {None}], mem' \in [Vars -> Values \cup {None}],
           stack' \in Seq(Values \cup {None})
    PROVE  TypeOK'
<1>1. /\ source' = source /\ line' = line /\ regi' = regi /\ call_set' = call_set
      /\ save_regi' = save_regi /\ code' = code /\ was' = was
      /\ ifs' = ifs /\ fors' = fors /\ whiles' = whiles /\ switches' = switches
    BY DEF Compiled, blocks
<1> QED BY <1>1 DEF IInv, TypeOK

\* The statement at pc, and its code.
LEMMA RunAt ==
    ASSUME IInv, phase = "run", pc <= Len(source)
    PROVE  /\ pc \in 1 .. Len(source) /\ pc + 1 \in 1 .. Len(source) + 1
           /\ source \in Seq(Statement) /\ source[pc] \in Statement /\ C \in Item
           /\ Len(code) = Len(source) + 1
           /\ \A j \in 1 .. Len(source) + 1 : was[j] = Points[j]
           /\ Good(was[pc], C, source[pc], was[pc + 1])
           /\ -1 \notin Used(C)
           /\ \A j \in 1 .. Len(source) + 1 :
                  /\ was[j].regi \in Table /\ was[j].call_set \in BOOLEAN
                  /\ was[j].save_regi \in SUBSET Regs
<1> DEFINE P == [regi : Table, call_set : BOOLEAN, save_regi : SUBSET Regs]
<1>1. /\ source \in Seq(Statement) /\ line = Len(source) + 2 /\ TypeOK
      /\ code \in Seq(Item) /\ Len(code) = line - 1
      /\ was \in Seq(P) /\ Len(was) = line - 1 /\ pc \in 1 .. Len(source) + 1
    BY DEF IInv, PhaseInv, TypeOK
<1>2. pc \in 1 .. Len(source) /\ pc + 1 \in 1 .. Len(source) + 1 /\ Len(source) \in Nat
    BY <1>1
<1>3. \A j \in 1 .. Len(source) + 1 : was[j] = Points[j]
    BY <1>1, <1>2, PointsAt
<1>4. pc \in 1 .. Len(code) /\ Len(code) = Len(source) + 1
    BY <1>1, <1>2
<1>5. source[pc] \in Statement /\ C \in Item
    <2> HIDE DEF P
    <2> QED BY <1>1, <1>2, <1>4 DEF C
<1>6. Good(Points[pc], C, source[pc], Points[pc + 1]) /\ -1 \notin Used(C)
    BY <1>2, <1>4 DEF IInv, CodeInv, C
<1>7. was[pc] = Points[pc] /\ was[pc + 1] = Points[pc + 1]
    BY <1>2, <1>3
<1>8. ASSUME NEW j \in 1 .. Len(source) + 1 PROVE was[j] \in P
    <2> HIDE DEF P
    <2> QED BY <1>1, <1>2
<1>9. \A j \in 1 .. Len(source) + 1 :
          /\ was[j].regi \in Table /\ was[j].call_set \in BOOLEAN
          /\ was[j].save_regi \in SUBSET Regs
    BY <1>8
<1> HIDE DEF P
<1> QED BY <1>1, <1>2, <1>3, <1>4, <1>5, <1>6, <1>7, <1>9

\* An argument or a result is popped, and nothing else is.
LEMMA PopsAt ==
    ASSUME IInv, phase = "run", pc <= Len(source), "nested" \in Rules
    PROVE  IF source[pc].op = "pop" THEN pc < Program!Body(source) \/ Answered
           ELSE ~(pc < Program!Body(source)) /\ ~Answered
<1>1. pc \in 1 .. Len(source) /\ Len(source) \in Nat
    BY RunAt
<1>2. Popped(source)
    BY DEF IInv, PhaseInv
<1>3. pc - 1 \in 0 .. Len(source) /\ pc - 1 + 1 = pc /\ pc - 1 < Len(source)
    BY <1>1
<1>4. (pc < Program!Body(source) \/ (pc - 1 > 0 /\ source[pc - 1].op = "call" /\ source[pc - 1].ret))
          <=> source[pc].op = "pop"
    BY <1>2, <1>3 DEF Popped
<1>5. pc - 1 > 0 <=> pc > 1
    BY <1>1
<1> QED BY <1>4, <1>5 DEF Answered

\* Behind a statement that is no pop the arguments are popped.
LEMMA InBody ==
    ASSUME IInv, phase = "run", NEW j \in 1 .. Len(source), source[j].op # "pop"
    PROVE  ~(j < Program!Body(source)) /\ ~(j + 1 < Program!Body(source))
<1>1. Len(source) \in Nat
    BY DEF IInv, PhaseInv
<1>2. PICK b \in 1 .. Len(source) + 1 :
          b = Program!Body(source) /\ \A k \in 1 .. b - 1 : source[k].op = "pop"
    BY <1>1, BodyIs
<1>3. ~(j < b)
    BY <1>1, <1>2
<1> QED BY <1>1, <1>2, <1>3

\* While arguments are popped nothing was called.
LEMMA NoCallYet ==
    ASSUME IInv, phase = "run", NEW j \in 1 .. Len(source) + 1, ~(j > Program!Body(source))
    PROVE  ~was[j].call_set
<1>1. Len(source) \in Nat /\ Len(code) = Len(source) + 1
    BY DEF IInv, PhaseInv, TypeOK
<1>2. PICK b \in 1 .. Len(source) + 1 :
          b = Program!Body(source) /\ \A k \in 1 .. b - 1 : source[k].op = "pop"
    BY <1>1, BodyIs
<1>3. \A k \in 1 .. Len(source) + 1 : was[k] = Points[k]
    <2>1. TypeOK /\ line - 1 = Len(source) + 1
        BY <1>1 DEF IInv, PhaseInv
    <2> QED BY <2>1, PointsAt
<1> DEFINE Late == {k \in 1 .. b : was[k].call_set}
<1>4. SUFFICES ASSUME Late # {} PROVE FALSE
    BY <1>1, <1>2
<1>5. PICK k \in Late : \A i \in Late : k <= i
    <2>1. Late \in SUBSET Nat
        BY <1>2
    <2> HIDE DEF Late
    <2> QED BY <1>4, <2>1, LeastOf
<1>6. k \in 1 .. b /\ was[k].call_set
    BY <1>5
<1>7. k # 1
    <2>1. 1 \in 1 .. Len(source) + 1
        BY <1>1
    <2>2. was[1] = Points[1] /\ Points[1] = [regi |-> First, call_set |-> FALSE, save_regi |-> {}]
        BY <1>3, <2>1 DEF IInv, PhaseInv
    <2>3. ~was[1].call_set
        BY <2>2
    <2> QED BY <1>6, <2>3
<1>8. PICK i \in 1 .. b - 1 : k = i + 1
    <2>1. k - 1 \in 1 .. b - 1 /\ k = k - 1 + 1
        BY <1>2, <1>6, <1>7
    <2> QED BY <2>1
<1>9. i \in 1 .. Len(source) /\ i \in 1 .. Len(source) + 1 /\ i + 1 \in 1 .. Len(source) + 1
    BY <1>1, <1>2
<1>10. i \in 1 .. Len(code) /\ i <= Len(source)
    BY <1>1, <1>9
<1>11. Good(Points[i], code[i], source[i], Points[i + 1])
    BY <1>10 DEF IInv, CodeInv
<1>12. was[i] = Points[i] /\ was[k] = Points[i + 1]
    BY <1>3, <1>8, <1>9
<1>13. was[i].call_set
    <2>1. source[i].op = "pop"
        BY <1>2
    <2> QED BY <1>6, <1>11, <1>12, <2>1 DEF Good
<1>14. i \in Late /\ ~(k <= i)
    BY <1>2, <1>8, <1>13
<1> QED BY <1>5, <1>14

\* Behind the loads a variable is where the table says.
LEMMA LoadedIs ==
    ASSUME IInv, phase = "run", pc <= Len(source), source[pc].op # "pop"
    PROVE  /\ Loaded \in [Regs -> Values \cup {None}]
           /\ \A t \in Table : Carried(Base(was[pc], source[pc]), C.loads, t) =>
                  \A r \in Regs : t[r] \in Vars => Loaded[r] = mem[t[r]]
<1>1. /\ C.loads \in SUBSET [var : Vars, reg : RegNum] /\ Functional(C.loads)
      /\ C.restore = IF was[pc].call_set THEN was[pc].save_regi ELSE {}
    BY RunAt DEF Item, Good
<1>2. mem \in [Vars -> Values \cup {None}] /\ regs \in [Regs -> Values \cup {None}]
    BY DEF IInv, TypeOK
<1>3. Loaded \in [Regs -> Values \cup {None}]
    <2> SUFFICES ASSUME NEW r \in Regs
                 PROVE  (IF \E l \in C.loads : l.reg = r
                         THEN mem[(CHOOSE l \in C.loads : l.reg = r).var]
                         ELSE IF r \in C.restore THEN None ELSE regs[r]) \in Values \cup {None}
        BY DEF Loaded
    <2>1. CASE \E l \in C.loads : l.reg = r
        <3> DEFINE l0 == CHOOSE l \in C.loads : l.reg = r
        <3>1. l0 \in C.loads
            BY <2>1
        <3>2. l0.var \in Vars
            BY <1>1, <3>1
        <3> QED BY <1>2, <2>1, <3>2
    <2>2. CASE ~ \E l \in C.loads : l.reg = r
        BY <1>2, <2>2
    <2> QED BY <2>1, <2>2
<1>4. ASSUME NEW t \in Table, Carried(Base(was[pc], source[pc]), C.loads, t),
             NEW r \in Regs, t[r] \in Vars
      PROVE  Loaded[r] = mem[t[r]]
    <2>1. CASE [var |-> t[r], reg |-> r] \in C.loads
        <3> DEFINE l0 == CHOOSE l \in C.loads : l.reg = r
        <3>1. l0 \in C.loads /\ l0.reg = r
            BY <2>1
        <3>2. l0 = [var |-> t[r], reg |-> r]
            BY <1>1, <2>1, <3>1 DEF Functional
        <3>3. Loaded[r] = mem[l0.var]
            BY <2>1 DEF Loaded
        <3> HIDE DEF l0
        <3>4. l0.var = t[r]
            BY <3>2
        <3> QED BY <3>3, <3>4
    <2>2. CASE [var |-> t[r], reg |-> r] \notin C.loads
        <3>1. Base(was[pc], source[pc])[r] = t[r] /\ \A l \in C.loads : l.reg # r
            BY <1>4, <2>2 DEF Carried
        <3>2. Clean[r] # t[r]
            BY <1>4, Names, Zenon DEF Clean
        <3>3. ~was[pc].call_set /\ Base(was[pc], source[pc]) = was[pc].regi
            BY <3>1, <3>2 DEF Base
        <3>4. Loaded[r] = regs[r]
            BY <1>1, <3>1, <3>3 DEF Loaded
        <3>5. (was[pc].regi)[r] \in Vars
            BY <1>4, <3>1, <3>3
        <3>6. regs[r] = mem[(was[pc].regi)[r]]
            BY <3>3, <3>5 DEF IInv, Coherent
        <3> QED BY <3>1, <3>3, <3>4, <3>6
    <2> QED BY <2>1, <2>2
<1> QED BY <1>3, <1>4

\* Behind a call whose registers are not restored there is nothing to show.
LEMMA StaysCoherent ==
    ASSUME IInv, phase = "run", pc <= Len(source), UNCHANGED <<phase, Compiled>>, pc' = pc + 1,
           ~was[pc + 1].call_set =>
               \A r \in Regs : was[pc + 1].regi[r] \in Vars => regs'[r] = mem'[was[pc + 1].regi[r]]
    PROVE  Coherent'
BY DEF Coherent, Compiled

LEMMA SetsOfRegs ==
    ASSUME NEW R \in SUBSET Regs
    PROVE  Cardinality(R) \in Nat
<1>1. MaxReg - 1 \in Int
    BY Numbers
<1>2. IsFiniteSet(Regs)
    BY <1>1, FS_Interval DEF Regs
<1>3. IsFiniteSet(R)
    BY <1>2, FS_Subset
<1> QED BY <1>3, FS_CardinalityType

LEMMA Shortened ==
    ASSUME NEW V, NEW q \in Seq(V), NEW k \in Nat
    PROVE  SubSeq(q, 1, Len(q) - k) \in Seq(V)
<1>1. Len(q) \in Nat
    OBVIOUS
<1>2. \A j \in 1 .. Len(q) - k : j \in 1 .. Len(q) /\ q[j] \in V
    BY <1>1
<1> QED BY <1>1, <1>2, SubSeqProperties

\* The stack behind what loadreg restores.
LEMMA RestoredIs ==
    ASSUME IInv, phase = "run", pc <= Len(source), source[pc].op # "pop"
    PROVE  /\ Restored \in Seq(Values \cup {None})
           /\ "nested" \in Rules => Restored = <<>>
<1>1. /\ C.restore = IF was[pc].call_set THEN was[pc].save_regi ELSE {}
      /\ was[pc].call_set \in BOOLEAN /\ was[pc].save_regi \in SUBSET Regs
      /\ pc \in 1 .. Len(source)
    BY RunAt DEF Good
<1>2. C.restore \in SUBSET Regs /\ Cardinality(C.restore) \in Nat
    BY <1>1, SetsOfRegs
<1>3. stack \in Seq(Values \cup {None})
    BY DEF IInv, TypeOK
<1>4. Restored \in Seq(Values \cup {None})
    BY <1>2, <1>3, Shortened DEF Restored
<1>5. ASSUME "nested" \in Rules PROVE Restored = <<>>
    <2>1. ~Answered /\ ~(pc < Program!Body(source))
        BY <1>5, PopsAt
    <2>2. Len(stack) = IF was[pc].call_set THEN Cardinality(was[pc].save_regi) + 0 ELSE 0
        BY <1>5, <2>1 DEF IInv, StackBalanced
    <2>3. Len(stack) = Cardinality(C.restore)
        BY <1>1, <1>2, <2>2, FS_EmptySet
    <2>4. Len(stack) - Cardinality(C.restore) = 0
        BY <1>2, <2>3
    <2> QED BY <1>3, <2>4 DEF Restored
<1> QED BY <1>4, <1>5

\* The next statement is reached with the stack that the code leaves.
LEMMA StaysBalanced ==
    ASSUME IInv, phase = "run", pc <= Len(source), UNCHANGED <<phase, Compiled>>, pc' = pc + 1,
           source[pc].op \notin {"call", "pop"}, stack' = Restored, "nested" \in Rules
    PROVE  StackBalanced'
<1>1. stack' = <<>>
    BY RestoredIs
<1>2. ~was[pc + 1].call_set
    BY RunAt DEF Good
<1>3. was' = was /\ source' = source
    BY DEF Compiled
<1>4. ~(pc' < Program!Body(source))
    BY RunAt, InBody
<1>5. Len(stack') = 0
    BY <1>1
<1> QED BY <1>2, <1>3, <1>4, <1>5 DEF StackBalanced

\* A value was computed and stored.
LEMMA StoreStep ==
    ASSUME IInv, phase = "run", pc <= Len(source), UNCHANGED <<phase, Compiled>>, pc' = pc + 1,
           source[pc].op \in {"set", "copy"}, NEW x \in Values \cup {None},
           regs' \in [Regs -> Values \cup {None}],
           \A r \in Regs \ Scratch(C, source[pc]) : regs'[r] = Loaded[r],
           mem' = [mem EXCEPT ![source[pc].to] = x], stack' = Restored
    PROVE  IInv'
<1> DEFINE n == was[pc + 1]
<1>1. /\ pc + 1 \in 1 .. Len(source) + 1
      /\ ~n.call_set /\ n.regi \in Table
      /\ Carried(Base(was[pc], source[pc]), C.loads, n.regi)
      /\ Untouched(C, source[pc], n.regi)
    BY RunAt DEF Good, Kept
<1>2. mem \in [Vars -> Values \cup {None}]
    BY DEF IInv, TypeOK
<1>3. Coherent'
    <2> SUFFICES ASSUME NEW r \in Regs, n.regi[r] \in Vars
                 PROVE  regs'[r] = mem'[n.regi[r]]
        BY StaysCoherent
    <2>1. Loaded[r] = mem[n.regi[r]]
        BY <1>1, LoadedIs
    <2>2. r \notin Scratch(C, source[pc]) /\ n.regi[r] # source[pc].to
        BY <1>1 DEF Untouched
    <2>3. mem'[n.regi[r]] = mem[n.regi[r]]
        BY <1>2, <2>2
    <2> QED BY <2>1, <2>2, <2>3
<1>4. "nested" \in Rules => StackBalanced'
    BY StaysBalanced
<1>5. TypeOK'
    <2>1. mem' \in [Vars -> Values \cup {None}]
        BY <1>2
    <2>2. stack' \in Seq(Values \cup {None})
        BY RestoredIs
    <2> QED BY <1>1, <2>1, <2>2, RunTypes
<1> QED BY <1>3, <1>4, <1>5, RunKeeps DEF IInv

LEMMA RunSetStep ==
    ASSUME IInv, RunSet, UNCHANGED <<phase, Compiled>>
    PROVE  IInv'
<1> DEFINE sum == Plus(Loaded[C.regs[1]], Loaded[C.regs[2]])
<1>1. sum \in Values \cup {None}
    BY CompilerAssumption DEF Plus
<1> HIDE DEF sum
<1>2. /\ phase = "run" /\ pc <= Len(source) /\ source[pc].op = "set"
      /\ regs' = [Loaded EXCEPT ![C.regs[3]] = sum, ![C.regs[4]] = None]
      /\ mem' = [mem EXCEPT ![source[pc].to] = sum] /\ stack' = Restored /\ pc' = pc + 1
    BY DEF RunSet, Running, sum
<1>3. Loaded \in [Regs -> Values \cup {None}]
    BY <1>2, LoadedIs
<1>4. regs' \in [Regs -> Values \cup {None}]
    BY <1>1, <1>2, <1>3
<1>5. \A r \in Regs \ Scratch(C, source[pc]) : regs'[r] = Loaded[r]
    BY <1>2, <1>3 DEF Scratch
<1> QED BY <1>1, <1>2, <1>4, <1>5, StoreStep

LEMMA RunCopyStep ==
    ASSUME IInv, RunCopy, UNCHANGED <<phase, Compiled>>
    PROVE  IInv'
<1>1. /\ phase = "run" /\ pc <= Len(source) /\ source[pc].op = "copy"
      /\ regs' = [Loaded EXCEPT ![C.regs[2]] = None]
      /\ mem' = [mem EXCEPT ![source[pc].to] = Loaded[C.regs[1]]]
      /\ stack' = Restored /\ pc' = pc + 1
    BY DEF RunCopy, Running
<1>2. Loaded \in [Regs -> Values \cup {None}]
    BY <1>1, LoadedIs
<1>3. regs' \in [Regs -> Values \cup {None}]
    BY <1>1, <1>2
<1>4. \A r \in Regs \ Scratch(C, source[pc]) : regs'[r] = Loaded[r]
    BY <1>1, <1>2 DEF Scratch
<1>5. C.regs[1] \in Regs
    <2>1. C \in Item /\ -1 \notin Used(C) /\ Untouched(C, source[pc], was[pc + 1].regi)
        BY <1>1, RunAt DEF Good, Kept
    <2>2. C.regs \in Seq(RegNum) /\ Len(C.regs) = 2
        BY <1>1, <2>1 DEF Item, Untouched
    <2>3. C.regs[1] \in RegNum /\ C.regs[1] \in Used(C)
        BY <2>2 DEF Used
    <2> QED BY <2>1, <2>3 DEF RegNum
<1>6. Loaded[C.regs[1]] \in Values \cup {None}
    BY <1>2, <1>5
<1> QED BY <1>1, <1>3, <1>4, <1>6, StoreStep

\* A call saves what it says, and its value is popped next.
LEMMA RunCallStep ==
    ASSUME IInv, NEW m \in [Vars -> Values], NEW v \in Values, RunCall(m, v),
           UNCHANGED <<phase, Compiled>>
    PROVE  IInv'
<1> DEFINE n == was[pc + 1]
           saved == [k \in 1 .. Cardinality(C.saves) |-> None]
           value == IF source[pc].ret THEN <<v>> ELSE <<>>
<1>1. /\ phase = "run" /\ pc <= Len(source) /\ source[pc].op = "call"
      /\ regs' = [r \in Regs |-> None] /\ mem' = m
      /\ stack' = Restored \o saved \o value /\ pc' = pc + 1
    BY DEF RunCall, Running
<1>2. /\ pc \in 1 .. Len(source) /\ pc + 1 \in 1 .. Len(source) + 1
      /\ n.call_set /\ n.save_regi = C.saves /\ C.saves \in SUBSET Regs
    BY <1>1, RunAt DEF Good, Item
<1>3. Cardinality(C.saves) \in Nat
    BY <1>2, SetsOfRegs
<1>4. saved \in Seq(Values \cup {None}) /\ Len(saved) = Cardinality(C.saves)
    BY <1>3
<1>5. value \in Seq(Values \cup {None}) /\ Len(value) = IF source[pc].ret THEN 1 ELSE 0
    <2>1. CASE source[pc].ret
        <3>1. value = <<v>>
            BY <2>1
        <3>2. <<v>> \in Seq(Values \cup {None}) /\ Len(<<v>>) = 1
            OBVIOUS
        <3> QED BY <2>1, <3>1, <3>2, Zenon
    <2>2. CASE ~source[pc].ret
        <3>1. value = <<>>
            BY <2>2
        <3>2. <<>> \in Seq(Values \cup {None}) /\ Len(<<>>) = 0
            OBVIOUS
        <3>3. value \in Seq(Values \cup {None}) /\ Len(value) = 0
            BY <3>1, <3>2
        <3> HIDE DEF value
        <3> QED BY <2>2, <3>3
    <2> QED BY <2>1, <2>2
<1>6. Restored \in Seq(Values \cup {None}) /\ ("nested" \in Rules => Restored = <<>>)
    BY <1>1, RestoredIs
<1> HIDE DEF saved, value
<1>7. /\ stack' \in Seq(Values \cup {None})
      /\ Len(stack') = Len(Restored) + Len(saved) + Len(value)
    <2> DEFINE V == Values \cup {None}
    <2>1. Restored \in Seq(V) /\ saved \in Seq(V) /\ value \in Seq(V)
        BY <1>4, <1>5, <1>6
    <2> HIDE DEF V
    <2>2. ASSUME NEW q1 \in Seq(V), NEW q2 \in Seq(V), NEW q3 \in Seq(V)
          PROVE  /\ q1 \o q2 \o q3 \in Seq(V)
                 /\ Len(q1 \o q2 \o q3) = Len(q1) + Len(q2) + Len(q3)
        OBVIOUS
    <2>3. /\ stack' \in Seq(V)
          /\ Len(stack') = Len(Restored) + Len(saved) + Len(value)
        BY <1>1, <2>1, <2>2, Zenon
    <2> QED BY <2>3 DEF V
<1>8. ASSUME "nested" \in Rules PROVE StackBalanced'
    <2>1. Len(stack') = Cardinality(C.saves) + (IF source[pc].ret THEN 1 ELSE 0)
        BY <1>3, <1>4, <1>5, <1>6, <1>7, <1>8
    <2>2. pc + 1 > 1 /\ pc + 1 - 1 = pc
        BY <1>2
    <2>3. source' = source /\ was' = was
        BY DEF Compiled
    <2>4. Answered' <=> source[pc].ret
        <3>1. pc' > 1 /\ pc' - 1 = pc
            <4>1. pc' = pc + 1
                BY <1>1
            <4> QED BY <1>2, <4>1
        <3>2. source'[pc' - 1] = source[pc]
            BY <2>3, <3>1, Zenon
        <3> QED BY <1>1, <3>1, <3>2 DEF Answered
    <2> QED BY <1>1, <1>2, <2>1, <2>3, <2>4 DEF StackBalanced
<1>9. Coherent'
    BY <1>1, <1>2, StaysCoherent
<1>10. TypeOK'
    <2>1. regs' \in [Regs -> Values \cup {None}] /\ mem' \in [Vars -> Values \cup {None}]
        BY <1>1
    <2> QED BY <1>1, <1>2, <1>7, <2>1, RunTypes
<1> QED BY <1>1, <1>8, <1>9, <1>10, RunKeeps DEF IInv

LEMMA RunPopStep ==
    ASSUME IInv, RunPop, UNCHANGED <<phase, Compiled>>
    PROVE  IInv'
<1> DEFINE b == was[pc]
           n == was[pc + 1]
           v == stack[Len(stack)]
<1>1. /\ phase = "run" /\ pc <= Len(source) /\ source[pc].op = "pop" /\ stack # <<>>
      /\ regs' = [regs EXCEPT ![C.regs[1]] = v, ![C.regs[2]] = None]
      /\ mem' = [mem EXCEPT ![source[pc].to] = v]
      /\ stack' = SubSeq(stack, 1, Len(stack) - 1) /\ pc' = pc + 1
    BY DEF RunPop, Running
<1>2. /\ pc \in 1 .. Len(source) /\ pc + 1 \in 1 .. Len(source) + 1
      /\ n.call_set <=> b.call_set
      /\ n.save_regi = b.save_regi /\ b.save_regi \in SUBSET Regs
      /\ ~n.call_set => /\ Carried(Base(b, source[pc]), C.loads, Kept(C, source[pc], n.regi))
                        /\ Untouched(C, source[pc], Kept(C, source[pc], n.regi))
      /\ ~n.call_set /\ C.regs[1] \in Regs =>
             n.regi[C.regs[1]] = source[pc].to /\ C.regs[1] # C.regs[2]
      /\ C.loads = {} /\ n.regi \in Table /\ source[pc].to \in Vars
    BY <1>1, RunAt, ArgsAre DEF Good
<1>3. /\ stack \in Seq(Values \cup {None}) /\ regs \in [Regs -> Values \cup {None}]
      /\ mem \in [Vars -> Values \cup {None}]
    BY DEF IInv, TypeOK
<1>4. stack' \in Seq(Values \cup {None}) /\ Len(stack') = Len(stack) - 1 /\ v \in Values \cup {None}
      /\ Len(stack) > 0
    <2> DEFINE V == Values \cup {None}
    <2> HIDE DEF V
    <2>1. ASSUME NEW q \in Seq(V), q # <<>>
          PROVE  /\ SubSeq(q, 1, Len(q) - 1) \in Seq(V) /\ Len(SubSeq(q, 1, Len(q) - 1)) = Len(q) - 1
                 /\ q[Len(q)] \in V /\ Len(q) > 0
        <3>1. Len(q) \in Nat /\ Len(q) > 0
            BY <2>1
        <3>2. \A j \in 1 .. Len(q) - 1 : j \in 1 .. Len(q) /\ q[j] \in V
            BY <3>1
        <3> DEFINE s == SubSeq(q, 1, Len(q) - 1)
        <3>3. s \in Seq(V) /\ Len(s) = IF 1 <= Len(q) - 1 THEN Len(q) - 1 - 1 + 1 ELSE 0
            BY <3>1, <3>2, SubSeqProperties
        <3>4. q[Len(q)] \in V
            BY <3>1
        <3>5. Len(s) = Len(q) - 1
            <4>1. PICK k \in Nat : k = Len(q) /\ k > 0
                BY <3>1
            <4>2. Len(s) = IF 1 <= k - 1 THEN k - 1 - 1 + 1 ELSE 0
                BY <3>3, <4>1
            <4>3. PICK h : h = Len(s)
                OBVIOUS
            <4>4. h = k - 1
                BY <4>1, <4>2, <4>3
            <4> QED BY <4>1, <4>3, <4>4
        <3> QED BY <3>1, <3>3, <3>4, <3>5
    <2>2. stack \in Seq(V)
        BY <1>3 DEF V
    <2>3. stack' \in Seq(V) /\ Len(stack') = Len(stack) - 1 /\ v \in V /\ Len(stack) > 0
        BY <1>1, <2>1, <2>2
    <2> QED BY <2>3 DEF V
<1>5. TypeOK'
    <2> HIDE DEF v
    <2>1. regs' \in [Regs -> Values \cup {None}] /\ mem' \in [Vars -> Values \cup {None}]
        BY <1>1, <1>3, <1>4
    <2> QED BY <1>1, <1>2, <1>4, <2>1, RunTypes
<1>6. Coherent'
    <2> SUFFICES ASSUME ~n.call_set, NEW r \in Regs, n.regi[r] \in Vars
                 PROVE  regs'[r] = mem'[n.regi[r]]
        BY <1>1, StaysCoherent
    <2>1. ~b.call_set /\ Base(b, source[pc]) = b.regi
        BY <1>1, <1>2 DEF Base, Resets
    <2> DEFINE t == Kept(C, source[pc], n.regi)
    <2>2. t = [n.regi EXCEPT ![C.regs[1]] = ""]
        BY <1>1 DEF Kept
    <2>3. CASE r = C.regs[1]
        <3>1. n.regi[r] = source[pc].to /\ r # C.regs[2]
            BY <1>2, <2>3
        <3>2. regs'[r] = v
            BY <1>1, <1>3, <2>3, <3>1
        <3>3. mem'[n.regi[r]] = v
            BY <1>1, <1>2, <1>3, <3>1
        <3> QED BY <3>2, <3>3
    <2>4. CASE r # C.regs[1]
        <3>1. t[r] = n.regi[r]
            BY <1>2, <2>2, <2>4 DEF Table
        <3>2. Carried(Base(b, source[pc]), C.loads, t) /\ Untouched(C, source[pc], t)
            BY <1>2
        <3> HIDE DEF t
        <3>3. b.regi[r] = n.regi[r]
            BY <1>2, <2>1, <3>1, <3>2 DEF Carried
        <3>4. regs[r] = mem[n.regi[r]]
            BY <1>1, <2>1, <3>3 DEF IInv, Coherent
        <3>5. r # C.regs[2] /\ n.regi[r] # source[pc].to
            BY <1>1, <3>1, <3>2 DEF Untouched, Scratch
        <3>6. regs'[r] = regs[r]
            BY <1>1, <1>3, <2>4, <3>5
        <3>7. mem'[n.regi[r]] = mem[n.regi[r]]
            BY <1>1, <1>3, <3>5
        <3> QED BY <3>4, <3>6, <3>7
    <2> QED BY <2>3, <2>4
<1>7. ASSUME "nested" \in Rules PROVE StackBalanced'
    <2>1. source' = source /\ was' = was /\ was'[pc'] = n
        BY <1>1 DEF Compiled
    <2>2. ~Answered'
        <3>1. pc' - 1 = pc
            BY <1>1, <1>2
        <3>2. source'[pc' - 1].op # "call"
            BY <1>1, <2>1, <3>1
        <3> QED BY <3>2 DEF Answered
    <2>3. PICK a \in 1 .. Len(source) + 1 : a = Program!Body(source)
        BY <1>2, BodyIs
    <2>4. Program!Body(source') = a
        BY <2>1, <2>3
    <2>5. CASE pc < a
        <3>1. ~b.call_set
            BY <1>1, <1>2, <2>3, <2>5, NoCallYet
        <3>2. Len(stack) = a - pc
            BY <1>1, <1>7, <2>3, <2>5, <3>1 DEF IInv, StackBalanced
        <3>3. Len(stack') = IF pc' < a THEN a - pc' ELSE 0
            <4>1. PICK l \in Int : l = Len(stack')
                BY <1>4
            <4>2. l = a - pc - 1
                BY <1>4, <3>2, <4>1
            <4>3. l = IF pc' < a THEN a - pc' ELSE 0
                BY <1>1, <1>2, <2>3, <2>5, <4>2
            <4> QED BY <4>1, <4>3
        <3>4. ~was'[pc'].call_set
            BY <1>2, <2>1, <3>1
        <3> QED BY <2>4, <3>3, <3>4 DEF StackBalanced
    <2>6. CASE ~(pc < a)
        <3>1. Answered
            BY <1>1, <1>7, <2>3, <2>6, PopsAt
        <3>2. Len(stack) = IF b.call_set THEN Cardinality(b.save_regi) + 1 ELSE 0
            BY <1>1, <1>7, <2>3, <2>6, <3>1 DEF IInv, StackBalanced
        <3>3. b.call_set /\ Len(stack) = Cardinality(b.save_regi) + 1
            BY <1>4, <3>2
        <3>4. Cardinality(b.save_regi) \in Nat
            BY <1>2, SetsOfRegs
        <3>5. Len(stack') = Cardinality(n.save_regi) + 0
            BY <1>2, <1>4, <3>3, <3>4
        <3>6. n.call_set
            BY <1>2, <3>3
        <3> HIDE DEF n
        <3>7. was'[pc'].call_set /\ Len(stack') = Cardinality(was'[pc'].save_regi) + 0
            BY <2>1, <3>5, <3>6
        <3> QED BY <2>2, <3>7 DEF StackBalanced
    <2> QED BY <2>5, <2>6
<1> QED BY <1>1, <1>5, <1>6, <1>7, RunKeeps DEF IInv

\* A jump gets where the registers are taken for nothing, or to the label
\* behind the statement itself.
LEMMA BehindIs ==
    ASSUME IInv, phase = "run", pc <= Len(source), NEW k \in 1 .. Len(C.jumps)
    PROVE  LET p == Behind(C.jumps[k].to)
           IN  /\ p \in 1 .. Len(source) + 1
               /\ ~was[p].call_set /\ ~(p < Program!Body(source))
               /\ p = pc + 1 \/ was[p].regi = Clean
<1> DEFINE label == C.jumps[k].to
           J == {j \in 1 .. Len(code) : label \in code[j].place}
           h == Highest(J)
<1>1. /\ pc \in 1 .. Len(source) /\ Len(code) = Len(source) + 1 /\ Len(code) \in Nat
      /\ Good(was[pc], C, source[pc], was[pc + 1])
    BY RunAt
<1>2. J \in SUBSET (1 .. Len(code))
    OBVIOUS
<1>3. h \in 0 .. Len(code) /\ (h # 0 => h \in J)
    <2> HIDE DEF J
    <2> QED BY <1>1, <1>2, HighestIn
<1> HIDE DEF h
<1>4. Behind(label) = h + 1
    BY DEF Behind, h
<1>5. h # 0
    <2>1. PICK i \in 1 .. Len(code) : label \in code[i].place
        <3>1. pc \in 1 .. Len(code)
            BY <1>1
        <3> QED BY <3>1 DEF IInv, PhaseInv, Labelled, C
    <2>2. i \in J
        BY <2>1
    <2> HIDE DEF J
    <2>3. Highest(J) \in J
        <3>1. J # {} /\ J \in SUBSET Nat /\ \A k1 \in J : k1 <= Len(code)
            BY <1>1, <1>2, <2>2
        <3> QED BY <1>1, <3>1, HighestOf
    <2> QED BY <1>2, <2>3 DEF h
<1>6. h \in 1 .. Len(code) /\ label \in code[h].place
    BY <1>3, <1>5
<1>7. h \in 1 .. Len(source)
    <2>1. h > Len(source) => code[h].place = {}
        BY <1>6 DEF IInv, CodeInv
    <2> QED BY <1>1, <1>6, <2>1
<1>8. Good(was[h], code[h], source[h], was[h + 1])
    <2>1. Good(Points[h], code[h], source[h], Points[h + 1])
        BY <1>6, <1>7 DEF IInv, CodeInv
    <2>2. h \in 1 .. Len(source) + 1 /\ h + 1 \in 1 .. Len(source) + 1
        BY <1>1, <1>7
    <2>3. was[h] = Points[h] /\ was[h + 1] = Points[h + 1]
        BY <2>2, RunAt
    <2> QED BY <2>1, <2>3
<1>9. source[h].op \notin {"call", "pop"} /\ (label[1] \notin Own => was[h + 1].regi = Clean)
    BY <1>6, <1>8 DEF Good, Places
<1>10. ~was[h + 1].call_set
    BY <1>8, <1>9 DEF Good
<1>11. label[1] \in Own => h = pc
    <2>1. label[1] \in Own => label \in C.place
        BY <1>1 DEF Good, Places
    <2>2. pc \in 1 .. Len(code)
        BY <1>1
    <2> QED BY <1>6, <2>1, <2>2 DEF IInv, LabelInv, C
<1>12. h + 1 \in 1 .. Len(source) + 1
    BY <1>1, <1>7
<1>13. ~(h + 1 < Program!Body(source))
    BY <1>7, <1>9, InBody
<1> QED BY <1>4, <1>9, <1>10, <1>11, <1>12, <1>13

LEMMA RunTestStep ==
    ASSUME IInv, RunTest, UNCHANGED <<phase, Compiled>>
    PROVE  IInv'
<1> DEFINE n == was[pc + 1]
<1>1. /\ phase = "run" /\ pc <= Len(source) /\ source[pc].op \notin {"set", "copy", "call", "pop"}
      /\ stack' = Restored /\ mem' = mem
      /\ regs' = IF source[pc].op = "?"
                 THEN [Loaded EXCEPT ![C.regs[3]] =
                          IF Loaded[C.regs[1]] = Loaded[C.regs[2]] THEN 1 ELSE 0]
                 ELSE Loaded
      /\ pc' = IF Leads(regs') = {} THEN pc + 1 ELSE Behind(C.jumps[Least(Leads(regs'))].to)
    BY DEF RunTest, Running
<1>2. /\ Loaded \in [Regs -> Values \cup {None}]
      /\ Restored \in Seq(Values \cup {None}) /\ ("nested" \in Rules => Restored = <<>>)
    BY <1>1, LoadedIs, RestoredIs
<1>3. /\ pc + 1 \in 1 .. Len(source) + 1
      /\ ~n.call_set /\ n.regi \in Table
      /\ Carried(Base(was[pc], source[pc]), C.loads, n.regi)
      /\ Untouched(C, source[pc], n.regi)
    BY <1>1, RunAt DEF Good, Kept
<1>4. regs' \in [Regs -> Values \cup {None}]
    <2>1. 0 \in Values /\ 1 \in Values
        BY CompilerAssumption
    <2> QED BY <1>1, <1>2, <2>1
<1>5. /\ pc' \in 1 .. Len(source) + 1 /\ ~was[pc'].call_set
      /\ ~(pc' < Program!Body(source))
      /\ pc' = pc + 1 \/ was[pc'].regi = Clean
    <2>1. CASE Leads(regs') = {}
        BY <1>1, <1>3, <2>1, RunAt, InBody
    <2>2. CASE Leads(regs') # {}
        <3>1. Leads(regs') \in SUBSET (1 .. Len(C.jumps))
            BY DEF Leads
        <3>2. Leads(regs') \in SUBSET Nat
            BY <3>1
        <3>3. Least(Leads(regs')) \in 1 .. Len(C.jumps)
            BY <2>2, <3>1, <3>2, LeastOf
        <3>4. pc' = Behind(C.jumps[Least(Leads(regs'))].to)
            BY <1>1, <2>2
        <3> QED BY <1>1, <3>3, <3>4, BehindIs
    <2> QED BY <2>1, <2>2
<1>6. was' = was /\ source' = source /\ mem' = mem
    BY <1>1 DEF Compiled
<1>7. Coherent'
    <2> SUFFICES ASSUME NEW r \in Regs, was[pc'].regi[r] \in Vars
                 PROVE  regs'[r] = mem[was[pc'].regi[r]]
        BY <1>6 DEF Coherent
    <2>1. pc' = pc + 1
        <3>1. Clean[r] \notin Vars
            BY Names, Zenon DEF Clean
        <3> QED BY <1>5, <3>1
    <2>2. n.regi[r] \in Vars /\ was[pc'] = n
        BY <2>1
    <2>3. Loaded[r] = mem[n.regi[r]]
        BY <1>1, <1>3, <2>2, LoadedIs
    <2>4. r \notin Scratch(C, source[pc])
        BY <1>3, <2>2 DEF Untouched
    <2>5. regs'[r] = Loaded[r]
        BY <1>1, <1>2, <2>4 DEF Scratch
    <2> QED BY <2>2, <2>3, <2>5
<1>8. ASSUME "nested" \in Rules PROVE StackBalanced'
    <2>1. Len(stack') = 0
        BY <1>1, <1>2, <1>8
    <2> QED BY <1>5, <1>6, <2>1 DEF StackBalanced
<1>9. TypeOK'
    <2>1. mem' \in [Vars -> Values \cup {None}]
        BY <1>1 DEF IInv, TypeOK
    <2> QED BY <1>1, <1>2, <1>4, <1>5, <2>1, RunTypes
<1> QED BY <1>1, <1>7, <1>8, <1>9, RunKeeps DEF IInv

LEMMA RunEndStep ==
    ASSUME IInv, RunFuncEnd, UNCHANGED Compiled
    PROVE  IInv'
<1>1. /\ phase = "run" /\ phase' = "done" /\ pc = Len(source) + 1
      /\ pc' = pc /\ regs' = regs /\ mem' = mem /\ stack' = Restored
    BY DEF RunFuncEnd
<1>2. /\ TypeOK /\ code \in Seq(Item) /\ Len(code) = Len(source) + 1 /\ Len(source) \in Nat
    BY <1>1 DEF IInv, PhaseInv, TypeOK
<1>3. C \in Item
    BY <1>1, <1>2 DEF C
<1>4. Cardinality(C.restore) \in Nat
    BY <1>3, SetsOfRegs DEF Item
<1>5. stack' \in Seq(Values \cup {None})
    BY <1>1, <1>2, <1>4, Shortened DEF TypeOK, Restored
<1>6. TypeOK'
    <2>1. /\ pc' \in 1 .. Len(source) + 1 /\ regs' \in [Regs -> Values \cup {None}]
          /\ mem' \in [Vars -> Values \cup {None}]
        BY <1>1, <1>2 DEF TypeOK
    <2> QED BY <1>1, <1>5, <2>1, RunTypes
<1>7. Coherent' /\ StackBalanced'
    BY <1>1 DEF Coherent, StackBalanced
<1> QED BY <1>1, <1>6, <1>7, RunKeeps DEF IInv

-----------------------------------------------------------------------------
(***************************************************************************)
(* The theorems, for sources with one (for) in a loop, nested and complete *)
(* blocks, and results that are popped.                                    *)
(***************************************************************************)

LEMMA InitIs == ASSUME Init PROVE IInv
<1>1. /\ phase = "compile" /\ source \in Programs /\ line = 1 /\ regi = First /\ call_set = FALSE
      /\ save_regi = {} /\ ifs = <<>> /\ whiles = <<>> /\ fors = <<>> /\ switches = <<>>
      /\ code = <<>> /\ was = <<>> /\ pc = 1
      /\ stack \in [1 .. Program!Body(source) - 1 -> Values]
      /\ regs = [r \in Regs |-> IF r = 0 THEN mem[Zero] ELSE None] /\ mem \in [Vars -> Values]
    BY DEF Init, First
<1>2. source \in Seq(Statement) /\ Len(source) \in Nat
    BY <1>1, ProgramsAssumption
<1>3. Tidy(regi) /\ regi \in Table
    BY <1>1, FirstIs DEF Tidy
<1>4. /\ stack \in Seq(Values) /\ stack \in Seq(Values \cup {None})
      /\ Len(stack) = Program!Body(source) - 1
    <2>1. PICK b \in Nat : b = Program!Body(source) - 1
        BY <1>2, BodyIs
    <2>2. stack \in [1 .. b -> Values]
        BY <1>1, <2>1
    <2>3. stack \in Seq(Values) /\ Len(stack) = b
        BY <2>2
    <2>4. \A j \in 1 .. b : stack[j] \in Values \cup {None}
        BY <2>2
    <2>5. stack \in Seq(Values \cup {None})
        BY <2>2, <2>4
    <2> QED BY <2>1, <2>3, <2>5
<1>5. TypeOK
    <2>1. /\ ifs \in Seq([open : BOOLEAN, plus : BOOLEAN, else_set : BOOLEAN])
          /\ whiles \in Seq(BOOLEAN) /\ fors \in Seq([open : BOOLEAN, for_def_set : BOOLEAN])
          /\ switches \in Seq(BOOLEAN) /\ code \in Seq(Item)
          /\ was \in Seq([regi : Table, call_set : BOOLEAN, save_regi : SUBSET Regs])
          /\ stack \in Seq(Values \cup {None})
        BY <1>1, <1>4
    <2>2. Len(code) = line - 1 /\ Len(was) = line - 1
        BY <1>1
    <2>3. line \in 1 .. Len(source) + 2 /\ pc \in 1 .. Len(source) + 1
        BY <1>1, <1>2
    <2>4. regs \in [Regs -> Values \cup {None}] /\ mem \in [Vars -> Values \cup {None}]
        BY <1>1, FirstIs
    <2>5. call_set \in BOOLEAN /\ save_regi \subseteq Regs /\ phase = "compile"
        BY <1>1
    <2> QED BY <1>3, <2>1, <2>2, <2>3, <2>4, <2>5 DEF TypeOK
<1>6. PhaseInv
    <2>1. Points[1] = [regi |-> First, call_set |-> FALSE, save_regi |-> {}]
        <3>1. Points = <<Now>>
            BY <1>1 DEF Points
        <3>2. Points[1] = Now
            BY <3>1
        <3>3. Now = [regi |-> First, call_set |-> FALSE, save_regi |-> {}]
            BY <1>1 DEF Now
        <3> QED BY <3>2, <3>3
    <2>2. line <= Len(source) + 1
        BY <1>1, <1>2
    <2>3. regs[0] = mem[Zero]
        BY <1>1, FirstIs
    <2> QED BY <1>1, <1>2, <1>4, <2>1, <2>2, <2>3 DEF PhaseInv
<1>7. CodeInv /\ LabelInv
    BY <1>1 DEF CodeInv, LabelInv
<1>8. Coherent /\ StackBalanced
    BY <1>1 DEF Coherent, StackBalanced
<1> QED BY <1>3, <1>5, <1>6, <1>7, <1>8 DEF IInv

LEMMA CompileKeeps ==
    ASSUME "nested" \in Rules, IInv, Compile
    PROVE  IInv'
<1>1. CASE CompileSet BY <1>1, SetStep
<1>2. CASE CompileCopy BY <1>2, CopyStep
<1>3. CASE CompileCall BY <1>3, CallStep
<1>4. CASE CompilePop BY <1>4, PopStep
<1>5. CASE CompileIf BY <1>5, IfStep
<1>6. CASE CompileCase BY <1>6, CaseStep
<1>7. CASE CompileElse BY <1>7, ElseStep
<1>8. CASE CompileEndif BY <1>8, EndifStep
<1>9. CASE CompileDo BY <1>9, DoStep
<1>10. CASE CompileWhile BY <1>10, WhileStep
<1>11. CASE CompileForLoop BY <1>11, ForLoopStep
<1>12. CASE CompileFor BY <1>12, ForStep
<1>13. CASE CompileNext BY <1>13, NextStep
<1>14. CASE CompileSwitch BY <1>14, SwitchStep
<1>15. CASE CompileSwitchEnd BY <1>15, SwitchStep
<1>16. CASE Refuse \/ BreakOutside BY <1>16, StopStep
<1>17. CASE Finish BY <1>17, FinishStep
<1> QED BY <1>1, <1>2, <1>3, <1>4, <1>5, <1>6, <1>7, <1>8, <1>9, <1>10, <1>11, <1>12, <1>13,
           <1>14, <1>15, <1>16, <1>17 DEF Compile

LEMMA RunStep ==
    ASSUME IInv, Run
    PROVE  IInv'
<1>1. UNCHANGED Compiled
    BY DEF Run, Compiled
<1>2. CASE RunSet /\ UNCHANGED phase BY <1>1, <1>2, RunSetStep
<1>3. CASE RunCopy /\ UNCHANGED phase BY <1>1, <1>3, RunCopyStep
<1>4. CASE RunPop /\ UNCHANGED phase BY <1>1, <1>4, RunPopStep
<1>5. CASE RunTest /\ UNCHANGED phase BY <1>1, <1>5, RunTestStep
<1>6. CASE \E m \in [Vars -> Values], v \in Values : RunCall(m, v) /\ UNCHANGED phase
    BY <1>1, <1>6, RunCallStep
<1>7. CASE RunFuncEnd BY <1>1, <1>7, RunEndStep
<1> QED BY <1>2, <1>3, <1>4, <1>5, <1>6, <1>7 DEF Run

LEMMA StutterStep ==
    ASSUME IInv, UNCHANGED vars
    PROVE  IInv'
<1>1. /\ phase' = phase /\ source' = source /\ line' = line /\ regi' = regi
      /\ call_set' = call_set /\ save_regi' = save_regi /\ code' = code /\ was' = was
      /\ ifs' = ifs /\ whiles' = whiles /\ fors' = fors /\ switches' = switches
      /\ pc' = pc /\ regs' = regs /\ mem' = mem /\ stack' = stack
    BY DEF vars, blocks, machine
<1> QED BY <1>1 DEF IInv, TypeOK, Tidy, PhaseInv, CodeInv, LabelInv, Coherent, StackBalanced,
                    Points, Now, Answered, Labelled

LEMMA Invariance == ASSUME "nested" \in Rules PROVE Spec => []IInv
<1>1. Init => IInv
    BY InitIs
<1>2. IInv /\ [Next]_vars => IInv'
    BY CompileKeeps, RunStep, StutterStep DEF Next
<1> QED BY <1>1, <1>2, PTL DEF Spec

\* What the compiler reads and writes has its type: the table never holds
\* what is no name of a variable, and nothing runs that was not compiled.
THEOREM AlwaysTyped == ASSUME "nested" \in Rules PROVE Spec => []TypeOK
<1>1. IInv => TypeOK
    BY DEF IInv
<1> QED BY <1>1, Invariance, PTL

\* Wherever the code gets to, by falling through or by a jump, a register
\* that the compiler takes for a variable holds that variable's value, also
\* zero's at the begin and a popped argument's: the loads that get_regi saves
\* are not missed (comp/register.c, and the calls of init_registers in the
\* handlers of comp/main.c).
THEOREM RegistersTrue == ASSUME "nested" \in Rules PROVE Spec => []Coherent
<1>1. IInv => Coherent
    BY DEF IInv
<1> QED BY <1>1, Invariance, PTL

\* On every path a call's saved registers are popped before the next of the
\* statements that use the stack, so loops of calls need no more stack than
\* one call, and what a pop takes is an argument or a result (loadreg in
\* comp/main.c).
THEOREM CallsBalanced == ASSUME "nested" \in Rules PROVE Spec => []StackBalanced
<1>1. "nested" \in Rules => (IInv => StackBalanced)
    BY DEF IInv
<1> QED BY <1>1, Invariance, PTL

-----------------------------------------------------------------------------
(***************************************************************************)
(* Which statements make up a block: those whose labels have its number.   *)
(***************************************************************************)
Inner == {"else", "for"}

Family(op) ==
    CASE op \in {"if", "if+", "?", "else", "endif", "break"} -> "if"
      [] op \in {"do", "while"} -> "while"
      [] op \in {"for-loop", "for", "next"} -> "for"
      [] OTHER -> "none"

Families == {"if", "while", "for"}

Always(tag, n) == [reg |-> None, to |-> <<tag, n>>]

\* The jumps and the labels of a statement of block n.
JumpsOf(op, R, n) ==
    CASE op = "if" -> <<[reg |-> R[1], to |-> <<"if", n>>], Always("endif", n)>>
      [] op = "if+" -> <<[reg |-> R[1], to |-> <<"if", n>>], Always("else", n)>>
      [] op = "?" -> <<[reg |-> R[3], to |-> <<"if", n>>], Always("endif", n)>>
      [] op = "else" -> <<Always("endif", n)>>
      [] op = "while" -> <<[reg |-> R[1], to |-> <<"while", n>>]>>
      [] op = "for" -> <<[reg |-> R[1], to |-> <<"for2", n>>], Always("forend", n)>>
      [] op = "next" -> <<Always("for", n)>>
      [] OTHER -> <<>>

PlaceOf(op, n) ==
    CASE op \in {"if", "if+", "?"} -> {<<"if", n>>}
      [] op = "else" -> {<<"else", n>>}
      [] op \in {"endif", "break"} -> {<<"endif", n>>}
      [] op = "do" -> {<<"while", n>>}
      [] op = "for-loop" -> {<<"for", n>>}
      [] op = "for" -> {<<"for2", n>>}
      [] op = "next" -> {<<"forend", n>>}
      [] OTHER -> {}

\* The number of the block, 0 for none.
NumberOf(c) ==
    IF c.place # {} THEN (CHOOSE l \in c.place : TRUE)[2]
    ELSE IF c.jumps # <<>> THEN c.jumps[1].to[2] ELSE 0

Lines == {j \in 1 .. Len(code) : j <= Len(source)}
Op(j) == source[j].op
Num(j) == NumberOf(code[j])

Openers(f) == {j \in Lines : Op(j) \in Program!Opening /\ Family(Op(j)) = f /\ Num(j) # 0}
Closers(f) == {j \in Lines : Op(j) \in Program!Closing /\ Family(Op(j)) = f}

\* An else goes to an if+.
Suits(op, i) == op = "else" => Op(i) = "if+"

Size(f) == CASE f = "if" -> Len(ifs) [] f = "while" -> Len(whiles) [] f = "for" -> Len(fors)

Open(f) ==
    CASE f = "if" -> {n \in 1 .. Len(ifs) : ifs[n].open}
      [] f = "while" -> {n \in 1 .. Len(whiles) : whiles[n]}
      [] f = "for" -> {n \in 1 .. Len(fors) : fors[n].open}

Plain(c) == c.jumps = <<>> /\ c.place = {}

Shape(c, op) ==
    \/ Plain(c) /\ op \notin {"else"} \cup Program!Closing
    \/ /\ NumberOf(c) \in Nat \ {0} /\ Family(op) \in Families
       /\ c.jumps = JumpsOf(op, c.regs, NumberOf(c)) /\ c.place = PlaceOf(op, NumberOf(c))

Shapes == \A j \in Lines : Shape(code[j], Op(j))

\* A statement inside or at the end of a block has the number of the last
\* one that was opened before it and not closed.
Belongs(j, i) ==
    LET f == Family(Op(j))
    IN  /\ i \in Openers(f) /\ i < j /\ Num(i) = Num(j) /\ Suits(Op(j), i)
        /\ \A k \in Closers(f) : k < j => Num(k) # Num(j)
        /\ \A h \in Openers(f) : i < h /\ h < j /\ Suits(Op(j), h) =>
               \E k \in Closers(f) : k < j /\ Num(k) = Num(h)

\* A for without an open for-loop.
Stray(j) == Op(j) = "for" /\ Plain(code[j])

Matched ==
    \A j \in Lines : Op(j) \in Inner \cup Program!Closing /\ ~Stray(j) =>
        \E i \in Lines : Belongs(j, i)

Astray ==
    \A j \in Lines : Stray(j) =>
        \A i \in Openers("for") : i < j => \E k \in Closers("for") : k < j /\ Num(k) = Num(i)

Ordered == \A f \in Families : \A i, j \in Openers(f) : i < j => Num(i) < Num(j)

Linked ==
    \A f \in Families :
        /\ \A i \in Openers(f) :
              Num(i) \in 1 .. Size(f) /\ (f = "if" => (ifs[Num(i)].plus <=> Op(i) = "if+"))
        /\ \A n \in 1 .. Size(f) :
              /\ \E i \in Openers(f) : Num(i) = n
              /\ n \in Open(f) <=> \A k \in Closers(f) : Num(k) # n

\* Register q holds v behind the loads L.
Got(t, L, q, v) ==
    \/ [var |-> v, reg |-> q] \in L
    \/ q \in Regs /\ t[q] = v /\ \A l \in L : l.reg # q

\* The arguments of a statement are in its registers.
Reads(b, c, s) ==
    /\ s.op \in {"set", "?", "copy", "if", "if+", "while", "for"} =>
           Got(Base(b, s), c.loads, c.regs[1], s.args[1])
    /\ s.op \in {"set", "?"} => Got(Base(b, s), c.loads, c.regs[2], s.args[2])
    /\ s.op = "?" => Len(c.regs) = 3

Operands == \A j \in Lines : Reads(Points[j], code[j], source[j])

Returned == phase # "done" => Passed \in Seq(Values)

BlockInv ==
    /\ Shapes /\ Matched /\ Astray /\ Ordered /\ Linked
    /\ Operands
    /\ mem \in [Vars -> Values] /\ Returned
    /\ phase \in {"run", "done"} => Program!Nested(source)

LEMMA PlainIs == ASSUME NEW c, Plain(c) PROVE NumberOf(c) = 0
BY DEF Plain, NumberOf

LEMMA NumberIs ==
    ASSUME NEW c, NEW op, Family(op) \in Families, NEW n \in Nat \ {0},
           c.jumps = JumpsOf(op, c.regs, n), c.place = PlaceOf(op, n)
    PROVE  NumberOf(c) = n /\ Shape(c, op)
<1>1. NumberOf(c) = n
    <2>1. CASE op = "while"
        <3>1. c.place = {} /\ c.jumps = <<[reg |-> c.regs[1], to |-> <<"while", n>>]>>
            BY <2>1 DEF PlaceOf, JumpsOf
        <3>2. c.jumps # <<>> /\ c.jumps[1].to[2] = n
            BY <3>1
        <3> QED BY <3>1, <3>2 DEF NumberOf
    <2>2. ASSUME NEW tag, c.place = {<<tag, n>>} PROVE NumberOf(c) = n
        <3>1. PICK q : q = CHOOSE l \in c.place : TRUE
            OBVIOUS
        <3>2. c.place # {} /\ q \in c.place
            BY <2>2, <3>1
        <3>3. q[2] = n
            BY <2>2, <3>2
        <3>4. NumberOf(c) = q[2]
            BY <3>1, <3>2 DEF NumberOf
        <3> QED BY <3>3, <3>4
    <2>3. CASE op \in {"if", "if+", "?"}
        <3>1. c.place = {<<"if", n>>}
            BY <2>3 DEF PlaceOf
        <3> QED BY <2>2, <3>1
    <2>4. CASE op \in {"endif", "break"}
        <3>1. c.place = {<<"endif", n>>}
            BY <2>4 DEF PlaceOf
        <3> QED BY <2>2, <3>1
    <2>5. CASE op \in {"else", "for-loop", "for", "next", "do"}
        <3>1. \/ c.place = {<<"else", n>>} \/ c.place = {<<"for", n>>} \/ c.place = {<<"for2", n>>}
              \/ c.place = {<<"forend", n>>} \/ c.place = {<<"while", n>>}
            BY <2>5 DEF PlaceOf
        <3> QED BY <2>2, <3>1
    <2>6. op \in {"if", "if+", "?"} \cup {"endif", "break"}
                 \cup {"else", "for-loop", "for", "next", "do"} \cup {"while"}
        BY DEF Family, Families
    <2> QED BY <2>1, <2>3, <2>4, <2>5, <2>6
<1> QED BY <1>1 DEF Shape

\* A statement was added to the code.
Adds(item) ==
    /\ line \in 1 .. Len(source) /\ Len(source) \in Nat
    /\ code \in Seq(Item) /\ Len(code) = line - 1
    /\ code' = Append(code, item) /\ source' = source

LEMMA LinesGrow ==
    ASSUME NEW item, Adds(item)
    PROVE  /\ Lines' = Lines \cup {line} /\ Lines = 1 .. line - 1 /\ line \in Nat
           /\ \A j \in Lines : j < line /\ j \in Nat /\ Num(j)' = Num(j) /\ code'[j] = code[j]
           /\ \A j : Op(j)' = Op(j)
           /\ \A j : j = line => Num(j)' = NumberOf(item) /\ code'[j] = item /\ Op(j) = S.op
           /\ S = source[line]
<1>1. /\ line \in 1 .. Len(source) /\ Len(source) \in Nat
      /\ code \in Seq(Item \cup {item}) /\ Len(code) = line - 1
      /\ code' = Append(code, item) /\ source' = source
    <2>1. code \in Seq(Item) => code \in Seq(Item \cup {item})
        OBVIOUS
    <2> QED BY <2>1 DEF Adds
<1>2. /\ Len(code') = line /\ code'[line] = item
      /\ \A j \in 1 .. line - 1 : code'[j] = code[j]
    BY <1>1
<1>3. Lines = 1 .. line - 1 /\ Lines' = 1 .. line
    BY <1>1, <1>2 DEF Lines
<1>4. S = source[line]
    BY <1>1 DEF S
<1> QED BY <1>1, <1>2, <1>3, <1>4 DEF Num, Op

LEMMA OpenersGrow ==
    ASSUME NEW item, Adds(item), NEW f
    PROVE  /\ \A j : j \in Openers(f)' <=>
                  \/ j \in Openers(f)
                  \/ j = line /\ S.op \in Program!Opening /\ Family(S.op) = f /\ NumberOf(item) # 0
           /\ \A j : j \in Closers(f)' <=>
                  j \in Closers(f) \/ (j = line /\ S.op \in Program!Closing /\ Family(S.op) = f)
           /\ \A j \in Openers(f) : j \in Lines /\ j < line /\ j \in Nat /\ Num(j)' = Num(j)
           /\ \A j \in Closers(f) : j \in Lines /\ j < line /\ j \in Nat /\ Num(j)' = Num(j)
<1>1. /\ Lines' = Lines \cup {line} /\ line \in Nat
      /\ \A j \in Lines : j < line /\ j \in Nat /\ Num(j)' = Num(j)
      /\ \A j : Op(j)' = Op(j)
      /\ \A j : j = line => Num(j)' = NumberOf(item) /\ Op(j) = S.op
    BY LinesGrow
<1>2. \A j : Family(Op(j))' = Family(Op(j))
    BY <1>1 DEF Family
<1>3. line \notin Lines
    BY <1>1
<1>4. ASSUME NEW j
      PROVE  j \in Openers(f)' <=>
                  \/ j \in Openers(f)
                  \/ j = line /\ S.op \in Program!Opening /\ Family(S.op) = f /\ NumberOf(item) # 0
    BY <1>1, <1>2, <1>3 DEF Openers, Program!Opening
<1>5. ASSUME NEW j
      PROVE  j \in Closers(f)' <=>
                  j \in Closers(f) \/ (j = line /\ S.op \in Program!Closing /\ Family(S.op) = f)
    BY <1>1, <1>2, <1>3 DEF Closers, Program!Closing
<1>6. Openers(f) \subseteq Lines /\ Closers(f) \subseteq Lines
    BY DEF Openers, Closers
<1> QED BY <1>1, <1>4, <1>5, <1>6

Forms == Shapes /\ Matched /\ Astray /\ Ordered /\ Linked

LEMMA FormStep ==
    ASSUME Forms, NEW item, Adds(item), Shape(item, S.op),
           NEW g, g = Family(S.op), NEW n, n = NumberOf(item),
           \A f \in Families : Size(f) \in Nat,
           S.op \in Inner \cup Program!Closing /\ ~(S.op = "for" /\ Plain(item)) =>
               /\ n \in Open(g) /\ (S.op = "else" => ifs[n].plus)
               /\ \A m \in Open(g) : (S.op = "else" => ifs[m].plus) => m <= n,
           S.op = "for" /\ Plain(item) => Open("for") = {},
           S.op \in Program!Opening /\ n # 0 =>
               /\ n = Size(g) + 1 /\ Size(g)' = n /\ Open(g)' = Open(g) \cup {n}
               /\ g = "if" => (ifs'[n].plus <=> S.op = "if+"),
           ~(S.op \in Program!Opening /\ n # 0) /\ g \in Families =>
               /\ Size(g)' = Size(g)
               /\ Open(g)' = IF S.op \in Program!Closing THEN Open(g) \ {n} ELSE Open(g),
           \A f \in Families \ {g} : Size(f)' = Size(f) /\ Open(f)' = Open(f),
           \A m \in 1 .. Len(ifs) : ifs'[m].plus <=> ifs[m].plus
    PROVE  Forms'
<1> DEFINE begins == S.op \in Program!Opening /\ n # 0
<1>1. /\ Lines' = Lines \cup {line} /\ Lines = 1 .. line - 1 /\ line \in Nat
      /\ \A j \in Lines : j < line /\ j \in Nat /\ Num(j)' = Num(j) /\ code'[j] = code[j]
      /\ \A j : Op(j)' = Op(j)
      /\ \A j : j = line => Num(j)' = n /\ code'[j] = item /\ Op(j) = S.op
    BY LinesGrow
<1>2. \A f : /\ \A j : j \in Openers(f)' <=> j \in Openers(f) \/ (j = line /\ g = f /\ begins)
             /\ \A j : j \in Closers(f)' <=>
                    j \in Closers(f) \/ (j = line /\ S.op \in Program!Closing /\ g = f)
             /\ \A j \in Openers(f) : j \in Lines /\ j < line /\ j \in Nat /\ Num(j)' = Num(j)
             /\ \A j \in Closers(f) : j \in Lines /\ j < line /\ j \in Nat /\ Num(j)' = Num(j)
    BY OpenersGrow
<1>3. \A f \in Families : \A i \in Openers(f) : Num(i) \in 1 .. Size(f)
    BY DEF Forms, Linked
<1>4. S.op \in Program!Closing => S.op \notin Program!Opening
    BY DEF Program!Closing, Program!Opening
<1>5. Shapes'
    BY <1>1 DEF Forms, Shapes
<1>6. Ordered'
    <2> SUFFICES ASSUME NEW f \in Families, NEW i \in Openers(f)', NEW j \in Openers(f)', i < j
                 PROVE  Num(i)' < Num(j)'
        BY DEF Ordered
    <2>1. CASE i \in Openers(f) /\ j \in Openers(f)
        BY <1>2, <2>1 DEF Forms, Ordered
    <2>2. CASE i \in Openers(f) /\ j = line /\ g = f /\ begins
        <3>1. Num(i)' \in 1 .. Size(f) /\ Size(f) \in Nat
            BY <1>2, <1>3, <2>2
        <3>2. Num(j)' = Size(f) + 1
            BY <1>1, <2>2
        <3> QED BY <3>1, <3>2
    <2>3. CASE i = line
        <3>1. j = line \/ j < line
            BY <1>2
        <3> QED BY <1>1, <1>2, <2>3, <3>1
    <2> QED BY <1>2, <2>1, <2>2, <2>3
<1>7. Matched'
    <2> SUFFICES ASSUME NEW j \in Lines', Op(j) \in Inner \cup Program!Closing,
                        ~(Op(j) = "for" /\ Plain(code'[j]))
                 PROVE  \E i \in Lines' : Belongs(j, i)'
        BY <1>1 DEF Matched, Program!Closing, Stray, Plain
    <2>1. CASE j \in Lines
        <3>1. PICK i \in Lines : Belongs(j, i)
            BY <1>1, <2>1 DEF Forms, Matched, Stray
        <3>2. Num(i)' = Num(i) /\ Num(j)' = Num(j) /\ j < line /\ j \in Nat /\ line \in Nat
            BY <1>1, <2>1
        <3>3. Belongs(j, i)'
            <4>1. PICK f : f = Family(Op(j))
                OBVIOUS
            <4>2. Family(Op(j))' = f /\ Op(j)' = Op(j)
                BY <1>1, <4>1 DEF Family
            <4>3. \A h : Suits(Op(j), h)' <=> Suits(Op(j), h)
                BY <1>1 DEF Suits
            <4>4. /\ i \in Openers(f) /\ i < j /\ Num(i) = Num(j) /\ Suits(Op(j), i)
                  /\ \A k \in Closers(f) : k < j => Num(k) # Num(j)
                  /\ \A h \in Openers(f) : i < h /\ h < j /\ Suits(Op(j), h) =>
                         \E k \in Closers(f) : k < j /\ Num(k) = Num(h)
                BY <3>1, <4>1 DEF Belongs
            <4>5. /\ \A k \in Closers(f)' : k < j => k \in Closers(f) /\ Num(k)' = Num(k)
                  /\ \A h \in Openers(f)' : h < j => h \in Openers(f) /\ Num(h)' = Num(h)
                  /\ \A k \in Closers(f) : k \in Closers(f)' /\ Num(k)' = Num(k)
                BY <1>2, <3>2
            <4>6. i \in Openers(f)' /\ Num(i)' = Num(j)'
                BY <1>2, <3>2, <4>4
            <4>7. \A k \in Closers(f)' : k < j => Num(k)' # Num(j)'
                BY <3>2, <4>4, <4>5
            <4>8. ASSUME NEW h \in Openers(f)', i < h, h < j, Suits(Op(j), h)
                  PROVE  \E k \in Closers(f)' : k < j /\ Num(k)' = Num(h)'
                BY <4>4, <4>5, <4>8
            <4> QED BY <4>2, <4>3, <4>4, <4>6, <4>7, <4>8 DEF Belongs
        <3> QED BY <1>1, <3>3
    <2>2. CASE j = line
        <3>1. /\ S.op \in Inner \cup Program!Closing /\ ~begins
              /\ ~(S.op = "for" /\ Plain(item))
            BY <1>1, <2>2 DEF Inner, Program!Closing, Program!Opening
        <3>2. /\ n \in Open(g) /\ (S.op = "else" => ifs[n].plus)
              /\ \A m \in Open(g) : (S.op = "else" => ifs[m].plus) => m <= n
            BY <3>1
        <3>3. g \in Families /\ (S.op = "else" => g = "if")
            BY <3>1 DEF Inner, Program!Closing, Family, Families
        <3>4. n \in 1 .. Size(g)
            BY <3>2, <3>3 DEF Open, Size, Families
        <3>5. PICK i \in Openers(g) : Num(i) = n
            BY <3>3, <3>4 DEF Forms, Linked
        <3>6. Suits(S.op, i)
            BY <3>2, <3>3, <3>5 DEF Suits, Forms, Linked
        <3>7. \A k \in Closers(g) : Num(k) # n
            BY <3>2, <3>3, <3>4 DEF Forms, Linked
        <3>8. ASSUME NEW h \in Openers(g), i < h, Suits(S.op, h)
              PROVE  \E k \in Closers(g) : Num(k) = Num(h)
            <4>1. n < Num(h) /\ Num(h) \in 1 .. Size(g) /\ Size(g) \in Nat
                BY <1>3, <3>3, <3>5, <3>8 DEF Forms, Ordered
            <4>2. S.op = "else" => ifs[Num(h)].plus
                BY <3>3, <3>8 DEF Suits, Forms, Linked
            <4>3. Num(h) \notin Open(g)
                <5>1. Num(h) \in Open(g) => Num(h) <= n
                    BY <3>2, <4>2
                <5> QED BY <3>4, <4>1, <5>1
            <4> QED BY <3>3, <4>1, <4>3 DEF Forms, Linked
        <3>9. Belongs(j, i)'
            <4>1. \A k \in Closers(g)' : k < line => k \in Closers(g)
                BY <1>1, <1>2
            <4>2. \A h \in Openers(g)' : h < line => h \in Openers(g)
                BY <1>1, <1>2
            <4>3. \A k \in Closers(g) : k \in Closers(g)' /\ k < line /\ Num(k)' = Num(k)
                BY <1>2
            <4>4. i \in Openers(g)' /\ i < line /\ Num(i)' = n /\ Num(j)' = n
                BY <1>1, <1>2, <2>2, <3>5
            <4>5. Op(j)' = S.op /\ Suits(Op(j), i)' /\ \A h : Suits(Op(j), h)' <=> Suits(S.op, h)
                BY <1>1, <2>2, <3>6 DEF Suits
            <4>6. \A k \in Closers(g)' : k < line => Num(k)' # n
                BY <3>7, <4>1, <4>3
            <4>7. ASSUME NEW h \in Openers(g)', i < h, h < line, Suits(S.op, h)
                  PROVE  \E k \in Closers(g)' : k < line /\ Num(k)' = Num(h)'
                <5>1. h \in Openers(g) /\ Num(h)' = Num(h)
                    BY <1>2, <4>2, <4>7
                <5> QED BY <3>8, <4>3, <4>7, <5>1
            <4>8. Family(Op(j))' = g
                BY <4>5 DEF Family
            <4> QED BY <2>2, <4>4, <4>5, <4>6, <4>7, <4>8 DEF Belongs
        <3>10. i \in Lines'
            BY <1>1, <1>2
        <3> QED BY <2>2, <3>9, <3>10
    <2> QED BY <1>1, <2>1, <2>2
<1>8. Linked'
    <2> SUFFICES ASSUME NEW f \in Families
                 PROVE  /\ \A i \in Openers(f)' : Num(i)' \in 1 .. Size(f)'
                               /\ (f = "if" => (ifs'[Num(i)'].plus <=> Op(i)' = "if+"))
                        /\ \A m \in 1 .. Size(f)' :
                              /\ \E i \in Openers(f)' : Num(i)' = m
                              /\ m \in Open(f)' <=> \A k \in Closers(f)' : Num(k)' # m
        BY DEF Linked
    <2>1. /\ Size(f) \in Nat
          /\ \A i \in Openers(f) :
                Num(i) \in 1 .. Size(f) /\ (f = "if" => (ifs[Num(i)].plus <=> Op(i) = "if+"))
          /\ \A m \in 1 .. Size(f) :
                /\ \E i \in Openers(f) : Num(i) = m
                /\ m \in Open(f) <=> \A k \in Closers(f) : Num(k) # m
        BY DEF Forms, Linked
    <2>2. Open(f) \subseteq 1 .. Size(f)
        BY DEF Open, Size, Families
    <2>3. f = "if" => Size(f) = Len(ifs)
        BY DEF Size
    <2>4. CASE f = g /\ begins
        <3>1. n = Size(f) + 1 /\ Size(f)' = n /\ Open(f)' = Open(f) \cup {n}
              /\ (f = "if" => (ifs'[n].plus <=> S.op = "if+"))
            BY <2>4
        <3>2. \A j : j \in Closers(f)' <=> j \in Closers(f)
            BY <1>2, <1>4, <2>4
        <3>3. \A j : j \in Openers(f)' <=> j \in Openers(f) \/ j = line
            BY <1>2, <2>4
        <3>4. ASSUME NEW i \in Openers(f)'
              PROVE  Num(i)' \in 1 .. Size(f)' /\ (f = "if" => (ifs'[Num(i)'].plus <=> Op(i)' = "if+"))
            <4>1. CASE i = line
                BY <1>1, <2>1, <3>1, <4>1
            <4>2. CASE i \in Openers(f)
                <5>1. Num(i)' = Num(i) /\ Num(i) \in 1 .. Size(f) /\ Num(i) \in 1 .. Size(f)'
                    BY <1>2, <2>1, <3>1, <4>2
                <5> QED BY <1>1, <2>1, <2>3, <4>2, <5>1
            <4> QED BY <3>3, <4>1, <4>2
        <3>5. ASSUME NEW m \in 1 .. Size(f)'
              PROVE  /\ \E i \in Openers(f)' : Num(i)' = m
                     /\ m \in Open(f)' <=> \A k \in Closers(f)' : Num(k)' # m
            <4>1. CASE m = n
                <5>1. \A k \in Closers(f) : Num(k) # n
                    <6> SUFFICES ASSUME NEW k \in Closers(f) PROVE Num(k) # n
                        OBVIOUS
                    <6>1. k \in Lines /\ Op(k) \in Program!Closing /\ Family(Op(k)) = f
                        BY DEF Closers
                    <6>2. PICK i \in Lines : Belongs(k, i)
                        BY <6>1 DEF Forms, Matched, Stray, Program!Closing
                    <6>3. i \in Openers(f) /\ Num(i) = Num(k)
                        BY <6>1, <6>2 DEF Belongs
                    <6> QED BY <2>1, <3>1, <6>3
                <5> QED BY <1>1, <1>2, <3>1, <3>2, <3>3, <4>1, <5>1
            <4>2. CASE m # n
                <5>1. m \in 1 .. Size(f)
                    BY <2>1, <3>1, <4>2
                <5> QED BY <1>2, <2>1, <3>1, <3>2, <3>3, <4>2, <5>1
            <4> QED BY <4>1, <4>2
        <3> QED BY <3>4, <3>5
    <2>5. CASE ~(f = g /\ begins)
        <3>1. /\ Size(f)' = Size(f)
              /\ Open(f)' = IF f = g /\ S.op \in Program!Closing THEN Open(f) \ {n} ELSE Open(f)
            BY <2>5, <1>4
        <3>2. \A j : j \in Openers(f)' <=> j \in Openers(f)
            BY <1>2, <2>5
        <3>3. ASSUME NEW i \in Openers(f)'
              PROVE  Num(i)' \in 1 .. Size(f)' /\ (f = "if" => (ifs'[Num(i)'].plus <=> Op(i)' = "if+"))
            BY <1>1, <1>2, <2>1, <2>3, <3>1, <3>2
        <3>4. ASSUME NEW m \in 1 .. Size(f)'
              PROVE  \E i \in Openers(f)' : Num(i)' = m
            BY <1>2, <2>1, <3>1, <3>2
        <3>5. ASSUME NEW m \in 1 .. Size(f)'
              PROVE  m \in Open(f)' <=> \A k \in Closers(f)' : Num(k)' # m
            BY <1>1, <1>2, <2>1, <3>1
        <3> QED BY <3>3, <3>4, <3>5
    <2> QED BY <2>4, <2>5
<1>9. Astray'
    <2> SUFFICES ASSUME NEW j \in Lines', Op(j) = "for", Plain(code'[j]),
                        NEW i \in Openers("for")', i < j
                 PROVE  \E k \in Closers("for")' : k < j /\ Num(k)' = Num(i)'
        BY <1>1 DEF Astray, Stray, Plain
    <2>1. i \in Openers("for") /\ Num(i)' = Num(i)
        <3>1. j < line \/ j = line
            BY <1>1
        <3>2. i # line
            BY <1>1, <3>1
        <3> QED BY <1>2, <3>2
    <2>2. \A k \in Closers("for") : k \in Closers("for")' /\ k < line /\ Num(k)' = Num(k)
        BY <1>2
    <2>3. CASE j \in Lines
        <3>1. Stray(j)
            BY <1>1, <2>3 DEF Stray
        <3>2. PICK k \in Closers("for") : k < j /\ Num(k) = Num(i)
            BY <2>1, <2>3, <3>1 DEF Forms, Astray
        <3> QED BY <2>1, <2>2, <3>2
    <2>4. CASE j = line
        <3>1. Open("for") = {} /\ "for" \in Families
            BY <1>1, <2>4 DEF Families
        <3>2. Num(i) \in 1 .. Size("for")
            BY <1>3, <2>1, <3>1
        <3>3. PICK k \in Closers("for") : Num(k) = Num(i)
            BY <3>1, <3>2 DEF Forms, Linked
        <3> QED BY <2>1, <2>2, <2>4, <3>3
    <2> QED BY <1>1, <2>3, <2>4
<1> QED BY <1>5, <1>6, <1>7, <1>8, <1>9 DEF Forms

LEMMA AddsIs ==
    ASSUME IInv, NEW ops, Compiling(ops), NEW t, NEW item, Put(t, item)
    PROVE  /\ Adds(item) /\ \A f \in Families : Size(f) \in Nat
           /\ Base(Now, S) = Before
           /\ S \in Statement /\ S.op \in ops /\ Tidy(Before)
<1>1. TypeOK /\ line \in 1 .. Len(source) /\ S \in Statement /\ S.op \in ops /\ Tidy(Before)
    BY StatementIs
<1>2. Adds(item)
    BY <1>1 DEF TypeOK, Put, Adds, IInv, PhaseInv
<1>3. \A f \in Families : Size(f) \in Nat
    BY <1>1 DEF TypeOK, Size, Families
<1>4. Base(Now, S) = Before
    BY DEF Base, Before, Reload, Now
<1> QED BY <1>1, <1>2, <1>3, <1>4

\* A statement that opens nothing, or finds its table full; or a for without
\* an open for-loop.
LEMMA PlainForm ==
    ASSUME IInv, Forms, NEW ops, Compiling(ops), NEW t, NEW item, Put(t, item), Plain(item),
           S.op \notin {"else"} \cup Program!Closing, S.op = "for" => Open("for") = {},
           UNCHANGED <<ifs, whiles, fors>>
    PROVE  Forms'
<1>1. Adds(item) /\ \A f \in Families : Size(f) \in Nat
    BY AddsIs
<1>2. Shape(item, S.op) /\ NumberOf(item) = 0
    BY PlainIs DEF Shape
<1>3. \A f \in Families : Size(f)' = Size(f) /\ Open(f)' = Open(f)
    BY DEF Families, Size, Open
<1>4. \A m \in 1 .. Len(ifs) : ifs'[m].plus <=> ifs[m].plus
    OBVIOUS
<1>5. PICK g : g = Family(S.op)
    OBVIOUS
<1>6. S.op \in Inner \cup Program!Closing => S.op = "for"
    BY DEF Inner
<1> QED BY <1>1, <1>2, <1>3, <1>4, <1>5, <1>6, FormStep

\* A statement that opens a block.
LEMMA OpenForm ==
    ASSUME IInv, Forms, NEW ops, Compiling(ops), NEW t, NEW item, Put(t, item),
           S.op \in Program!Opening, NEW g, g = Family(S.op), NEW n, n = Size(g) + 1,
           item.jumps = JumpsOf(S.op, item.regs, n), item.place = PlaceOf(S.op, n),
           Size(g)' = n, Open(g)' = Open(g) \cup {n},
           g = "if" => /\ ifs'[n].plus <=> S.op = "if+"
                       /\ \A m \in 1 .. Len(ifs) : ifs'[m].plus <=> ifs[m].plus,
           g # "if" => UNCHANGED ifs, g # "while" => UNCHANGED whiles, g # "for" => UNCHANGED fors
    PROVE  Forms'
<1>1. Adds(item) /\ \A f \in Families : Size(f) \in Nat
    BY AddsIs
<1>2. g \in Families /\ Size(g) \in Nat /\ n \in Nat \ {0}
    <2>1. g \in Families
        BY DEF Program!Opening, Family, Families
    <2> QED BY <1>1, <2>1
<1>3. Shape(item, S.op) /\ NumberOf(item) = n
    BY <1>2, NumberIs
<1>4. \A f \in Families \ {g} : Size(f)' = Size(f) /\ Open(f)' = Open(f)
    BY DEF Families, Size, Open
<1>5. S.op \notin Inner \cup Program!Closing /\ S.op # "for"
    BY DEF Inner, Program!Closing, Program!Opening
<1>6. \A m \in 1 .. Len(ifs) : ifs'[m].plus <=> ifs[m].plus
    OBVIOUS
<1>7. /\ n = Size(g) + 1 /\ Size(g)' = n /\ Open(g)' = Open(g) \cup {n}
      /\ g = "if" => (ifs'[n].plus <=> S.op = "if+")
    OBVIOUS
<1>8. S.op \in Program!Opening /\ n # 0
    BY <1>2
<1> QED BY <1>1, <1>3, <1>4, <1>5, <1>6, <1>7, <1>8, FormStep

\* A statement inside a block, or at its end.
LEMMA InForm ==
    ASSUME IInv, Forms, NEW ops, Compiling(ops), NEW t, NEW item, Put(t, item),
           S.op \in Inner \cup Program!Closing, NEW g, g = Family(S.op), NEW n \in Nat \ {0},
           item.jumps = JumpsOf(S.op, item.regs, n), item.place = PlaceOf(S.op, n),
           n \in Open(g), S.op = "else" => ifs[n].plus,
           \A m \in Open(g) : (S.op = "else" => ifs[m].plus) => m <= n,
           Size(g)' = Size(g),
           Open(g)' = (IF S.op \in Program!Closing THEN Open(g) \ {n} ELSE Open(g)),
           \A m \in 1 .. Len(ifs) : ifs'[m].plus <=> ifs[m].plus,
           g # "if" => UNCHANGED ifs, g # "while" => UNCHANGED whiles, g # "for" => UNCHANGED fors
    PROVE  Forms'
<1>1. Adds(item) /\ \A f \in Families : Size(f) \in Nat
    BY AddsIs
<1>2. g \in Families
    BY DEF Program!Closing, Inner, Family, Families
<1>3. Shape(item, S.op) /\ NumberOf(item) = n
    BY <1>2, NumberIs
<1>4. \A f \in Families \ {g} : Size(f)' = Size(f) /\ Open(f)' = Open(f)
    BY DEF Families, Size, Open
<1>5. S.op \notin Program!Opening /\ ~Plain(item)
    <2>1. NumberOf(item) # 0
        BY <1>3
    <2> QED BY <2>1, PlainIs DEF Inner, Program!Closing, Program!Opening
<1> QED BY <1>1, <1>3, <1>4, <1>5, FormStep

\* Two variables one after the other are where the code looks for them.
LEMMA GotIs ==
    ASSUME NEW t, Tidy(t), NEW x \in Vars
    PROVE  LET p == Reg(t, x)
           IN  /\ Loads(t, x) = (IF Holds(t, x) THEN {} ELSE {[var |-> x, reg |-> p]})
               /\ Holds(t, x) => p \in Regs /\ t[p] = x
               /\ ~Holds(t, x) => p \in RegNum /\ (p \in Regs => t[p] \notin Vars)
               /\ \A r \in Regs : With(t, x)[r] = IF r = p THEN x ELSE t[r]
<1>1. t \in Table
    BY DEF Tidy
<1>2. Holds(t, x) => Reg(t, x) \in Regs /\ t[Reg(t, x)] = x
    BY <1>1, RegIs
<1>3. ~Holds(t, x) => Reg(t, x) = FreeReg(t)
    BY <1>1, RegIs
<1>4. FreeReg(t) \in RegNum /\ (FreeReg(t) \in Regs => t[FreeReg(t)] \notin Vars)
    <2>1. FreeReg(t) \in RegNum /\ (FreeReg(t) # -1 => t[FreeReg(t)] = "")
        BY <1>1, FreeRegIs
    <2> QED BY <2>1, Numbers, Names
<1>5. PICK p : p = Reg(t, x)
    OBVIOUS
<1>6. With(t, x) = [t EXCEPT ![p] = x]
    BY <1>5 DEF With
<1>7. \A r \in Regs : With(t, x)[r] = IF r = p THEN x ELSE t[r]
    BY <1>1, <1>6 DEF Table
<1>8. Loads(t, x) = IF Holds(t, x) THEN {} ELSE {[var |-> x, reg |-> p]}
    BY <1>5 DEF Loads
<1> QED BY <1>2, <1>3, <1>4, <1>5, <1>7, <1>8

LEMMA GotTwice ==
    ASSUME NEW t, Tidy(t), NEW x \in Vars, NEW y \in Vars
    PROVE  LET L == Loads(t, x) \cup Loads(With(t, x), y)
           IN  Got(t, L, Reg(t, x), x) /\ Got(t, L, Reg(With(t, x), y), y)
<1>a. PICK t1 : t1 = With(t, x)
    OBVIOUS
<1>b. PICK p : p = Reg(t, x)
    OBVIOUS
<1>c. PICK q : q = Reg(t1, y)
    OBVIOUS
<1>1. Tidy(t1)
    BY <1>a, WithIs
<1>2. /\ Loads(t, x) = (IF Holds(t, x) THEN {} ELSE {[var |-> x, reg |-> p]})
      /\ Holds(t, x) => p \in Regs /\ t[p] = x
      /\ \A r \in Regs : t1[r] = IF r = p THEN x ELSE t[r]
    BY <1>a, <1>b, GotIs
<1>3. /\ Loads(t1, y) = (IF Holds(t1, y) THEN {} ELSE {[var |-> y, reg |-> q]})
      /\ Holds(t1, y) => q \in Regs /\ t1[q] = y
      /\ ~Holds(t1, y) => (q \in Regs => t1[q] \notin Vars)
    BY <1>1, <1>c, GotIs
<1> DEFINE L == Loads(t, x) \cup Loads(t1, y)
<1>4. Got(t, L, p, x)
    <2>1. CASE Holds(t, x)
        <3>1. p \in Regs /\ t[p] = x /\ t1[p] = x
            BY <1>2, <2>1
        <3>2. \A l \in L : l.reg = q /\ ~Holds(t1, y)
            BY <1>2, <1>3, <2>1
        <3>3. ~Holds(t1, y) => q # p
            BY <1>3, <3>1
        <3> QED BY <3>1, <3>2, <3>3 DEF Got
    <2>2. CASE ~Holds(t, x)
        BY <1>2, <2>2 DEF Got
    <2> QED BY <2>1, <2>2
<1>5. Got(t, L, q, y)
    <2>1. CASE Holds(t1, y)
        <3>1. q \in Regs /\ t1[q] = y /\ L = Loads(t, x)
            BY <1>3, <2>1
        <3>2. CASE q = p
            <4>1. x = y
                BY <1>2, <3>1, <3>2
            <4> QED BY <1>4, <3>2, <4>1
        <3>3. CASE q # p
            <4>1. t[q] = y /\ \A l \in L : l.reg = p
                BY <1>2, <3>1, <3>3
            <4> QED BY <3>1, <3>3, <4>1 DEF Got
        <3> QED BY <3>2, <3>3
    <2>2. CASE ~Holds(t1, y)
        BY <1>3, <2>2 DEF Got
    <2> QED BY <2>1, <2>2
<1> QED BY <1>4, <1>5, <1>a, <1>b, <1>c

LEMMA GotOnce ==
    ASSUME NEW t, Tidy(t), NEW x \in Vars
    PROVE  Got(t, Loads(t, x), Reg(t, x), x)
BY GotIs DEF Got
-----------------------------------------------------------------------------
(***************************************************************************)
(* One more statement is compiled.                                         *)
(***************************************************************************)
\* What was passed stays while pc and the stack do.
LEMMA PassedStill ==
    ASSUME Returned, phase # "done", UNCHANGED <<source, pc, stack>>
    PROVE  Returned'
<1>1. Answered' <=> Answered
    BY DEF Answered
<1>2. Passed' = Passed
    BY <1>1 DEF Passed
<1> QED BY <1>2 DEF Returned

LEMMA BlockPut ==
    ASSUME IInv, BlockInv, NEW ops, Compiling(ops), NEW t, NEW item, Put(t, item),
           Forms', Reads(Now, item, S)
    PROVE  BlockInv'
<1>1. TypeOK /\ phase = "compile"
    BY StatementIs
<1>2. Adds(item)
    BY AddsIs
<1>3. /\ Lines' = Lines \cup {line} /\ Lines = 1 .. line - 1 /\ line \in Nat \ {0}
      /\ \A j \in Lines : j < line /\ code'[j] = code[j]
      /\ code'[line] = item /\ S = source[line]
    BY <1>2, LinesGrow DEF Adds
<1>4. /\ \A j \in 1 .. line : Points'[j] = Points[j]
      /\ Points[line] = Now
    BY <1>1, PointsPut, PointsAt
<1>5. source' = source /\ mem' = mem /\ phase' \in {"compile", "broken"}
    BY <1>1 DEF Put, machine
<1>6. ASSUME NEW j \in Lines' PROVE Reads(Points'[j], code'[j], source'[j])
    <2>1. CASE j = line
        BY <1>3, <1>4, <1>5, <2>1
    <2>2. CASE j \in Lines
        <3>1. j \in 1 .. line
            BY <1>3, <2>2
        <3>2. Reads(Points[j], code[j], source[j])
            BY <2>2 DEF BlockInv, Operands
        <3> QED BY <1>3, <1>4, <1>5, <2>2, <3>1, <3>2
    <2> QED BY <1>3, <2>1, <2>2
<1>7. Operands'
    BY <1>6 DEF Operands
<1>8. Returned'
    <2>1. UNCHANGED <<source, pc, stack>>
        BY <1>1 DEF Put, machine
    <2> QED BY <1>1, <2>1, PassedStill DEF BlockInv
<1>9. mem' \in [Vars -> Values]
    BY <1>5 DEF BlockInv
<1> QED BY <1>5, <1>7, <1>8, <1>9 DEF BlockInv, Forms

LEMMA PlainBlock ==
    ASSUME IInv, BlockInv, NEW ops, Compiling(ops), NEW t, NEW item, Put(t, item), Plain(item),
           S.op \notin Inner \cup Program!Closing, UNCHANGED <<ifs, whiles, fors>>,
           Reads(Now, item, S)
    PROVE  BlockInv'
<1>1. Forms
    BY DEF BlockInv, Forms
<1>2. S.op \notin {"else"} \cup Program!Closing /\ S.op # "for"
    BY DEF Inner
<1>3. Forms'
    BY <1>1, <1>2, PlainForm
<1> QED BY <1>3, BlockPut

LEMMA SetBlock == ASSUME IInv, BlockInv, CompileSet PROVE BlockInv'
<1> DEFINE x == S.args[1]
           y == S.args[2]
           t1 == With(Before, x)
           t2 == With(t1, y)
           t3 == Temp(t2)
           t == Without(Temp(t3), S.to)
           L == Loads(Before, x) \cup Loads(t1, y)
           R == <<Reg(Before, x), Reg(t1, y), FreeReg(t2), FreeReg(t3)>>
           item == [Bare EXCEPT !.loads = L, !.regs = R]
<1>1. Compiling({"set"}) /\ Emit(t, item) /\ UNCHANGED blocks
    BY DEF CompileSet
<1>2. Put(t, item)
    BY <1>1 DEF Emit
<1>3. S \in Statement /\ S.op = "set" /\ Tidy(Before) /\ TypeOK
    BY <1>1, StatementIs
<1>4. Base(Now, S) = Before
    BY <1>1, <1>2, AddsIs
<1>5. x \in Vars /\ y \in Vars
    BY <1>3, ArgsAre
<1>6. Got(Before, L, Reg(Before, x), x) /\ Got(Before, L, Reg(t1, y), y)
    BY <1>3, <1>5, GotTwice
<1>7. item.loads = L /\ item.regs[1] = Reg(Before, x) /\ item.regs[2] = Reg(t1, y) /\ Plain(item)
    <2> HIDE DEF L, x, y, t1, t2, t3
    <2> QED BY <1>3, BareIs DEF Plain, Item, Bare
<1> HIDE DEF item, L, t1, t
<1>8. Reads(Now, item, S)
    BY <1>3, <1>4, <1>6, <1>7 DEF Reads
<1>9. S.op \notin Inner \cup Program!Closing
    BY <1>3 DEF Inner, Program!Closing
<1> QED BY <1>1, <1>2, <1>7, <1>8, <1>9, PlainBlock DEF blocks

LEMMA CopyBlock == ASSUME IInv, BlockInv, CompileCopy, "unread" \in Rules PROVE BlockInv'
<1> DEFINE x == S.args[1]
           y == S.to
           t1 == Temp(Before)
           address == FreeReg(Before)
           t == [Without(With(t1, y), y) EXCEPT ![address] = ""]
           q == Reg(t1, y)
           L == IF Holds(t1, y) THEN {} ELSE {[var |-> x, reg |-> q]}
           item == [Bare EXCEPT !.loads = L, !.regs = <<q, address>>]
<1>1. Compiling({"copy"}) /\ Emit(t, item) /\ UNCHANGED blocks /\ ~Holds(t1, y)
    BY DEF CompileCopy
<1>2. Put(t, item)
    BY <1>1 DEF Emit
<1>3. S.op = "copy" /\ TypeOK
    <2>1. Compiling({"copy"})
        BY DEF CompileCopy
    <2> QED BY <2>1, StatementIs
<1>4. [var |-> x, reg |-> q] \in L
    <2>1. ~Holds(t1, y)
        BY <1>1
    <2> QED BY <2>1
<1>5. item.loads = L /\ item.regs[1] = q /\ Plain(item)
    <2> HIDE DEF L, x, y, q, address
    <2> QED BY <1>3, BareIs DEF Plain, Item, Bare
<1> HIDE DEF item, L, t, q
<1>6. Reads(Now, item, S)
    BY <1>3, <1>4, <1>5 DEF Reads, Got
<1>7. S.op \notin Inner \cup Program!Closing
    BY <1>3 DEF Inner, Program!Closing
<1> QED BY <1>1, <1>2, <1>5, <1>6, <1>7, PlainBlock DEF blocks

LEMMA CallBlock == ASSUME IInv, BlockInv, CompileCall PROVE BlockInv'
<1>1. Compiling({"call"}) /\ UNCHANGED blocks
    BY DEF CompileCall
<1>2. S.op = "call" /\ TypeOK
    BY <1>1, StatementIs
<1>3. PICK saves : saves = {r \in Regs : Before[r] # ""}
    OBVIOUS
<1> DEFINE item == [Bare EXCEPT !.saves = saves]
<1>4. Plain(item) /\ \A L : Plain([item EXCEPT !.loads = L])
    BY <1>2, BareIs DEF Plain, Item, Bare
<1>5. PICK c, t : Plain(c) /\ Put(t, c)
    <2>1. CASE S.args = <<>>
        <3>1. Put(Before, item)
            BY <1>3, <2>1 DEF CompileCall
        <3> QED BY <1>4, <3>1
    <2>2. CASE S.args # <<>>
        <3>1. Put(With(Without(Before, S.args[1]), S.args[1]),
                  [item EXCEPT !.loads = Loads(Without(Before, S.args[1]), S.args[1])])
            BY <1>3, <2>2 DEF CompileCall
        <3> QED BY <1>4, <3>1
    <2> QED BY <2>1, <2>2
<1>6. Reads(Now, c, S) /\ S.op \notin Inner \cup Program!Closing
    BY <1>2 DEF Reads, Inner, Program!Closing
<1> QED BY <1>1, <1>5, <1>6, PlainBlock DEF blocks

LEMMA PopBlock == ASSUME IInv, BlockInv, CompilePop PROVE BlockInv'
<1> DEFINE R == <<Reg(Before, S.to), FreeReg(With(Before, S.to))>>
           item == [Bare EXCEPT !.regs = R]
<1>1. Compiling({"pop"}) /\ UNCHANGED blocks
    BY DEF CompilePop
<1>2. PICK t : Put(t, item)
    BY DEF CompilePop, Emit
<1>3. S.op = "pop" /\ TypeOK
    BY <1>1, StatementIs
<1> HIDE DEF R
<1>4. Plain(item)
    BY <1>3, BareIs DEF Plain, Item, Bare
<1>5. Reads(Now, item, S) /\ S.op \notin Inner \cup Program!Closing
    BY <1>3 DEF Reads, Inner, Program!Closing
<1> QED BY <1>1, <1>2, <1>4, <1>5, PlainBlock DEF blocks

LEMMA SwitchBlock == ASSUME IInv, BlockInv, CompileSwitch \/ CompileSwitchEnd PROVE BlockInv'
<1>1. Compiling({"switch", "switchend"}) /\ UNCHANGED <<ifs, whiles, fors>>
    BY DEF CompileSwitch, CompileSwitchEnd, Compiling
<1>2. PICK t : Put(t, Bare)
    BY DEF CompileSwitch, CompileSwitchEnd, Emit
<1>3. S.op \in {"switch", "switchend"} /\ TypeOK
    BY <1>1, StatementIs
<1>4. Plain(Bare)
    BY <1>3, BareIs DEF Plain
<1>5. Reads(Now, Bare, S) /\ S.op \notin Inner \cup Program!Closing
    BY <1>3 DEF Reads, Inner, Program!Closing
<1> QED BY <1>1, <1>2, <1>4, <1>5, PlainBlock

\* A table with one more entry, or with one that changed.
LEMMA MoreIfs ==
    ASSUME Tables, NEW b \in BOOLEAN,
           ifs' = Append(ifs, [open |-> TRUE, plus |-> b, else_set |-> FALSE])
    PROVE  LET n == Len(ifs) + 1
           IN  /\ Size("if") = Len(ifs) /\ Size("if")' = n /\ Open("if")' = Open("if") \cup {n}
               /\ ifs'[n].plus <=> b
               /\ \A m \in 1 .. Len(ifs) : ifs'[m].plus <=> ifs[m].plus
<1> DEFINE Entry == [open : BOOLEAN, plus : BOOLEAN, else_set : BOOLEAN]
           e == [open |-> TRUE, plus |-> b, else_set |-> FALSE]
<1>1. ifs \in Seq(Entry) /\ e \in Entry /\ ifs' = Append(ifs, e) /\ e.open /\ (e.plus <=> b)
    BY DEF Tables
<1> HIDE DEF Entry, e
<1>2. /\ Len(ifs) \in Nat /\ Len(ifs') = Len(ifs) + 1 /\ ifs'[Len(ifs) + 1] = e
      /\ \A m \in 1 .. Len(ifs) : ifs'[m] = ifs[m]
    BY <1>1
<1>3. Size("if") = Len(ifs) /\ Size("if")' = Len(ifs')
    BY DEF Size
<1>4. Open("if") = {n \in 1 .. Len(ifs) : ifs[n].open}
    BY DEF Open
<1>5. Open("if")' = {n \in 1 .. Len(ifs') : ifs'[n].open}
    BY DEF Open
<1>6. Open("if")' = Open("if") \cup {Len(ifs) + 1}
    BY <1>1, <1>2, <1>4, <1>5
<1> QED BY <1>1, <1>2, <1>3, <1>6

LEMMA MoreWhiles ==
    ASSUME Tables, whiles' = Append(whiles, TRUE)
    PROVE  LET n == Len(whiles) + 1
           IN  /\ Size("while") = Len(whiles) /\ Size("while")' = n
               /\ Open("while")' = Open("while") \cup {n}
<1>1. whiles \in Seq(BOOLEAN)
    BY DEF Tables
<1>2. /\ Len(whiles) \in Nat /\ Len(whiles') = Len(whiles) + 1 /\ whiles'[Len(whiles) + 1] = TRUE
      /\ \A m \in 1 .. Len(whiles) : whiles'[m] = whiles[m]
    BY <1>1
<1>3. Size("while") = Len(whiles) /\ Size("while")' = Len(whiles')
    BY DEF Size
<1>4. Open("while") = {n \in 1 .. Len(whiles) : whiles[n]}
    BY DEF Open
<1>5. Open("while")' = {n \in 1 .. Len(whiles') : whiles'[n]}
    BY DEF Open
<1>6. 1 .. Len(whiles') = (1 .. Len(whiles)) \cup {Len(whiles) + 1}
    BY <1>2
<1>7. Open("while")' = Open("while") \cup {Len(whiles) + 1}
    BY <1>2, <1>4, <1>5, <1>6, Zenon
<1> QED BY <1>2, <1>3, <1>7

LEMMA MoreFors ==
    ASSUME Tables, fors' = Append(fors, [open |-> TRUE, for_def_set |-> FALSE])
    PROVE  LET n == Len(fors) + 1
           IN  /\ Size("for") = Len(fors) /\ Size("for")' = n /\ Open("for")' = Open("for") \cup {n}
<1> DEFINE Entry == [open : BOOLEAN, for_def_set : BOOLEAN]
           e == [open |-> TRUE, for_def_set |-> FALSE]
<1>1. fors \in Seq(Entry) /\ e \in Entry /\ fors' = Append(fors, e) /\ e.open
    BY DEF Tables
<1> HIDE DEF Entry, e
<1>2. /\ Len(fors) \in Nat /\ Len(fors') = Len(fors) + 1 /\ fors'[Len(fors) + 1] = e
      /\ \A m \in 1 .. Len(fors) : fors'[m] = fors[m]
    BY <1>1
<1>3. Size("for") = Len(fors) /\ Size("for")' = Len(fors')
    BY DEF Size
<1>4. Open("for") = {n \in 1 .. Len(fors) : fors[n].open}
    BY DEF Open
<1>5. Open("for")' = {n \in 1 .. Len(fors') : fors'[n].open}
    BY DEF Open
<1>6. Open("for")' = Open("for") \cup {Len(fors) + 1}
    BY <1>1, <1>2, <1>4, <1>5
<1> QED BY <1>2, <1>3, <1>6

LEMMA SameSizes ==
           /\ UNCHANGED ifs => Size("if")' = Size("if") /\ Open("if")' = Open("if")
           /\ UNCHANGED whiles => Size("while")' = Size("while") /\ Open("while")' = Open("while")
           /\ UNCHANGED fors => Size("for")' = Size("for") /\ Open("for")' = Open("for")
<1>1. UNCHANGED ifs => Size("if")' = Size("if") /\ Open("if")' = Open("if")
    BY DEF Size, Open
<1>2. UNCHANGED whiles => Size("while")' = Size("while") /\ Open("while")' = Open("while")
    BY DEF Size, Open
<1>3. UNCHANGED fors => Size("for")' = Size("for") /\ Open("for")' = Open("for")
    BY DEF Size, Open
<1> QED BY <1>1, <1>2, <1>3

\* The code of a statement with a test.
LEMMA TestIs ==
    ASSUME IInv, NEW ops, Compiling(ops), NEW v \in Vars,
           NEW full, NEW jumps, NEW place, Test(v, full, jumps, place)
    PROVE  \E t, item :
               /\ Put(t, item)
               /\ item.jumps = Given(full, jumps, <<>>) /\ item.place = Given(full, place, {})
               /\ item.regs[1] = Reg(Before, v)
               /\ Got(Base(Now, S), item.loads, item.regs[1], v)
<1> DEFINE item == [Bare EXCEPT !.loads = Loads(Before, v), !.regs = <<Reg(Before, v)>>,
                          !.jumps = Given(full, jumps, <<>>), !.place = Given(full, place, {})]
<1>1. Emit(With(Before, v), item)
    BY DEF Test
<1>2. Put(With(Before, v), item)
    BY <1>1 DEF Emit
<1>3. Tidy(Before) /\ TypeOK
    BY StatementIs
<1>4. Base(Now, S) = Before
    BY <1>2, AddsIs
<1>5. Got(Before, Loads(Before, v), Reg(Before, v), v)
    BY <1>3, GotOnce
<1>6. /\ item.jumps = Given(full, jumps, <<>>) /\ item.place = Given(full, place, {})
      /\ item.regs = <<Reg(Before, v)>> /\ item.loads = Loads(Before, v)
    BY <1>3, BareIs DEF Item, Bare
<1>7. item.regs[1] = Reg(Before, v)
    BY <1>6
<1> HIDE DEF item
<1> QED BY <1>2, <1>4, <1>5, <1>6, <1>7

LEMMA IfBlock == ASSUME IInv, BlockInv, CompileIf PROVE BlockInv'
<1> DEFINE n == Len(ifs) + 1
           full == Len(ifs) >= MaxBlocks
           other == IF S.op = "if+" THEN "else" ELSE "endif"
           v == S.args[1]
           J == <<[reg |-> Reg(Before, v), to |-> <<"if", n>>], [reg |-> None, to |-> <<other, n>>]>>
<1>1. /\ Compiling({"if", "if+"}) /\ Test(v, full, J, {<<"if", n>>})
      /\ ifs' = Given(full, Append(ifs,
                   [open |-> TRUE, plus |-> S.op = "if+", else_set |-> FALSE]), ifs)
      /\ UNCHANGED <<whiles, fors, switches>>
    BY DEF CompileIf
<1>2. S \in Statement /\ S.op \in {"if", "if+"} /\ Tables /\ Len(ifs) \in Nat
    BY <1>1, StatementIs
<1>3. v \in Vars
    BY <1>2, ArgsAre
<1>4. PICK t, item :
          /\ Put(t, item)
          /\ item.jumps = Given(full, J, <<>>) /\ item.place = Given(full, {<<"if", n>>}, {})
          /\ item.regs[1] = Reg(Before, v)
          /\ Got(Base(Now, S), item.loads, item.regs[1], v)
    <2> HIDE DEF J, full
    <2> QED BY <1>1, <1>3, TestIs
<1>5. Reads(Now, item, S)
    BY <1>2, <1>4 DEF Reads
<1>6. Forms /\ S.op \in Program!Opening /\ S.op \notin Inner \cup Program!Closing /\ Family(S.op) = "if"
    BY <1>2 DEF BlockInv, Forms, Program!Opening, Program!Closing, Inner, Family
<1>7. CASE full
    <2>1. Plain(item) /\ UNCHANGED ifs
        BY <1>1, <1>4, <1>7 DEF Plain, Given
    <2> QED BY <1>1, <1>4, <1>5, <1>6, <2>1, PlainBlock
<1>8. CASE ~full
    <2>1. item.jumps = J /\ item.place = {<<"if", n>>}
        BY <1>4, <1>8 DEF Given
    <2>2. PICK b \in BOOLEAN : b = (S.op = "if+")
        OBVIOUS
    <2>3. ifs' = Append(ifs, [open |-> TRUE, plus |-> b, else_set |-> FALSE])
        BY <1>1, <1>8, <2>2 DEF Given
    <2>4. /\ n = Size("if") + 1 /\ Size("if")' = n /\ Open("if")' = Open("if") \cup {n}
          /\ ifs'[n].plus <=> S.op = "if+"
          /\ \A m \in 1 .. Len(ifs) : ifs'[m].plus <=> ifs[m].plus
        BY <1>2, <2>2, <2>3, MoreIfs
    <2>5. item.jumps = JumpsOf(S.op, item.regs, n)
        BY <1>2, <1>4, <2>1 DEF JumpsOf, Always
    <2>6. item.place = PlaceOf(S.op, n)
        BY <1>2, <2>1 DEF PlaceOf
    <2> HIDE DEF J, full, n
    <2>7. Forms'
        BY <1>1, <1>4, <1>6, <2>4, <2>5, <2>6, OpenForm
    <2> QED BY <1>1, <1>4, <1>5, <2>7, BlockPut
<1> QED BY <1>7, <1>8

LEMMA CaseBlock == ASSUME IInv, BlockInv, CompileCase PROVE BlockInv'
<1> DEFINE x == S.args[1]
           y == S.args[2]
           t1 == With(Before, y)
           t2 == With(t1, x)
           r == FreeReg(t2)
           n == Len(ifs) + 1
           full == Len(ifs) >= MaxBlocks
           J == <<[reg |-> r, to |-> <<"if", n>>], [reg |-> None, to |-> <<"endif", n>>]>>
           L == Loads(Before, y) \cup Loads(t1, x)
           R == <<Reg(t1, x), Reg(Before, y), r>>
           item == [Bare EXCEPT !.loads = L, !.regs = R,
                                !.jumps = Given(full, J, <<>>),
                                !.place = Given(full, {<<"if", n>>}, {})]
<1>1. /\ Compiling({"?"}) /\ Emit(Temp(t2), item)
      /\ ifs' = Given(full, Append(ifs,
                   [open |-> TRUE, plus |-> FALSE, else_set |-> FALSE]), ifs)
      /\ UNCHANGED <<whiles, fors, switches>>
    BY DEF CompileCase
<1>2. S \in Statement /\ S.op = "?" /\ Tables /\ Len(ifs) \in Nat /\ Tidy(Before) /\ TypeOK
    <2>1. Compiling({"?"})
        BY DEF CompileCase
    <2> QED BY <2>1, StatementIs
<1>3. x \in Vars /\ y \in Vars
    BY <1>2, ArgsAre
<1>4. Put(Temp(t2), item)
    BY <1>1 DEF Emit
<1>5. Base(Now, S) = Before
    BY <1>1, <1>4, AddsIs
<1>6. Got(Before, L, Reg(t1, x), x) /\ Got(Before, L, Reg(Before, y), y)
    BY <1>2, <1>3, GotTwice
<1>7. /\ item.jumps = Given(full, J, <<>>) /\ item.place = Given(full, {<<"if", n>>}, {})
      /\ item.loads = L /\ item.regs = R
    <2> HIDE DEF J, full, L, R
    <2> QED BY <1>2, BareIs DEF Item, Bare
<1>8. R[1] = Reg(t1, x) /\ R[2] = Reg(Before, y) /\ R[3] = r /\ Len(R) = 3
    OBVIOUS
<1> HIDE DEF item, L, R, r, t1, t2
<1>9. Reads(Now, item, S)
    BY <1>2, <1>5, <1>6, <1>7, <1>8 DEF Reads
<1>10. Forms /\ S.op \in Program!Opening /\ S.op \notin Inner \cup Program!Closing /\ Family(S.op) = "if"
    BY <1>2 DEF BlockInv, Forms, Program!Opening, Program!Closing, Inner, Family
<1>11. CASE full
    <2>1. Plain(item) /\ UNCHANGED ifs
        BY <1>1, <1>7, <1>11 DEF Plain, Given
    <2> QED BY <1>1, <1>4, <1>9, <1>10, <2>1, PlainBlock
<1>12. CASE ~full
    <2>1. item.jumps = J /\ item.place = {<<"if", n>>}
        BY <1>7, <1>12 DEF Given
    <2>2. FALSE \in BOOLEAN
        OBVIOUS
    <2>3. ifs' = Append(ifs, [open |-> TRUE, plus |-> FALSE, else_set |-> FALSE])
        BY <1>1, <1>12 DEF Given
    <2>4. /\ n = Size("if") + 1 /\ Size("if")' = n /\ Open("if")' = Open("if") \cup {n}
          /\ ifs'[n].plus <=> FALSE
          /\ \A m \in 1 .. Len(ifs) : ifs'[m].plus <=> ifs[m].plus
        BY <1>2, <2>2, <2>3, MoreIfs
    <2>5. item.jumps = JumpsOf(S.op, item.regs, n)
        BY <1>2, <1>7, <1>8, <2>1 DEF JumpsOf, Always
    <2>6. item.place = PlaceOf(S.op, n)
        BY <1>2, <2>1 DEF PlaceOf
    <2>7. ifs'[n].plus <=> S.op = "if+"
        BY <1>2, <2>4
    <2> HIDE DEF J, full, n
    <2>8. Forms'
        BY <1>1, <1>4, <1>10, <2>4, <2>5, <2>6, <2>7, OpenForm
    <2> QED BY <1>1, <1>4, <1>9, <2>8, BlockPut
<1> QED BY <1>11, <1>12

\* An opening statement without code of its own.
LEMMA OpenBlock ==
    ASSUME IInv, BlockInv, NEW ops, Compiling(ops), S.op \in {"do", "for-loop"},
           NEW g, g = Family(S.op), NEW full \in BOOLEAN,
           Emit(Before, [Bare EXCEPT !.place = Given(full, {<<g, Size(g) + 1>>}, {})]),
           full => UNCHANGED <<whiles, fors>>,
           ~full => Size(g)' = Size(g) + 1 /\ Open(g)' = Open(g) \cup {Size(g) + 1},
           UNCHANGED ifs, g # "while" => UNCHANGED whiles, g # "for" => UNCHANGED fors
    PROVE  BlockInv'
<1> DEFINE P == Given(full, {<<g, Size(g) + 1>>}, {})
           item == [Bare EXCEPT !.place = P]
<1>1. Put(Before, item)
    BY DEF Emit
<1>2. TypeOK
    BY StatementIs
<1>3. item.place = P /\ item.jumps = <<>>
    <2> HIDE DEF P
    <2> QED BY <1>2, BareIs DEF Item, Bare
<1> HIDE DEF item
<1>4. /\ Forms /\ S.op \in Program!Opening /\ S.op \notin Inner \cup Program!Closing
      /\ (S.op = "do" /\ g = "while") \/ (S.op = "for-loop" /\ g = "for")
    BY DEF BlockInv, Forms, Program!Opening, Program!Closing, Inner, Family
<1>5. Reads(Now, item, S)
    BY DEF Reads
<1>6. CASE full
    <2>1. Plain(item)
        BY <1>3, <1>6 DEF Plain, Given
    <2> QED BY <1>1, <1>4, <1>5, <1>6, <2>1, PlainBlock
<1>7. CASE ~full
    <2> DEFINE n == Size(g) + 1
    <2>1. item.place = {<<g, n>>}
        BY <1>3, <1>7 DEF Given
    <2>2. item.place = PlaceOf(S.op, n) /\ item.jumps = JumpsOf(S.op, item.regs, n)
        BY <1>3, <1>4, <2>1 DEF PlaceOf, JumpsOf
    <2>3. n = Size(g) + 1 /\ Size(g)' = n /\ Open(g)' = Open(g) \cup {n} /\ g # "if"
        BY <1>4, <1>7
    <2> HIDE DEF n
    <2>4. Forms'
        BY <1>1, <1>4, <2>2, <2>3, OpenForm
    <2> QED BY <1>1, <1>5, <2>4, BlockPut
<1> QED BY <1>6, <1>7

LEMMA DoBlock == ASSUME IInv, BlockInv, CompileDo PROVE BlockInv'
<1> DEFINE full == Len(whiles) >= MaxBlocks
<1>1. full \in BOOLEAN
    OBVIOUS
<1>2. /\ Compiling({"do"}) /\ whiles' = Given(full, Append(whiles, TRUE), whiles)
      /\ Emit(Before, [Bare EXCEPT !.place = Given(full, {<<"while", Len(whiles) + 1>>}, {})])
      /\ UNCHANGED <<ifs, fors, switches>>
    BY DEF CompileDo
<1> HIDE DEF full
<1>3. S.op = "do" /\ Tables /\ Family(S.op) = "while" /\ Size("while") = Len(whiles)
    <2>1. S.op = "do" /\ Tables
        BY <1>2, StatementIs
    <2> QED BY <2>1 DEF Family, Size
<1>4. full => whiles' = whiles
    BY <1>2 DEF Given
<1>5. ASSUME ~full
      PROVE  /\ Size("while")' = Size("while") + 1
             /\ Open("while")' = Open("while") \cup {Size("while") + 1}
    <2>1. whiles' = Append(whiles, TRUE)
        BY <1>2, <1>5 DEF Given
    <2> QED BY <1>3, <2>1, MoreWhiles
<1>6. S.op \in {"do", "for-loop"}
    BY <1>3
<1>7. Emit(Before, [Bare EXCEPT !.place = Given(full, {<<"while", Size("while") + 1>>}, {})])
    BY <1>2, <1>3
<1> QED BY <1>1, <1>2, <1>3, <1>4, <1>5, <1>6, <1>7, OpenBlock

LEMMA ForLoopBlock == ASSUME IInv, BlockInv, CompileForLoop PROVE BlockInv'
<1> DEFINE full == Len(fors) >= MaxBlocks
<1>1. full \in BOOLEAN
    OBVIOUS
<1>2. /\ Compiling({"for-loop"})
      /\ fors' = Given(full, Append(fors, [open |-> TRUE, for_def_set |-> FALSE]), fors)
      /\ Emit(Before, [Bare EXCEPT !.place = Given(full, {<<"for", Len(fors) + 1>>}, {})])
      /\ UNCHANGED <<ifs, whiles, switches>>
    BY DEF CompileForLoop
<1> HIDE DEF full
<1>3. S.op = "for-loop" /\ Tables /\ Family(S.op) = "for" /\ Size("for") = Len(fors)
    <2>1. S.op = "for-loop" /\ Tables
        BY <1>2, StatementIs
    <2> QED BY <2>1 DEF Family, Size
<1>4. full => fors' = fors
    BY <1>2 DEF Given
<1>5. ASSUME ~full
      PROVE  /\ Size("for")' = Size("for") + 1
             /\ Open("for")' = Open("for") \cup {Size("for") + 1}
    <2>1. fors' = Append(fors, [open |-> TRUE, for_def_set |-> FALSE])
        BY <1>2, <1>5 DEF Given
    <2> QED BY <1>3, <2>1, MoreFors
<1>6. S.op \in {"do", "for-loop"}
    BY <1>3
<1>7. Emit(Before, [Bare EXCEPT !.place = Given(full, {<<"for", Size("for") + 1>>}, {})])
    BY <1>2, <1>3
<1> QED BY <1>1, <1>2, <1>3, <1>4, <1>5, <1>6, <1>7, OpenBlock

\* The innermost open block.
LEMMA ActIs ==
    ASSUME Tables
    PROVE  /\ ActIf # 0 =>
                  ActIf \in Nat /\ ActIf \in Open("if") /\ \A m \in Open("if") : m <= ActIf
           /\ ActIfPlus # 0 =>
                  /\ ActIfPlus \in Nat /\ ActIfPlus \in Open("if") /\ ifs[ActIfPlus].plus
                  /\ \A m \in Open("if") : ifs[m].plus => m <= ActIfPlus
           /\ ActWhile # 0 =>
                  /\ ActWhile \in Nat /\ ActWhile \in Open("while")
                  /\ \A m \in Open("while") : m <= ActWhile
           /\ ActFor # 0 =>
                  ActFor \in Nat /\ ActFor \in Open("for") /\ \A m \in Open("for") : m <= ActFor
<1>1. ASSUME NEW n \in Nat, NEW N \in SUBSET (1 .. n), Highest(N) # 0
      PROVE  Highest(N) \in Nat /\ Highest(N) \in N /\ \A m \in N : m <= Highest(N)
    <2>1. Highest(N) \in N
        BY <1>1, HighestIn
    <2>2. N \in SUBSET Nat /\ \A k \in N : k <= n
        OBVIOUS
    <2>3. N # {}
        BY <2>1
    <2>4. \A m \in N : m <= Highest(N)
        BY <2>2, <2>3, HighestOf
    <2> QED BY <2>1, <2>2, <2>4
<1>2. Len(ifs) \in Nat /\ Len(whiles) \in Nat /\ Len(fors) \in Nat
    BY DEF Tables
<1>3. Open("if") = {n \in 1 .. Len(ifs) : ifs[n].open}
    BY DEF Open
<1>4. Open("while") = {n \in 1 .. Len(whiles) : whiles[n]}
    BY DEF Open
<1>5. Open("for") = {n \in 1 .. Len(fors) : fors[n].open}
    BY DEF Open
<1>6. Open("if") \in SUBSET (1 .. Len(ifs)) /\ Open("while") \in SUBSET (1 .. Len(whiles))
      /\ Open("for") \in SUBSET (1 .. Len(fors))
    BY <1>3, <1>4, <1>5
<1>7. ActIf = Highest(Open("if")) /\ ActWhile = Highest(Open("while")) /\ ActFor = Highest(Open("for"))
    BY <1>3, <1>4, <1>5 DEF ActIf, ActWhile, ActFor
<1>8. PICK N : N = {n \in 1 .. Len(ifs) : ifs[n].open /\ ifs[n].plus}
    OBVIOUS
<1>9. N \in SUBSET (1 .. Len(ifs)) /\ ActIfPlus = Highest(N)
    BY <1>8 DEF ActIfPlus
<1>10. \A m : m \in N <=> m \in Open("if") /\ ifs[m].plus
    BY <1>3, <1>8
<1>11. ActIf # 0 => ActIf \in Nat /\ ActIf \in Open("if") /\ \A m \in Open("if") : m <= ActIf
    BY <1>1, <1>2, <1>6, <1>7
<1>12. ActWhile # 0 => /\ ActWhile \in Nat /\ ActWhile \in Open("while")
                       /\ \A m \in Open("while") : m <= ActWhile
    BY <1>1, <1>2, <1>6, <1>7
<1>13. ActFor # 0 => ActFor \in Nat /\ ActFor \in Open("for") /\ \A m \in Open("for") : m <= ActFor
    BY <1>1, <1>2, <1>6, <1>7
<1>14. ActIfPlus # 0 => ActIfPlus \in Nat /\ ActIfPlus \in N /\ \A m \in N : m <= ActIfPlus
    BY <1>1, <1>2, <1>9
<1> QED BY <1>10, <1>11, <1>12, <1>13, <1>14

LEMMA OpenIs ==
    /\ Open("if") = {n \in 1 .. Len(ifs) : ifs[n].open}
    /\ Open("while") = {n \in 1 .. Len(whiles) : whiles[n]}
    /\ Open("for") = {n \in 1 .. Len(fors) : fors[n].open}
<1>1. Open("if") = {n \in 1 .. Len(ifs) : ifs[n].open}
    BY DEF Open
<1>2. Open("while") = {n \in 1 .. Len(whiles) : whiles[n]}
    BY DEF Open
<1>3. Open("for") = {n \in 1 .. Len(fors) : fors[n].open}
    BY DEF Open
<1> QED BY <1>1, <1>2, <1>3

LEMMA EntryOpen ==
    ASSUME Tables
    PROVE  /\ \A n \in Open("if") :
                  ifs[n] \in [open : BOOLEAN, plus : BOOLEAN, else_set : BOOLEAN] /\ ifs[n].open
           /\ \A n \in Open("for") :
                  fors[n] \in [open : BOOLEAN, for_def_set : BOOLEAN] /\ fors[n].open
<1> DEFINE E == [open : BOOLEAN, plus : BOOLEAN, else_set : BOOLEAN]
           F == [open : BOOLEAN, for_def_set : BOOLEAN]
<1>1. ifs \in Seq(E) /\ fors \in Seq(F)
    BY DEF Tables
<1> HIDE DEF E, F
<1>2. \A n \in Open("if") : n \in 1 .. Len(ifs) /\ ifs[n].open
    BY OpenIs, Zenon
<1>3. \A n \in Open("for") : n \in 1 .. Len(fors) /\ fors[n].open
    BY OpenIs, Zenon
<1>4. (\A n \in 1 .. Len(ifs) : ifs[n] \in E) /\ (\A n \in 1 .. Len(fors) : fors[n] \in F)
    BY <1>1
<1> QED BY <1>2, <1>3, <1>4 DEF E, F

LEMMA EntryAt ==
    ASSUME NEW T, NEW s \in Seq(T), NEW i, NEW e
    PROVE  \A k \in 1 .. Len(s) : [s EXCEPT ![i] = e][k] = IF k = i THEN e ELSE s[k]
OBVIOUS

LEMMA IfsChange ==
    ASSUME Tables, NEW n \in Open("if"), NEW b \in BOOLEAN,
           NEW e \in [open : BOOLEAN, plus : BOOLEAN, else_set : BOOLEAN],
           ifs' = [ifs EXCEPT ![n] = e], e.open <=> b, e.plus <=> ifs[n].plus
    PROVE  /\ Size("if")' = Size("if")
           /\ Open("if")' = IF b THEN Open("if") ELSE Open("if") \ {n}
           /\ \A m \in 1 .. Len(ifs) : ifs'[m].plus <=> ifs[m].plus
<1> DEFINE Entry == [open : BOOLEAN, plus : BOOLEAN, else_set : BOOLEAN]
<1>1. ifs \in Seq(Entry)
    BY DEF Tables
<1>2. Size("if") = Len(ifs) /\ Size("if")' = Len(ifs')
    BY DEF Size
<1>3. Open("if") = {k \in 1 .. Len(ifs) : ifs[k].open}
    BY DEF Open
<1>4. Open("if")' = {k \in 1 .. Len(ifs') : ifs'[k].open}
    BY DEF Open
<1>5. n \in 1 .. Len(ifs) /\ ifs[n].open
    BY <1>3
<1>6. e \in Entry
    OBVIOUS
<1> HIDE DEF Entry
<1>9. Len(ifs') = Len(ifs)
    BY <1>1, <1>6, EntryChanged
<1>10. \A k \in 1 .. Len(ifs) : ifs'[k] = IF k = n THEN e ELSE ifs[k]
    BY <1>1, EntryAt
<1>11. \A k \in 1 .. Len(ifs) : ifs'[k].open <=> IF k = n THEN b ELSE ifs[k].open
    BY <1>10, Zenon
<1>12. \A k \in 1 .. Len(ifs) : ifs'[k].plus <=> ifs[k].plus
    BY <1>10, Zenon
<1>13. Open("if")' = IF b THEN Open("if") ELSE Open("if") \ {n}
    BY <1>3, <1>4, <1>5, <1>9, <1>11
<1> QED BY <1>2, <1>9, <1>12, <1>13

LEMMA WhilesChange ==
    ASSUME Tables, NEW n \in Open("while"), NEW e \in BOOLEAN, ~e,
           whiles' = [whiles EXCEPT ![n] = e]
    PROVE  Size("while")' = Size("while") /\ Open("while")' = Open("while") \ {n}
<1>1. whiles \in Seq(BOOLEAN)
    BY DEF Tables
<1>2. Size("while") = Len(whiles) /\ Size("while")' = Len(whiles')
    BY DEF Size
<1>3. Open("while") = {k \in 1 .. Len(whiles) : whiles[k]}
    BY DEF Open
<1>4. Open("while")' = {k \in 1 .. Len(whiles') : whiles'[k]}
    BY DEF Open
<1>5. Len(whiles') = Len(whiles)
    BY <1>1, EntryChanged
<1>6. \A k \in 1 .. Len(whiles) : whiles'[k] = IF k = n THEN e ELSE whiles[k]
    <2>1. PICK T : T = BOOLEAN
        OBVIOUS
    <2>2. whiles \in Seq(T)
        BY <1>1, <2>1
    <2> QED BY <2>2, EntryAt
<1>7. \A k \in 1 .. Len(whiles) : whiles'[k] <=> k # n /\ whiles[k]
    BY <1>6, Zenon
<1> QED BY <1>2, <1>3, <1>4, <1>5, <1>7, Zenon

LEMMA ForsChange ==
    ASSUME Tables, NEW n \in Open("for"), NEW b \in BOOLEAN,
           NEW e \in [open : BOOLEAN, for_def_set : BOOLEAN],
           fors' = [fors EXCEPT ![n] = e], e.open <=> b
    PROVE  /\ Size("for")' = Size("for")
           /\ Open("for")' = IF b THEN Open("for") ELSE Open("for") \ {n}
<1> DEFINE Entry == [open : BOOLEAN, for_def_set : BOOLEAN]
<1>1. fors \in Seq(Entry)
    BY DEF Tables
<1>2. Size("for") = Len(fors) /\ Size("for")' = Len(fors')
    BY DEF Size
<1>3. Open("for") = {k \in 1 .. Len(fors) : fors[k].open}
    BY DEF Open
<1>4. Open("for")' = {k \in 1 .. Len(fors') : fors'[k].open}
    BY DEF Open
<1>5. n \in 1 .. Len(fors) /\ fors[n].open
    BY <1>3
<1>6. e \in Entry
    OBVIOUS
<1> HIDE DEF Entry
<1>7. Len(fors') = Len(fors)
    BY <1>1, <1>6, EntryChanged
<1>8. \A k \in 1 .. Len(fors) : fors'[k] = IF k = n THEN e ELSE fors[k]
    BY <1>1, EntryAt
<1>9. \A k \in 1 .. Len(fors) : fors'[k].open <=> IF k = n THEN b ELSE fors[k].open
    BY <1>8, Zenon
<1>10. Open("for")' = IF b THEN Open("for") ELSE Open("for") \ {n}
    BY <1>3, <1>4, <1>5, <1>7, <1>9
<1> QED BY <1>2, <1>7, <1>10

LEMMA ElseBlock == ASSUME IInv, BlockInv, CompileElse PROVE BlockInv'
<1> DEFINE n == ActIfPlus
           J == <<[reg |-> None, to |-> <<"endif", n>>]>>
           item == [Bare EXCEPT !.jumps = J, !.place = {<<"else", n>>}]
<1>1. /\ Compiling({"else"}) /\ n # 0
      /\ ifs' = [ifs EXCEPT ![n].else_set = TRUE]
      /\ Emit(Before, item) /\ UNCHANGED <<whiles, fors, switches>>
    BY DEF CompileElse, ElseOf
<1>2. S.op = "else" /\ Tables /\ TypeOK
    BY <1>1, StatementIs
<1>3. Put(Before, item)
    BY <1>1 DEF Emit
<1>4. item.place = {<<"else", n>>} /\ item.jumps = J
    <2> HIDE DEF J, n
    <2> QED BY <1>2, BareIs DEF Item, Bare
<1>5. /\ n \in Nat /\ n \in Open("if") /\ ifs[n].plus
      /\ \A m \in Open("if") : ifs[m].plus => m <= n
    BY <1>1, <1>2, ActIs
<1> HIDE DEF item, n
<1>6. /\ Size("if")' = Size("if") /\ Open("if")' = Open("if")
      /\ \A m \in 1 .. Len(ifs) : ifs'[m].plus <=> ifs[m].plus
    <2>1. ifs[n] \in [open : BOOLEAN, plus : BOOLEAN, else_set : BOOLEAN] /\ ifs[n].open
        BY <1>2, <1>5, EntryOpen
    <2> DEFINE e == [ifs[n] EXCEPT !.else_set = TRUE]
    <2>2. e \in [open : BOOLEAN, plus : BOOLEAN, else_set : BOOLEAN]
        BY <2>1
    <2>3. (e.open <=> TRUE) /\ (e.plus <=> ifs[n].plus)
        BY <2>1
    <2>4. ifs' = [ifs EXCEPT ![n] = e]
        BY <1>1
    <2> HIDE DEF e
    <2> QED BY <1>2, <1>5, <2>2, <2>3, <2>4, IfsChange
<1>7. item.jumps = JumpsOf(S.op, item.regs, n) /\ item.place = PlaceOf(S.op, n)
    BY <1>2, <1>4 DEF JumpsOf, PlaceOf, Always
<1>8. /\ Forms /\ S.op \in Inner \cup Program!Closing /\ S.op \notin Program!Closing
      /\ Family(S.op) = "if" /\ Reads(Now, item, S) /\ n \in Nat \ {0}
    BY <1>1, <1>2, <1>5 DEF BlockInv, Forms, Program!Closing, Inner, Family, Reads
<1>9. Forms'
    BY <1>1, <1>2, <1>3, <1>5, <1>6, <1>7, <1>8, InForm
<1> QED BY <1>1, <1>3, <1>8, <1>9, BlockPut

LEMMA EndifBlock == ASSUME IInv, BlockInv, CompileEndif PROVE BlockInv'
<1> DEFINE n == ActIf
           item == [Bare EXCEPT !.place = {<<"endif", n>>}]
<1>1. /\ Compiling({"endif", "break"}) /\ n # 0
      /\ ifs' = [ifs EXCEPT ![n].open = FALSE]
      /\ Emit(Clean, item) /\ UNCHANGED <<whiles, fors, switches>>
    BY DEF CompileEndif, Finished
<1>2. S.op \in {"endif", "break"} /\ Tables /\ TypeOK
    BY <1>1, StatementIs
<1>3. Put(Clean, item)
    BY <1>1 DEF Emit
<1>4. item.place = {<<"endif", n>>} /\ item.jumps = <<>>
    <2> HIDE DEF n
    <2> QED BY <1>2, BareIs DEF Item, Bare
<1>5. n \in Nat /\ n \in Open("if") /\ \A m \in Open("if") : m <= n
    BY <1>1, <1>2, ActIs
<1> HIDE DEF item, n
<1>6. /\ Size("if")' = Size("if") /\ Open("if")' = Open("if") \ {n}
      /\ \A m \in 1 .. Len(ifs) : ifs'[m].plus <=> ifs[m].plus
    <2>1. ifs[n] \in [open : BOOLEAN, plus : BOOLEAN, else_set : BOOLEAN] /\ ifs[n].open
        BY <1>2, <1>5, EntryOpen
    <2> DEFINE e == [ifs[n] EXCEPT !.open = FALSE]
    <2>2. e \in [open : BOOLEAN, plus : BOOLEAN, else_set : BOOLEAN]
        BY <2>1
    <2>3. (e.open <=> FALSE) /\ (e.plus <=> ifs[n].plus)
        BY <2>1
    <2>4. ifs' = [ifs EXCEPT ![n] = e]
        BY <1>1
    <2> HIDE DEF e
    <2> QED BY <1>2, <1>5, <2>2, <2>3, <2>4, IfsChange
<1>7. item.jumps = JumpsOf(S.op, item.regs, n) /\ item.place = PlaceOf(S.op, n)
    BY <1>2, <1>4 DEF JumpsOf, PlaceOf
<1>8. /\ Forms /\ S.op \in Program!Closing /\ S.op # "else"
      /\ Family(S.op) = "if" /\ Reads(Now, item, S) /\ n \in Nat \ {0}
    BY <1>1, <1>2, <1>5 DEF BlockInv, Forms, Program!Closing, Inner, Family, Reads
<1>9. Forms'
    BY <1>1, <1>2, <1>3, <1>5, <1>6, <1>7, <1>8, InForm
<1> QED BY <1>1, <1>3, <1>8, <1>9, BlockPut

LEMMA WhileBlock == ASSUME IInv, BlockInv, CompileWhile PROVE BlockInv'
<1> DEFINE n == ActWhile
           v == S.args[1]
           J == <<[reg |-> Reg(Before, v), to |-> <<"while", n>>]>>
<1>1. /\ Compiling({"while"}) /\ n # 0 /\ whiles' = [whiles EXCEPT ![n] = FALSE]
      /\ Test(v, FALSE, J, {}) /\ UNCHANGED <<ifs, fors, switches>>
    BY DEF CompileWhile
<1>2. S \in Statement /\ S.op = "while" /\ Tables
    BY <1>1, StatementIs
<1>3. v \in Vars
    BY <1>2, ArgsAre
<1>4. PICK t, item :
          /\ Put(t, item)
          /\ item.jumps = Given(FALSE, J, <<>>) /\ item.place = Given(FALSE, {}, {})
          /\ item.regs[1] = Reg(Before, v)
          /\ Got(Base(Now, S), item.loads, item.regs[1], v)
    <2> HIDE DEF J
    <2>1. PICK full : full = FALSE
        OBVIOUS
    <2>2. Test(v, full, J, {})
        BY <1>1, <2>1
    <2>3. \E t, item :
              /\ Put(t, item)
              /\ item.jumps = Given(full, J, <<>>) /\ item.place = Given(full, {}, {})
              /\ item.regs[1] = Reg(Before, v)
              /\ Got(Base(Now, S), item.loads, item.regs[1], v)
        BY <1>1, <1>3, <2>2, TestIs
    <2> QED BY <2>1, <2>3
<1>5. n \in Nat /\ n \in Open("while") /\ \A m \in Open("while") : m <= n
    BY <1>1, <1>2, ActIs
<1> HIDE DEF n
<1>6. Size("while")' = Size("while") /\ Open("while")' = Open("while") \ {n}
    BY <1>1, <1>2, <1>5, WhilesChange
<1>7. item.jumps = JumpsOf(S.op, item.regs, n) /\ item.place = PlaceOf(S.op, n)
    BY <1>2, <1>4 DEF JumpsOf, PlaceOf, Given
<1>8. /\ Forms /\ S.op \in Program!Closing /\ S.op # "else"
      /\ Family(S.op) = "while" /\ n \in Nat \ {0}
    BY <1>1, <1>2, <1>5 DEF BlockInv, Forms, Program!Closing, Family
<1>9. Reads(Now, item, S)
    BY <1>2, <1>4 DEF Reads
<1>10. Forms'
    <2> HIDE DEF J
    <2> QED BY <1>1, <1>2, <1>4, <1>5, <1>6, <1>7, <1>8, InForm
<1> QED BY <1>1, <1>4, <1>9, <1>10, BlockPut

\* Without an open for-loop there is none to choose.
LEMMA NoFor ==
    ASSUME Tables, ActFor = 0
    PROVE  Open("for") = {}
<1>1. Len(fors) \in Nat
    BY DEF Tables
<1> DEFINE N == {n \in 1 .. Len(fors) : fors[n].open}
<1>2. N \in SUBSET (1 .. Len(fors)) /\ Highest(N) = 0
    BY DEF ActFor
<1> HIDE DEF N
<1>3. SUFFICES ASSUME N # {} PROVE FALSE
    BY OpenIs DEF N
<1>4. N \in SUBSET Nat /\ \A k \in N : k <= Len(fors) /\ k # 0
    BY <1>1, <1>2
<1>5. Highest(N) \in N
    BY <1>1, <1>3, <1>4, HighestOf
<1> QED BY <1>2, <1>4, <1>5

LEMMA ForBlock == ASSUME IInv, BlockInv, CompileFor PROVE BlockInv'
<1> DEFINE n == ActFor
           v == S.args[1]
           J == <<[reg |-> Reg(Before, v), to |-> <<"for2", n>>],
                  [reg |-> None, to |-> <<"forend", n>>]>>
<1>1. PICK full : full = (n = 0)
    OBVIOUS
<1>2. /\ Compiling({"for"})
      /\ fors' = Given(n = 0, [fors EXCEPT ![n].for_def_set = TRUE], fors)
      /\ Test(v, full, J, {<<"for2", n>>}) /\ UNCHANGED <<ifs, whiles, switches>>
    BY <1>1 DEF CompileFor
<1>3. S \in Statement /\ S.op = "for" /\ Tables
    BY <1>2, StatementIs
<1>4. v \in Vars
    BY <1>3, ArgsAre
<1>5. PICK t, item :
          /\ Put(t, item)
          /\ item.jumps = Given(full, J, <<>>) /\ item.place = Given(full, {<<"for2", n>>}, {})
          /\ item.regs[1] = Reg(Before, v)
          /\ Got(Base(Now, S), item.loads, item.regs[1], v)
    <2> HIDE DEF J, n
    <2> QED BY <1>2, <1>4, TestIs
<1>6. Reads(Now, item, S)
    BY <1>3, <1>5 DEF Reads
<1>7. Forms
    BY DEF BlockInv, Forms
<1>8. CASE n = 0
    <2> HIDE DEF J
    <2>1. Plain(item) /\ UNCHANGED <<ifs, whiles, fors>>
        BY <1>1, <1>2, <1>5, <1>8 DEF Plain, Given
    <2>2. Open("for") = {}
        BY <1>3, <1>8, NoFor
    <2>3. S.op \notin {"else"} \cup Program!Closing
        BY <1>3 DEF Program!Closing
    <2>4. Forms'
        BY <1>2, <1>5, <1>7, <2>1, <2>2, <2>3, PlainForm
    <2> QED BY <1>2, <1>5, <1>6, <2>4, BlockPut
<1>9. CASE n # 0
    <2>1. fors' = [fors EXCEPT ![n].for_def_set = TRUE]
        BY <1>2, <1>9 DEF Given
    <2>2. n \in Nat /\ n \in Open("for") /\ \A m \in Open("for") : m <= n
        BY <1>3, <1>9, ActIs
    <2> HIDE DEF n
    <2>3. Size("for")' = Size("for") /\ Open("for")' = Open("for")
        <3>1. fors[n] \in [open : BOOLEAN, for_def_set : BOOLEAN] /\ fors[n].open
            BY <1>3, <2>2, EntryOpen
        <3> DEFINE e == [fors[n] EXCEPT !.for_def_set = TRUE]
        <3>2. e \in [open : BOOLEAN, for_def_set : BOOLEAN]
            BY <3>1
        <3>3. e.open <=> TRUE
            BY <3>1
        <3>4. fors' = [fors EXCEPT ![n] = e]
            BY <2>1
        <3> HIDE DEF e
        <3> QED BY <1>3, <2>2, <3>2, <3>3, <3>4, ForsChange
    <2>4. item.jumps = JumpsOf(S.op, item.regs, n) /\ item.place = PlaceOf(S.op, n)
        BY <1>1, <1>3, <1>5, <1>9 DEF JumpsOf, PlaceOf, Given, Always
    <2>5. /\ S.op \in Inner \cup Program!Closing /\ S.op \notin Program!Closing
          /\ S.op # "else" /\ Family(S.op) = "for" /\ n \in Nat \ {0}
        BY <1>3, <1>9, <2>2 DEF Program!Closing, Inner, Family
    <2>6. Forms'
        <3> HIDE DEF J
        <3> QED BY <1>2, <1>3, <1>5, <1>7, <2>2, <2>3, <2>4, <2>5, InForm
    <2> QED BY <1>2, <1>5, <1>6, <2>6, BlockPut
<1> QED BY <1>8, <1>9

LEMMA NextBlock == ASSUME IInv, BlockInv, CompileNext PROVE BlockInv'
<1> DEFINE n == ActFor
           J == <<[reg |-> None, to |-> <<"for", n>>]>>
           item == [Bare EXCEPT !.jumps = J, !.place = {<<"forend", n>>}]
<1>1. /\ Compiling({"next"}) /\ n # 0
      /\ fors' = [fors EXCEPT ![n].open = FALSE]
      /\ Emit(Clean, item) /\ UNCHANGED <<ifs, whiles, switches>>
    BY DEF CompileNext
<1>2. S.op = "next" /\ Tables /\ TypeOK
    BY <1>1, StatementIs
<1>3. Put(Clean, item)
    BY <1>1 DEF Emit
<1>4. item.place = {<<"forend", n>>} /\ item.jumps = J
    <2> HIDE DEF J, n
    <2> QED BY <1>2, BareIs DEF Item, Bare
<1>5. n \in Nat /\ n \in Open("for") /\ \A m \in Open("for") : m <= n
    BY <1>1, <1>2, ActIs
<1> HIDE DEF item, n
<1>6. Size("for")' = Size("for") /\ Open("for")' = Open("for") \ {n}
    <2>1. fors[n] \in [open : BOOLEAN, for_def_set : BOOLEAN] /\ fors[n].open
        BY <1>2, <1>5, EntryOpen
    <2> DEFINE e == [fors[n] EXCEPT !.open = FALSE]
    <2>2. e \in [open : BOOLEAN, for_def_set : BOOLEAN]
        BY <2>1
    <2>3. e.open <=> FALSE
        BY <2>1
    <2>4. fors' = [fors EXCEPT ![n] = e]
        BY <1>1
    <2> HIDE DEF e
    <2> QED BY <1>2, <1>5, <2>2, <2>3, <2>4, ForsChange
<1>7. item.jumps = JumpsOf(S.op, item.regs, n) /\ item.place = PlaceOf(S.op, n)
    BY <1>2, <1>4 DEF JumpsOf, PlaceOf, Always
<1>8. /\ Forms /\ S.op \in Program!Closing /\ S.op # "else"
      /\ Family(S.op) = "for" /\ Reads(Now, item, S) /\ n \in Nat \ {0}
    BY <1>1, <1>2, <1>5 DEF BlockInv, Forms, Program!Closing, Inner, Family, Reads
<1>9. Forms'
    BY <1>1, <1>2, <1>3, <1>5, <1>6, <1>7, <1>8, InForm
<1> QED BY <1>1, <1>3, <1>8, <1>9, BlockPut

LEMMA StopBlock ==
    ASSUME BlockInv, phase = "compile", phase' \notin {"run", "done"},
           UNCHANGED <<source, line, regi, call_set, save_regi, blocks, code, machine, was>>
    PROVE  BlockInv'
<1>1. Points' = Points
    BY DEF Points, Now
<1>2. Shapes' /\ Operands'
    BY <1>1 DEF BlockInv, Shapes, Operands, Lines, Op
<1>3. /\ \A f : Openers(f)' = Openers(f) /\ Closers(f)' = Closers(f)
      /\ \A f \in Families : Size(f)' = Size(f) /\ Open(f)' = Open(f)
      /\ Lines' = Lines /\ \A j : Op(j)' = Op(j) /\ Num(j)' = Num(j)
    BY DEF Openers, Closers, Size, Open, Lines, Op, Num, blocks
<1>4. Ordered'
    BY <1>3 DEF BlockInv, Ordered
<1>5. Matched' /\ Astray'
    <2>1. \A j : Stray(j)' <=> Stray(j)
        BY <1>3 DEF Stray, Plain
    <2> QED BY <1>3, <2>1 DEF BlockInv, Matched, Astray, Belongs, Suits, Op
<1>6. Linked'
    BY <1>3 DEF BlockInv, Linked, blocks
<1>7. Returned'
    BY PassedStill DEF BlockInv, machine
<1> QED BY <1>2, <1>4, <1>5, <1>6, <1>7 DEF BlockInv, machine

LEMMA FinishBlock == ASSUME IInv, BlockInv, Finish, "nested" \in Rules PROVE BlockInv'
<1>1. /\ phase = "compile" /\ line = Len(source) + 1 /\ Program!Nested(source)
      /\ code' = Append(code, Bare) /\ was' = Append(was, Now)
      /\ source' = source /\ ifs' = ifs /\ whiles' = whiles /\ fors' = fors
      /\ mem' = mem /\ pc' = pc
    BY DEF Finish, Now, blocks, machine
<1>2. TypeOK /\ Len(source) \in Nat /\ pc = 1
    BY <1>1 DEF IInv, PhaseInv
<1>3. code \in Seq(Item) /\ Len(code) = Len(source) /\ Bare \in Item
    BY <1>1, <1>2, BareIs DEF TypeOK
<1>4. Len(code') = Len(source) + 1 /\ \A j \in 1 .. Len(source) : code'[j] = code[j]
    BY <1>1, <1>2, <1>3
<1>5. Lines = 1 .. Len(source) /\ Lines' = 1 .. Len(source)
    BY <1>1, <1>2, <1>3, <1>4 DEF Lines
<1>6. \A j : Op(j)' = Op(j)
    BY <1>1 DEF Op
<1>7. \A j \in Lines : code'[j] = code[j] /\ Num(j)' = Num(j)
    BY <1>4, <1>5 DEF Num
<1>8. \A j \in Lines : Points'[j] = Points[j]
    <2> DEFINE P == [regi : Table, call_set : BOOLEAN, save_regi : SUBSET Regs]
    <2>1. was \in Seq(P) /\ Len(was) = Len(source) /\ Now \in P
        BY <1>1, <1>2 DEF TypeOK, Now
    <2> HIDE DEF P
    <2>2. /\ was' \in Seq(P) /\ Len(was') = Len(source) + 1
          /\ \A j \in 1 .. Len(source) : was'[j] = was[j]
        BY <1>1, <1>2, <2>1
    <2>3. \A j \in 1 .. Len(source) : Points'[j] = was'[j]
        BY <1>2, <2>2 DEF Points
    <2>4. \A j \in 1 .. Len(source) : Points[j] = was[j]
        BY <1>1, <1>2, PointsAt
    <2> QED BY <1>5, <2>2, <2>3, <2>4
<1>9. Operands' /\ Shapes'
    <2>1. \A j \in Lines' : Reads(Points'[j], code'[j], source'[j])
        BY <1>1, <1>5, <1>7, <1>8 DEF BlockInv, Operands
    <2>2. \A j \in Lines' : Shape(code'[j], Op(j)')
        BY <1>5, <1>6, <1>7 DEF BlockInv, Shapes
    <2> QED BY <2>1, <2>2 DEF Operands, Shapes
<1>10. \A f : Openers(f)' = Openers(f) /\ Closers(f)' = Closers(f)
    <2> SUFFICES ASSUME NEW f PROVE Openers(f)' = Openers(f) /\ Closers(f)' = Closers(f)
        OBVIOUS
    <2>1. \A j \in Lines : Family(Op(j))' = Family(Op(j))
        BY <1>6 DEF Family
    <2>2. Openers(f)' = Openers(f)
        BY <1>5, <1>6, <1>7, <2>1 DEF Openers, Program!Opening
    <2>3. Closers(f)' = Closers(f)
        BY <1>5, <1>6, <1>7, <2>1 DEF Closers, Program!Closing
    <2> QED BY <2>2, <2>3
<1>11. /\ \A f : Openers(f) \subseteq Lines /\ Closers(f) \subseteq Lines
       /\ \A f \in Families : Size(f)' = Size(f) /\ Open(f)' = Open(f)
    BY <1>1 DEF Openers, Closers, Size, Open
<1>12. Ordered'
    BY <1>7, <1>10, <1>11 DEF BlockInv, Ordered
<1>13. Linked'
    <2> SUFFICES ASSUME NEW f \in Families
                 PROVE  /\ \A i \in Openers(f)' : Num(i)' \in 1 .. Size(f)'
                               /\ (f = "if" => (ifs'[Num(i)'].plus <=> Op(i)' = "if+"))
                        /\ \A m \in 1 .. Size(f)' :
                              /\ \E i \in Openers(f)' : Num(i)' = m
                              /\ m \in Open(f)' <=> \A k \in Closers(f)' : Num(k)' # m
        BY DEF Linked
    <2>1. /\ \A i \in Openers(f) : Num(i) \in 1 .. Size(f)
                               /\ (f = "if" => (ifs[Num(i)].plus <=> Op(i) = "if+"))
          /\ \A m \in 1 .. Size(f) :
                /\ \E i \in Openers(f) : Num(i) = m
                /\ m \in Open(f) <=> \A k \in Closers(f) : Num(k) # m
        BY DEF BlockInv, Linked
    <2>2. (\A i \in Openers(f) : Num(i)' = Num(i)) /\ (\A i \in Closers(f) : Num(i)' = Num(i))
        BY <1>7, <1>11
    <2> QED BY <1>1, <1>6, <1>10, <1>11, <2>1, <2>2
<1>14. Matched'
    <2> SUFFICES ASSUME NEW j \in Lines', Op(j) \in Inner \cup Program!Closing, ~Stray(j)
                 PROVE  \E i \in Lines' : Belongs(j, i)'
        BY <1>5, <1>6, <1>7 DEF Matched, Program!Closing, Stray, Plain
    <2>1. PICK i \in Lines : Belongs(j, i)
        BY <1>5 DEF BlockInv, Matched
    <2>2. PICK f : f = Family(Op(j))
        OBVIOUS
    <2>3. Family(Op(j))' = f
        BY <1>6, <2>2 DEF Family
    <2>4. \A h : Suits(Op(j), h)' <=> Suits(Op(j), h)
        BY <1>6 DEF Suits
    <2>5. /\ i \in Openers(f) /\ i < j /\ Num(i) = Num(j) /\ Suits(Op(j), i)
          /\ \A k \in Closers(f) : k < j => Num(k) # Num(j)
          /\ \A h \in Openers(f) : i < h /\ h < j /\ Suits(Op(j), h) =>
                 \E k \in Closers(f) : k < j /\ Num(k) = Num(h)
        BY <2>1, <2>2 DEF Belongs
    <2>6. /\ \A k \in Openers(f) : Num(k)' = Num(k)
          /\ \A k \in Closers(f) : Num(k)' = Num(k)
          /\ Num(j)' = Num(j)
        BY <1>5, <1>7, <1>11
    <2>7. Belongs(j, i)'
        BY <1>10, <2>3, <2>4, <2>5, <2>6 DEF Belongs
    <2> QED BY <1>5, <2>7
<1>15. Astray'
    <2> SUFFICES ASSUME NEW j \in Lines', Stray(j), NEW i \in Openers("for"), i < j
                 PROVE  \E k \in Closers("for") : k < j /\ Num(k)' = Num(i)'
        BY <1>5, <1>6, <1>7, <1>10 DEF Astray, Stray, Plain
    <2>1. PICK k \in Closers("for") : k < j /\ Num(k) = Num(i)
        BY <1>5 DEF BlockInv, Astray
    <2> QED BY <1>7, <1>11, <2>1
<1>16. Returned' /\ mem' \in [Vars -> Values] /\ Program!Nested(source)'
    <2>1. Returned'
        BY <1>1, PassedStill DEF BlockInv, Finish, machine
    <2> QED BY <1>1, <2>1 DEF BlockInv
<1> QED BY <1>9, <1>12, <1>13, <1>14, <1>15, <1>16 DEF BlockInv

LEMMA InitBlock == ASSUME Init PROVE BlockInv
<1>1. /\ code = <<>> /\ ifs = <<>> /\ whiles = <<>> /\ fors = <<>> /\ phase = "compile"
      /\ mem \in [Vars -> Values]
    BY DEF Init
<1>2. Lines = {}
    BY <1>1 DEF Lines
<1>3. \A f : Openers(f) = {} /\ Closers(f) = {}
    BY <1>2 DEF Openers, Closers
<1>4. \A f \in Families : Size(f) = 0
    BY <1>1 DEF Families, Size
<1>5. Linked
    BY <1>3, <1>4 DEF Linked
<1>6. Shapes /\ Matched /\ Astray /\ Ordered /\ Operands
    BY <1>2, <1>3 DEF Shapes, Matched, Astray, Ordered, Operands
<1>7. Returned
    <2>1. pc = 1 /\ stack \in [1 .. Program!Body(source) - 1 -> Values]
        BY DEF Init
    <2>2. Passed = stack
        BY <2>1 DEF Passed
    <2>3. Program!Body(source) - 1 \in Nat
        <3>1. source \in Seq(Statement)
            BY ProgramsAssumption DEF Init
        <3>2. Len(source) \in Nat
            BY <3>1
        <3>3. Program!Body(source) \in 1 .. Len(source) + 1
            BY <3>2, BodyIs
        <3> QED BY <3>2, <3>3
    <2>4. stack \in Seq(Values)
        <3>1. PICK b \in Nat : b = Program!Body(source) - 1
            BY <2>3
        <3> QED BY <2>1, <3>1
    <2> QED BY <2>2, <2>4 DEF Returned
<1> QED BY <1>1, <1>5, <1>6, <1>7 DEF BlockInv

LEMMA CompileBlock ==
    ASSUME {"nested", "unread"} \subseteq Rules, IInv, BlockInv, Compile
    PROVE  BlockInv'
<1>1. CASE CompileSet BY <1>1, SetBlock
<1>2. CASE CompileCopy BY <1>2, CopyBlock
<1>3. CASE CompileCall BY <1>3, CallBlock
<1>4. CASE CompilePop BY <1>4, PopBlock
<1>5. CASE CompileIf BY <1>5, IfBlock
<1>6. CASE CompileCase BY <1>6, CaseBlock
<1>7. CASE CompileElse BY <1>7, ElseBlock
<1>8. CASE CompileEndif BY <1>8, EndifBlock
<1>9. CASE CompileDo BY <1>9, DoBlock
<1>10. CASE CompileWhile BY <1>10, WhileBlock
<1>11. CASE CompileForLoop BY <1>11, ForLoopBlock
<1>12. CASE CompileFor BY <1>12, ForBlock
<1>13. CASE CompileNext BY <1>13, NextBlock
<1>14. CASE CompileSwitch BY <1>14, SwitchBlock
<1>15. CASE CompileSwitchEnd BY <1>15, SwitchBlock
<1>16. CASE Refuse BY <1>16, StopBlock DEF Refuse, Compiling
<1>17. CASE BreakOutside BY <1>17, StopBlock DEF BreakOutside, Compiling
<1>18. CASE Finish BY <1>18, FinishBlock
<1> QED BY <1>1, <1>2, <1>3, <1>4, <1>5, <1>6, <1>7, <1>8, <1>9, <1>10, <1>11, <1>12, <1>13,
           <1>14, <1>15, <1>16, <1>17, <1>18 DEF Compile

-----------------------------------------------------------------------------
(***************************************************************************)
(* A statement runs.                                                       *)
(***************************************************************************)
LEMMA GotLoaded ==
    ASSUME IInv, phase = "run", pc <= Len(source), source[pc].op # "pop", NEW v \in Vars, NEW q,
           Got(Base(was[pc], source[pc]), C.loads, q, v)
    PROVE  q \in Regs /\ Loaded[q] = mem[v]
<1>1. /\ C.loads \in SUBSET [var : Vars, reg : RegNum] /\ Functional(C.loads)
      /\ ~was[pc].call_set => C.restore = {}
      /\ -1 \notin Used(C)
    BY RunAt DEF Item, Good
<1>2. CASE [var |-> v, reg |-> q] \in C.loads
    <2>1. q \in Regs
        <3>1. [var |-> v, reg |-> q].reg \in RegNum /\ [var |-> v, reg |-> q].reg \in Used(C)
            BY <1>1, <1>2 DEF Used
        <3> QED BY <1>1, <3>1 DEF RegNum
    <2> DEFINE l0 == CHOOSE l \in C.loads : l.reg = q
    <2>2. l0 \in C.loads /\ l0.reg = q
        BY <1>2
    <2>3. l0 = [var |-> v, reg |-> q]
        BY <1>1, <1>2, <2>1, <2>2 DEF Functional
    <2>4. Loaded[q] = mem[l0.var]
        BY <1>2, <2>1 DEF Loaded
    <2> HIDE DEF l0
    <2> QED BY <2>1, <2>3, <2>4
<1>3. CASE /\ q \in Regs /\ Base(was[pc], source[pc])[q] = v /\ \A l \in C.loads : l.reg # q
    <2>1. Clean[q] # v
        BY <1>3, Names, Zenon DEF Clean
    <2>2. ~was[pc].call_set \/ source[pc].op = "pop"
        BY <1>3, <2>1 DEF Base
    <2>3. was[pc].regi[q] = v
        BY <1>3, <2>1 DEF Base
    <2>4. C.restore = {} /\ ~was[pc].call_set
        BY <1>1, <2>2
    <2>5. regs[q] = mem[v]
        BY <1>3, <2>3, <2>4 DEF IInv, Coherent
    <2>6. Loaded[q] = regs[q]
        BY <1>3, <2>4 DEF Loaded
    <2> QED BY <1>3, <2>5, <2>6
<1> QED BY <1>2, <1>3 DEF Got

LEMMA ArgsLoaded ==
    ASSUME IInv, BlockInv, phase = "run", pc <= Len(source)
    PROVE  LET s == source[pc]
           IN  /\ s.op \in {"set", "?", "copy", "if", "if+", "while", "for"} =>
                      /\ s.args[1] \in Vars /\ C.regs[1] \in Regs
                      /\ Loaded[C.regs[1]] = mem[s.args[1]]
               /\ s.op \in {"set", "?"} =>
                      /\ s.args[2] \in Vars /\ C.regs[2] \in Regs
                      /\ Loaded[C.regs[2]] = mem[s.args[2]]
<1> DEFINE s == source[pc]
<1>1. /\ pc \in 1 .. Len(source) /\ s \in Statement /\ Len(code) = Len(source) + 1
      /\ was[pc] = Points[pc]
    BY RunAt
<1>2. pc \in Lines
    BY <1>1 DEF Lines
<1>3. Reads(was[pc], C, s)
    BY <1>1, <1>2 DEF BlockInv, Operands, C
<1>4. /\ s.op \in {"set", "?"} => s.args[1] \in Vars /\ s.args[2] \in Vars
      /\ s.op \in {"copy", "if", "if+", "while", "for"} => s.args[1] \in Vars
    BY <1>1, ArgsAre
<1>5. ASSUME s.op \in {"set", "?", "copy", "if", "if+", "while", "for"}
      PROVE  s.args[1] \in Vars /\ C.regs[1] \in Regs /\ Loaded[C.regs[1]] = mem[s.args[1]]
    <2>1. s.args[1] \in Vars /\ s.op # "pop"
        BY <1>4, <1>5
    <2>2. Got(Base(was[pc], s), C.loads, C.regs[1], s.args[1])
        BY <1>3, <1>5 DEF Reads
    <2> QED BY <2>1, <2>2, GotLoaded
<1>6. ASSUME s.op \in {"set", "?"}
      PROVE  s.args[2] \in Vars /\ C.regs[2] \in Regs /\ Loaded[C.regs[2]] = mem[s.args[2]]
    <2>1. s.args[2] \in Vars /\ s.op # "pop"
        BY <1>4, <1>6
    <2>2. Got(Base(was[pc], s), C.loads, C.regs[2], s.args[2])
        BY <1>3, <1>6 DEF Reads
    <2> QED BY <2>1, <2>2, GotLoaded
<1> QED BY <1>5, <1>6

LEMMA RunBlock ==
    ASSUME BlockInv, phase = "run", UNCHANGED Compiled, mem' \in [Vars -> Values], Returned'
    PROVE  BlockInv'
<1>1. /\ source' = source /\ line' = line /\ code' = code /\ Points' = Points
      /\ ifs' = ifs /\ fors' = fors /\ whiles' = whiles
    BY DEF Compiled, blocks, Points, Now
<1>2. Shapes' /\ Operands' /\ Program!Nested(source)'
    BY <1>1 DEF BlockInv, Shapes, Operands, Lines, Op
<1>3. /\ \A f : Openers(f)' = Openers(f) /\ Closers(f)' = Closers(f)
      /\ \A f \in Families : Size(f)' = Size(f) /\ Open(f)' = Open(f)
      /\ Lines' = Lines /\ \A j : Op(j)' = Op(j) /\ Num(j)' = Num(j)
    BY <1>1 DEF Openers, Closers, Size, Open, Lines, Op, Num
<1>4. Ordered'
    BY <1>3 DEF BlockInv, Ordered
<1>5. Matched' /\ Astray'
    <2>1. \A j : Stray(j)' <=> Stray(j)
        BY <1>1, <1>3 DEF Stray, Plain
    <2> QED BY <1>3, <2>1 DEF BlockInv, Matched, Astray, Belongs, Suits, Op
<1>6. Linked'
    BY <1>1, <1>3 DEF BlockInv, Linked
<1> QED BY <1>2, <1>4, <1>5, <1>6 DEF BlockInv

LEMMA AllPops ==
    ASSUME IInv, phase = "run"
    PROVE  (\A j \in 1 .. pc - 1 : source[j].op = "pop") <=> ~(pc > Program!Body(source))
<1>1. pc \in 1 .. Len(source) + 1 /\ Len(source) \in Nat
    BY DEF IInv, PhaseInv, TypeOK
<1>2. PICK b \in 1 .. Len(source) + 1 :
          /\ b = Program!Body(source)
          /\ \A j \in 1 .. b - 1 : source[j].op = "pop"
          /\ b <= Len(source) => source[b].op # "pop"
    BY <1>1, BodyIs
<1>3. CASE pc > b
    <2>1. b \in 1 .. pc - 1 /\ b <= Len(source)
        BY <1>1, <1>3
    <2> QED BY <1>2, <1>3, <2>1
<1>4. CASE ~(pc > b)
    <2>1. \A j \in 1 .. pc - 1 : j \in 1 .. b - 1
        BY <1>1, <1>4
    <2> QED BY <1>2, <1>4, <2>1
<1> QED BY <1>3, <1>4

\* The arguments, or what the last function returned, until it is popped.
LEMMA PassedIs ==
    ASSUME IInv, BlockInv, phase = "run", "nested" \in Rules
    PROVE  /\ Counter = pc /\ Passed \in Seq(Values)
           /\ pc <= Len(source) /\ source[pc].op = "pop" =>
                  /\ Passed # <<>>
                  /\ \/ ~(pc > Program!Body(source)) /\ Passed = stack
                     \/ pc > Program!Body(source) /\ Passed = <<stack[Len(stack)]>>
           /\ ~(pc <= Len(source) /\ source[pc].op = "pop") => Passed = <<>>
<1>1. pc \in 1 .. Len(source) + 1 /\ Len(source) \in Nat /\ stack \in Seq(Values \cup {None})
    BY DEF IInv, PhaseInv, TypeOK
<1>2. PICK b \in 1 .. Len(source) + 1 :
          b = Program!Body(source) /\ (b <= Len(source) => source[b].op # "pop")
    BY <1>1, BodyIs
<1>3. Counter = pc /\ Passed \in Seq(Values)
    BY DEF Counter, BlockInv, Returned
<1>4. /\ ~(pc > b) => Passed = stack
      /\ pc > b => Passed = IF Answered THEN <<stack[Len(stack)]>> ELSE <<>>
    BY <1>2, AllPops DEF Passed
<1>5. ~(pc > b) => Len(stack) = IF pc < b THEN b - pc ELSE 0
    BY <1>1, <1>2, NoCallYet DEF IInv, StackBalanced
<1>6. CASE pc <= Len(source) /\ source[pc].op = "pop"
    <2>1. pc # b /\ (pc < b \/ Answered)
        BY <1>2, <1>6, PopsAt
    <2>2. CASE pc < b
        <3>1. ~(pc > b) /\ b - pc > 0
            BY <1>1, <1>2, <2>2
        <3>2. Passed = stack /\ Len(stack) = b - pc
            BY <1>4, <1>5, <2>2, <3>1
        <3>3. stack # <<>>
            BY <1>1, <3>1, <3>2
        <3> QED BY <1>2, <1>3, <1>6, <3>1, <3>2, <3>3
    <2>3. CASE ~(pc < b)
        <3>1. pc > b /\ Answered
            BY <1>1, <1>2, <2>1, <2>3
        <3>2. Passed = <<stack[Len(stack)]>>
            BY <1>4, <3>1
        <3>3. Passed # <<>>
            BY <3>2
        <3> QED BY <1>2, <1>3, <1>6, <3>1, <3>2, <3>3
    <2> QED BY <2>2, <2>3
<1>7. CASE ~(pc <= Len(source) /\ source[pc].op = "pop")
    <2>1. ~(pc < b) /\ ~Answered
        <3>1. CASE pc <= Len(source)
            BY <1>2, <1>7, <3>1, PopsAt
        <3>2. CASE ~(pc <= Len(source))
            <4>1. pc = Len(source) + 1 /\ ~(pc < b) /\ (pc > 1 => pc - 1 > 0)
                  /\ pc - 1 \in 0 .. Len(source) /\ ~(pc - 1 < Len(source))
                BY <1>1, <1>2, <3>2
            <4>2. ~(pc - 1 > 0 /\ source[pc - 1].op = "call" /\ source[pc - 1].ret)
                BY <4>1 DEF IInv, PhaseInv, Popped
            <4> QED BY <4>1, <4>2 DEF Answered
        <3> QED BY <3>1, <3>2
    <2>2. CASE pc > b
        BY <1>3, <1>4, <1>7, <2>1, <2>2
    <2>3. CASE ~(pc > b)
        <3>1. Passed = stack /\ Len(stack) = 0
            BY <1>4, <1>5, <2>1, <2>3
        <3>2. stack = <<>>
            BY <1>1, <3>1
        <3> QED BY <1>3, <1>7, <3>1, <3>2
    <2> QED BY <2>2, <2>3
<1> QED BY <1>6, <1>7

LEMMA LastOf == \A k \in Nat : k > 1 => k - 1 \in 1 .. k - 1
OBVIOUS

LEMMA NothingPassed ==
    ASSUME source' = source, phase' = "run", pc' \in Nat, pc' > 1,
           source[pc' - 1].op \notin {"call", "pop"}
    PROVE  Passed' = <<>> /\ Returned' /\ Counter' = pc'
<1>1. PICK k \in Nat : k = pc' /\ k > 1
    OBVIOUS
<1>2. k - 1 \in 1 .. k - 1
    BY <1>1, LastOf, Zenon
<1>3. ~Answered'
    BY DEF Answered
<1>5. ~ \A j \in 1 .. k - 1 : source[j].op = "pop"
    BY <1>1, <1>2
<1>6. Passed' = <<>>
    BY <1>1, <1>3, <1>5 DEF Passed
<1>4. <<>> \in Seq(Values)
    OBVIOUS
<1> QED BY <1>4, <1>6 DEF Returned, Counter

\* The next statement, behind one that is no call and no pop.
LEMMA Falls ==
    ASSUME IInv, BlockInv, phase = "run", UNCHANGED <<phase, Compiled>>, pc <= Len(source),
           source[pc].op \notin {"call", "pop"}, pc' = pc + 1, "nested" \in Rules
    PROVE  Passed' = <<>> /\ Returned' /\ Counter' = Counter + 1 /\ Counter = pc
           /\ pc \in 1 .. Len(source) /\ Passed = <<>>
<1>1. /\ pc \in 1 .. Len(source) /\ source' = source /\ phase' = "run"
      /\ pc' - 1 = pc /\ pc' \in Nat /\ pc' > 1
    BY RunAt DEF Compiled
<1>2. Passed' = <<>> /\ Returned' /\ Counter' = pc'
    BY <1>1, NothingPassed
<1>3. Counter = pc /\ Passed = <<>>
    BY PassedIs
<1> QED BY <1>1, <1>2, <1>3

LEMMA SetRuns ==
    ASSUME IInv, BlockInv, RunSet, UNCHANGED <<phase, Compiled>>, "nested" \in Rules
    PROVE  BlockInv' /\ Program!Assign
<1> DEFINE s == source[pc]
           sum == Plus(Loaded[C.regs[1]], Loaded[C.regs[2]])
           u == mem[s.args[1]]
           v == mem[s.args[2]]
<1>1. /\ phase = "run" /\ pc <= Len(source) /\ s.op = "set"
      /\ mem' = [mem EXCEPT ![s.to] = sum] /\ pc' = pc + 1
    BY DEF RunSet, Running
<1>2. s.args[1] \in Vars /\ s.args[2] \in Vars /\ Loaded[C.regs[1]] = u /\ Loaded[C.regs[2]] = v
    BY <1>1, ArgsLoaded
<1>3. mem \in [Vars -> Values] /\ u \in Values /\ v \in Values
    BY <1>2 DEF BlockInv
<1>4. sum = Sum[u, v]
    BY <1>2, <1>3 DEF Plus
<1>5. Sum[u, v] \in Values
    <2>1. Sum \in [Values \X Values -> Values]
        BY CompilerAssumption
    <2> QED BY <1>3, <2>1
<1> HIDE DEF sum, u, v
<1>6. mem' \in [Vars -> Values]
    BY <1>1, <1>3, <1>4, <1>5
<1>7. /\ Passed' = <<>> /\ Returned' /\ Counter' = Counter + 1 /\ Counter = pc
      /\ pc \in 1 .. Len(source) /\ Passed = <<>>
    BY <1>1, Falls
<1>8. source' = source
    BY DEF Compiled
<1>9. BlockInv'
    BY <1>1, <1>6, <1>7, RunBlock
<1>10. Program!Assign
    BY <1>1, <1>4, <1>7, <1>8 DEF Program!Assign, Program!At, Program!S, u, v
<1> QED BY <1>9, <1>10

LEMMA CopyRuns ==
    ASSUME IInv, BlockInv, RunCopy, UNCHANGED <<phase, Compiled>>, "nested" \in Rules
    PROVE  BlockInv' /\ Program!Assign
<1> DEFINE s == source[pc]
<1>1. /\ phase = "run" /\ pc <= Len(source) /\ s.op = "copy"
      /\ mem' = [mem EXCEPT ![s.to] = Loaded[C.regs[1]]] /\ pc' = pc + 1
    BY DEF RunCopy, Running
<1>2. s.args[1] \in Vars /\ Loaded[C.regs[1]] = mem[s.args[1]]
    BY <1>1, ArgsLoaded
<1>3. mem' \in [Vars -> Values]
    BY <1>1, <1>2 DEF BlockInv
<1>4. /\ Passed' = <<>> /\ Returned' /\ Counter' = Counter + 1 /\ Counter = pc
      /\ pc \in 1 .. Len(source) /\ Passed = <<>>
    BY <1>1, Falls
<1>5. source' = source
    BY DEF Compiled
<1>6. BlockInv'
    BY <1>1, <1>3, <1>4, RunBlock
<1>7. Program!Assign
    BY <1>1, <1>2, <1>4, <1>5 DEF Program!Assign, Program!At, Program!S
<1> QED BY <1>6, <1>7

LEMMA PopRuns ==
    ASSUME IInv, BlockInv, RunPop, UNCHANGED <<phase, Compiled>>, "nested" \in Rules
    PROVE  BlockInv' /\ Program!Pop
<1> DEFINE v == stack[Len(stack)]
<1>1. /\ phase = "run" /\ phase' = "run" /\ pc <= Len(source) /\ source[pc].op = "pop"
      /\ mem' = [mem EXCEPT ![source[pc].to] = v] /\ pc' = pc + 1
      /\ stack' = SubSeq(stack, 1, Len(stack) - 1) /\ source' = source
    BY DEF RunPop, Running, Compiled
<1>2. /\ Counter = pc /\ Passed \in Seq(Values) /\ Passed # <<>>
      /\ \/ ~(pc > Program!Body(source)) /\ Passed = stack
         \/ pc > Program!Body(source) /\ Passed = <<v>>
    BY <1>1, PassedIs
<1>3. pc \in 1 .. Len(source) /\ Len(source) \in Nat
    BY <1>1, RunAt
<1>4. pc' - 1 = pc /\ Counter' = pc + 1 /\ Counter \in 1 .. Len(source)
    BY <1>1, <1>2, <1>3 DEF Counter
<1> HIDE DEF v
<1>5. Passed[Len(Passed)] = v /\ Passed' = SubSeq(Passed, 1, Len(Passed) - 1)
    <2>1. CASE ~(pc > Program!Body(source)) /\ Passed = stack
        <3>1. \A j \in 1 .. pc - 1 : source[j].op = "pop"
            BY <1>1, <2>1, AllPops
        <3>2. \A j \in 1 .. pc' - 1 : source'[j].op = "pop"
            <4>1. \A j \in 1 .. pc : j \in 1 .. pc - 1 \/ j = pc
                BY <1>3
            <4> QED BY <1>1, <1>4, <3>1, <4>1
        <3>3. Passed' = stack'
            BY <3>2 DEF Passed
        <3> QED BY <1>1, <2>1, <3>3 DEF v
    <2>2. CASE pc > Program!Body(source) /\ Passed = <<v>>
        <3>1. ~ \A j \in 1 .. pc - 1 : source[j].op = "pop"
            BY <1>1, <2>2, AllPops
        <3>2. \A j \in 1 .. pc - 1 : j \in 1 .. pc' - 1
            BY <1>3, <1>4
        <3>3. ~ \A j \in 1 .. pc' - 1 : source'[j].op = "pop"
            BY <1>1, <3>1, <3>2
        <3>4. ~Answered'
            BY <1>1, <1>4 DEF Answered
        <3>5. Passed' = <<>>
            BY <3>3, <3>4 DEF Passed
        <3>6. \A u : /\ Len(<<u>>) = 1 /\ <<u>>[1] = u
                     /\ SubSeq(<<u>>, 1, 0) = <<>>
            OBVIOUS
        <3> QED BY <2>2, <3>5, <3>6
    <2> QED BY <1>2, <2>1, <2>2
<1>6. v \in Values /\ Passed' \in Seq(Values)
    <2>1. Len(Passed) \in 1 .. Len(Passed)
        BY <1>2
    <2>2. Passed[Len(Passed)] \in Values
        BY <1>2, <2>1
    <2>3. SubSeq(Passed, 1, Len(Passed) - 1) \in Seq(Values)
        BY <1>2, Shortened
    <2> QED BY <1>5, <2>2, <2>3
<1>7. mem' \in [Vars -> Values]
    BY <1>1, <1>6 DEF BlockInv
<1>8. BlockInv'
    BY <1>1, <1>6, <1>7, RunBlock DEF Returned
<1>9. Program!Pop
    BY <1>1, <1>2, <1>4, <1>5 DEF Program!Pop, Program!At, Program!S
<1> QED BY <1>8, <1>9

LEMMA CallRuns ==
    ASSUME IInv, BlockInv, NEW m \in [Vars -> Values], NEW v \in Values, RunCall(m, v),
           UNCHANGED <<phase, Compiled>>, "nested" \in Rules
    PROVE  BlockInv' /\ Program!Call
<1> DEFINE s == source[pc]
           q == [n \in 1 .. Cardinality(C.saves) |-> None]
           saved == Restored \o q
<1>1. /\ phase = "run" /\ phase' = "run" /\ pc <= Len(source) /\ s.op = "call" /\ mem' = m
      /\ \A x \in Vars \ Shared : m[x] = mem[x]
      /\ stack' = saved \o (IF s.ret THEN <<v>> ELSE <<>>) /\ pc' = pc + 1
      /\ source' = source
    BY DEF RunCall, Running, Compiled
<1>2. pc \in 1 .. Len(source) /\ pc' - 1 = pc /\ pc' > 1
    BY <1>1, RunAt
<1>3. Passed = <<>> /\ Counter = pc /\ Counter' = pc'
    BY <1>1, PassedIs DEF Counter
<1>4. s.ret => stack' # <<>> /\ stack'[Len(stack')] = v
    <2>1. Restored \in Seq(Values \cup {None})
        BY <1>1, RestoredIs
    <2>2. Cardinality(C.saves) \in Nat
        BY <1>1, RunAt, SetsOfRegs DEF Item
    <2>3. saved \in Seq(Values \cup {None})
        <3>1. q \in Seq(Values \cup {None})
            BY <2>2
        <3> HIDE DEF q
        <3> QED BY <2>1, <3>1
    <2> HIDE DEF saved
    <2>4. CASE s.ret
        <3>1. stack' = saved \o <<v>>
            BY <1>1, <2>4
        <3>2. PICK V : V = Values \cup {None}
            OBVIOUS
        <3>3. saved \in Seq(V) /\ v \in V
            BY <2>3, <3>2
        <3>4. ASSUME NEW z \in Seq(V)
              PROVE  LET w == z \o <<v>> IN w # <<>> /\ w[Len(w)] = v
            BY <3>3
        <3>5. stack' # <<>> /\ stack'[Len(stack')] = v
            BY <3>1, <3>3, <3>4
        <3> QED BY <3>5
    <2> QED BY <2>4
<1>5. Passed' = IF s.ret THEN <<v>> ELSE <<>>
    <2>1. pc \in 1 .. pc' - 1 /\ source'[pc] = s /\ source'[pc' - 1] = s
        BY <1>1, <1>2
    <2>2. ~ \A j \in 1 .. pc' - 1 : source'[j].op = "pop"
        BY <1>1, <2>1
    <2>3. Answered' <=> s.ret
        BY <1>1, <1>2, <2>1 DEF Answered
    <2> QED BY <1>4, <2>2, <2>3 DEF Passed
<1>6. Returned' /\ <<v>> = Append(<<>>, v)
    <2>1. <<v>> \in Seq(Values) /\ <<>> \in Seq(Values) /\ <<v>> = Append(<<>>, v)
        OBVIOUS
    <2>2. Passed' \in Seq(Values)
        BY <1>5, <2>1
    <2> QED BY <2>1, <2>2 DEF Returned
<1>7. BlockInv'
    BY <1>1, <1>6, RunBlock
<1>8. IF s.ret THEN \E u \in Values : Passed' = Append(Passed, u) ELSE Passed' = Passed
    BY <1>3, <1>5, <1>6
<1>9. Program!Call
    BY <1>1, <1>2, <1>3, <1>8 DEF Program!Call, Program!At, Program!S
<1> QED BY <1>7, <1>9

-----------------------------------------------------------------------------
(***************************************************************************)
(* Nested blocks.                                                          *)
(***************************************************************************)
\* The instance counts as this module does.
LEMMA CountIs == ASSUME NEW T PROVE Program!Cardinality(T) = Cardinality(T)
BY DEF Program!Cardinality, Cardinality

LEMMA DepthIs ==
    ASSUME NEW p, NEW i \in Int, NEW j \in Int
    PROVE  /\ Program!Depth(p, i, j) \in Int
           /\ i > j => Program!Depth(p, i, j) = 0
           /\ i = j => Program!Depth(p, i, j) = IF p[i].op \in Program!Opening THEN 1
                                                ELSE IF p[i].op \in Program!Closing THEN -1 ELSE 0
<1> DEFINE A == {k \in i .. j : p[k].op \in Program!Opening}
           B == {k \in i .. j : p[k].op \in Program!Closing}
<1>1. Program!Depth(p, i, j) = Cardinality(A) - Cardinality(B)
    BY CountIs, Zenon DEF Program!Depth
<1>2. IsFiniteSet(i .. j)
    BY FS_Interval
<1>3. Cardinality(A) \in Nat /\ Cardinality(B) \in Nat
    <2>1. A \in SUBSET (i .. j) /\ B \in SUBSET (i .. j)
        OBVIOUS
    <2> HIDE DEF A, B
    <2>2. IsFiniteSet(A) /\ IsFiniteSet(B)
        BY <1>2, <2>1, FS_Subset
    <2> QED BY <2>2, FS_CardinalityType
<1>4. CASE i > j
    <2>1. A = {} /\ B = {}
        BY <1>4
    <2> HIDE DEF A, B
    <2> QED BY <1>1, <1>4, <2>1, FS_EmptySet
<1>5. CASE i = j
    <2>1. i .. j = {i}
        BY <1>5
    <2>2. A = IF p[i].op \in Program!Opening THEN {i} ELSE {}
        BY <2>1
    <2>3. B = IF p[i].op \in Program!Closing THEN {i} ELSE {}
        BY <2>1
    <2>4. p[i].op \in Program!Opening => p[i].op \notin Program!Closing
        BY DEF Program!Opening, Program!Closing
    <2>5. Cardinality({i}) = 1 /\ Cardinality({}) = 0
        BY FS_Singleton, FS_EmptySet
    <2> HIDE DEF A, B
    <2>6. CASE p[i].op \in Program!Opening
        <3>1. Program!Depth(p, i, j) = 1 - 0
            BY <1>1, <2>2, <2>3, <2>4, <2>5, <2>6
        <3> QED BY <1>5, <2>6, <3>1
    <2>7. CASE p[i].op \notin Program!Opening /\ p[i].op \in Program!Closing
        <3>1. Program!Depth(p, i, j) = 0 - 1
            BY <1>1, <2>2, <2>3, <2>5, <2>7
        <3> QED BY <1>5, <2>7, <3>1
    <2>8. CASE p[i].op \notin Program!Opening /\ p[i].op \notin Program!Closing
        <3>1. Program!Depth(p, i, j) = 0 - 0
            BY <1>1, <2>2, <2>3, <2>5, <2>8
        <3> QED BY <1>5, <2>8, <3>1
    <2> QED BY <2>6, <2>7, <2>8
<1> HIDE DEF A, B
<1>6. CASE i < j
    BY <1>1, <1>3, <1>6
<1> QED BY <1>4, <1>5, <1>6

LEMMA DepthSum ==
    ASSUME NEW p, NEW i \in Int, NEW h \in Int, NEW j \in Int, i <= h, h <= j
    PROVE  Program!Depth(p, i, j) = Program!Depth(p, i, h - 1) + Program!Depth(p, h, j)
<1>1. ASSUME NEW T
      PROVE  LET Q(a, b) == {k \in a .. b : p[k].op \in T}
             IN  /\ Cardinality(Q(i, j)) = Cardinality(Q(i, h - 1)) + Cardinality(Q(h, j))
                 /\ Cardinality(Q(i, h - 1)) \in Nat /\ Cardinality(Q(h, j)) \in Nat
    <2> DEFINE X == {k \in i .. h - 1 : p[k].op \in T}
               Y == {k \in h .. j : p[k].op \in T}
               Z == {k \in i .. j : p[k].op \in T}
    <2>1. X \in SUBSET (i .. h - 1) /\ Y \in SUBSET (h .. j) /\ Z = X \cup Y /\ X \cap Y = {}
        OBVIOUS
    <2>2. IsFiniteSet(i .. h - 1) /\ IsFiniteSet(h .. j)
        BY FS_Interval
    <2> HIDE DEF X, Y, Z
    <2>3. IsFiniteSet(X) /\ IsFiniteSet(Y)
        BY <2>1, <2>2, FS_Subset
    <2>4. Cardinality(Z) = Cardinality(X) + Cardinality(Y) - Cardinality({})
        BY <2>1, <2>3, FS_Union
    <2>5. Cardinality(X) \in Nat /\ Cardinality(Y) \in Nat /\ Cardinality({}) = 0
        BY <2>3, FS_CardinalityType, FS_EmptySet
    <2>6. Cardinality(Z) = Cardinality(X) + Cardinality(Y)
        BY <2>4, <2>5
    <2> QED BY <2>5, <2>6 DEF X, Y, Z
<1> DEFINE O(a, b) == Cardinality({k \in a .. b : p[k].op \in Program!Opening})
           E(a, b) == Cardinality({k \in a .. b : p[k].op \in Program!Closing})
<1>2. O(i, j) = O(i, h - 1) + O(h, j) /\ O(i, h - 1) \in Nat /\ O(h, j) \in Nat
    BY <1>1
<1>3. E(i, j) = E(i, h - 1) + E(h, j) /\ E(i, h - 1) \in Nat /\ E(h, j) \in Nat
    BY <1>1
<1>4. \A a, b : Program!Depth(p, a, b) = O(a, b) - E(a, b)
    BY CountIs, Zenon DEF Program!Depth
<1> HIDE DEF O, E
<1> QED BY <1>2, <1>3, <1>4

\* A block has one end, and an end one block.
LEMMA OneEnd ==
    ASSUME NEW p, NEW i \in Int, NEW j \in Int, Program!Ends(p, i, j)
    PROVE  /\ \A k \in Int : Program!Ends(p, i, k) => k = j
           /\ \A h \in Int : Program!Ends(p, h, j) => h = i
           /\ p[i].op \in Program!Opening /\ p[j].op \in Program!Closing /\ i < j
<1>1. \A a, b : Program!Ends(p, a, b) <=>
          /\ a < b /\ p[a].op \in Program!Opening
          /\ Program!Depth(p, a, b) = 0
          /\ \A k \in a .. b - 1 : Program!Depth(p, a, k) > 0
    BY DEF Program!Ends
<1>2. ASSUME NEW a \in Int, NEW b \in Int, NEW k \in Int,
             Program!Ends(p, a, b), Program!Ends(p, a, k), b < k
      PROVE  FALSE
    <2>1. Program!Depth(p, a, b) = 0 /\ b \in a .. k - 1
        BY <1>1, <1>2
    <2> QED BY <1>1, <1>2, <2>1
<1>3. ASSUME NEW a \in Int, NEW h \in Int, NEW b \in Int,
             Program!Ends(p, a, b), Program!Ends(p, h, b), a < h
      PROVE  FALSE
    <2>1. Program!Depth(p, a, b) = Program!Depth(p, a, h - 1) + Program!Depth(p, h, b)
        BY <1>1, <1>3, DepthSum
    <2>2. Program!Depth(p, a, h - 1) > 0
        <3>1. h - 1 \in a .. b - 1
            BY <1>1, <1>3
        <3> QED BY <1>1, <1>3, <3>1
    <2>3. Program!Depth(p, a, h - 1) \in Int
        BY DepthIs
    <2> QED BY <1>1, <1>3, <2>1, <2>2, <2>3
<1>4. p[j].op \in Program!Closing
    <2>1. Program!Depth(p, i, j) = Program!Depth(p, i, j - 1) + Program!Depth(p, j, j)
        BY <1>1, DepthSum
    <2>2. Program!Depth(p, i, j - 1) > 0 /\ Program!Depth(p, i, j - 1) \in Int
        BY <1>1, DepthIs
    <2>3. Program!Depth(p, j, j) \in Int /\ Program!Depth(p, j, j) < 0
        BY <1>1, <2>1, <2>2, DepthIs
    <2>4. p[j].op \notin Program!Closing => Program!Depth(p, j, j) \in {0, 1}
        BY DepthIs
    <2> QED BY <2>3, <2>4
<1> QED BY <1>1, <1>2, <1>3, <1>4

\* A block that begins inside another one ends inside of it.
LEMMA EndsInside ==
    ASSUME NEW p, NEW i \in Int, NEW j \in Int, NEW h \in Int, NEW k \in Int,
           Program!Ends(p, i, j), Program!Ends(p, h, k), i < h, h < j
    PROVE  k < j
<1>1. \A a, b : Program!Ends(p, a, b) =>
          /\ Program!Depth(p, a, b) = 0
          /\ \A c \in a .. b - 1 : Program!Depth(p, a, c) > 0
    BY DEF Program!Ends
<1> SUFFICES ASSUME j <= k PROVE FALSE
    OBVIOUS
<1>2. k # j
    BY OneEnd
<1>3. Program!Depth(p, i, j) = Program!Depth(p, i, h - 1) + Program!Depth(p, h, j)
    BY DepthSum
<1>4. h - 1 \in i .. j - 1 /\ j \in h .. k - 1
    BY <1>2
<1>5. Program!Depth(p, i, h - 1) > 0 /\ Program!Depth(p, h, j) > 0 /\ Program!Depth(p, i, j) = 0
    BY <1>1, <1>4
<1>6. Program!Depth(p, i, h - 1) \in Int /\ Program!Depth(p, h, j) \in Int
    BY DepthIs
<1> QED BY <1>3, <1>5, <1>6

LEMMA RunLines ==
    ASSUME IInv, BlockInv, phase = "run"
    PROVE  /\ Len(source) \in Nat /\ Len(code) = Len(source) + 1 /\ Lines = 1 .. Len(source)
           /\ pc \in 1 .. Len(source) + 1
           /\ Program!Nested(source)
<1>1. /\ pc \in 1 .. Len(source) + 1 /\ Len(source) \in Nat /\ Len(code) = line - 1
      /\ line = Len(source) + 2
    BY DEF IInv, PhaseInv, TypeOK
<1>2. Lines = 1 .. Len(source)
    BY <1>1 DEF Lines
<1> QED BY <1>1, <1>2 DEF BlockInv

\* The end of a block is of the kind of its begin.
LEMMA EndIs ==
    ASSUME Program!Nested(source), Len(source) \in Nat, NEW i \in 1 .. Len(source),
           Op(i) \in Program!Opening
    PROVE  \E j \in 1 .. Len(source) :
               /\ Program!Ends(source, i, j) /\ i < j /\ Op(j) \in Program!Closing
               /\ <<Op(i), Op(j)>> \in Program!Pairs /\ Family(Op(j)) = Family(Op(i))
               /\ Program!End(source, i) = j
<1>1. PICK j \in 1 .. Len(source) :
          Program!Ends(source, i, j) /\ <<source[i].op, source[j].op>> \in Program!Pairs
    BY DEF Program!Nested, Op
<1>2. /\ \A k \in 1 .. Len(source) : Program!Ends(source, i, k) => k = j
      /\ source[j].op \in Program!Closing /\ i < j
    BY <1>1, OneEnd
<1>3. Family(Op(j)) = Family(Op(i))
    BY <1>1 DEF Program!Pairs, Family, Op
<1>4. Program!End(source, i) = j
    BY <1>1, <1>2 DEF Program!End
<1> QED BY <1>1, <1>2, <1>3, <1>4 DEF Op

LEMMA BeginIs ==
    ASSUME Program!Nested(source), Len(source) \in Nat, NEW j \in 1 .. Len(source),
           Op(j) \in Program!Closing
    PROVE  \E i \in 1 .. Len(source) :
               /\ Program!Ends(source, i, j) /\ i < j /\ Op(i) \in Program!Opening
               /\ Family(Op(j)) = Family(Op(i)) /\ Program!Begin(source, j) = i
<1>1. PICK i \in 1 .. j : Program!Ends(source, i, j)
    BY DEF Program!Nested, Op
<1>2. i \in 1 .. Len(source)
    BY <1>1
<1>3. /\ \A h \in 1 .. Len(source) : Program!Ends(source, h, j) => h = i
      /\ source[i].op \in Program!Opening /\ i < j
    BY <1>1, <1>2, OneEnd
<1>4. PICK k \in 1 .. Len(source) : Program!Ends(source, i, k) /\ Family(Op(k)) = Family(Op(i))
    BY <1>2, <1>3, EndIs DEF Op
<1>5. k = j
    BY <1>1, <1>2, <1>4, OneEnd
<1>6. Program!Begin(source, j) = i
    BY <1>1, <1>2, <1>3 DEF Program!Begin
<1> QED BY <1>1, <1>2, <1>3, <1>4, <1>5, <1>6 DEF Op

Ending(j) == j \in Lines /\ Op(j) \in Program!Closing

\* A block that was entered in the tables is closed when its end was there.
LEMMA ClosedBefore ==
    ASSUME Program!Nested(source), Len(source) \in Nat, Lines = 1 .. Len(source),
           NEW i \in Lines, NEW a \in Lines, NEW k \in Lines, Ending(k), Belongs(k, i),
           a \in Openers(Family(Op(k))), Program!Ends(source, a, k), i <= a
    PROVE  \E h \in Closers(Family(Op(k))) : h <= k /\ Num(h) = Num(a)
<1>1. k \in Closers(Family(Op(k)))
    BY DEF Closers, Ending
<1>2. a < k
    BY OneEnd
<1>3. CASE i = a
    BY <1>1, <1>3 DEF Belongs
<1>4. CASE i < a
    <2>1. Suits(Op(k), a)
        BY DEF Suits, Ending, Program!Closing
    <2>2. \E h \in Closers(Family(Op(k))) : h < k /\ Num(h) = Num(a)
        BY <1>2, <1>4, <2>1 DEF Belongs
    <2>3. Closers(Family(Op(k))) \subseteq Lines
        BY DEF Closers
    <2> QED BY <2>2, <2>3
<1> QED BY <1>3, <1>4

\* An end never goes to a block inside of its own.
LEMMA NotInside ==
    ASSUME Program!Nested(source), Len(source) \in Nat, Lines = 1 .. Len(source), Matched,
           NEW j0 \in Lines, Ending(j0), NEW a0 \in Lines, NEW b0 \in Lines,
           Belongs(j0, a0), Program!Ends(source, b0, j0)
    PROVE  a0 <= b0
<1> DEFINE Wrong == {j \in Lines : Ending(j) /\ \E a, b \in Lines :
                        Belongs(j, a) /\ Program!Ends(source, b, j) /\ b < a}
<1>1. SUFFICES ASSUME Wrong # {} PROVE FALSE
    OBVIOUS
<1>2. PICK j : j = Least(Wrong)
    OBVIOUS
<1>3. j \in Wrong /\ \A k \in Wrong : j <= k
    <2>1. Wrong \in SUBSET Nat
        OBVIOUS
    <2> HIDE DEF Wrong
    <2> QED BY <1>1, <1>2, <2>1, LeastOf
<1>4. PICK a \in Lines, b \in Lines : Belongs(j, a) /\ Program!Ends(source, b, j) /\ b < a
    BY <1>3
<1>5. PICK f : f = Family(Op(j))
    OBVIOUS
<1>6. /\ a \in Openers(f) /\ a < j /\ Num(a) = Num(j)
      /\ \A h \in Closers(f) : h < j => Num(h) # Num(j)
    BY <1>4, <1>5 DEF Belongs
<1>7. Op(a) \in Program!Opening /\ Family(Op(a)) = f
    BY <1>6 DEF Openers
<1>8. PICK k \in Lines : /\ Program!Ends(source, a, k) /\ Op(k) \in Program!Closing
                         /\ Family(Op(k)) = f
    BY <1>7, EndIs
<1>9. k < j
    BY <1>3, <1>4, <1>6, <1>8, EndsInside
<1>10. Ending(k)
    BY <1>8 DEF Ending
<1>11. PICK i \in Lines : Belongs(k, i)
    BY <1>8 DEF Matched, Stray, Program!Closing
<1>12. i <= a
    BY <1>3, <1>8, <1>9, <1>10, <1>11
<1>13. \E h \in Closers(f) : h <= k /\ Num(h) = Num(a)
    BY <1>6, <1>8, <1>10, <1>11, <1>12, ClosedBefore
<1>14. Closers(f) \subseteq Lines
    BY DEF Closers
<1> QED BY <1>3, <1>6, <1>9, <1>13, <1>14

\* An end belongs to the begin of its block.
LEMMA EndBelongs ==
    ASSUME Program!Nested(source), Len(source) \in Nat, Lines = 1 .. Len(source), Matched,
           NEW j0 \in Lines, Ending(j0), NEW b0 \in Lines, Program!Ends(source, b0, j0)
    PROVE  Belongs(j0, b0)
<1> DEFINE Right(j) == \A b \in Lines : Program!Ends(source, b, j) => Belongs(j, b)
           Wrong == {j \in Lines : Ending(j) /\ ~Right(j)}
<1>1. SUFFICES ASSUME Wrong # {} PROVE FALSE
    OBVIOUS
<1>2. PICK j : j = Highest(Wrong)
    OBVIOUS
<1>3. j \in Wrong /\ \A k \in Wrong : k <= j
    <2>1. Wrong \in SUBSET Nat /\ \A k \in Wrong : k <= Len(source)
        OBVIOUS
    <2> HIDE DEF Wrong
    <2> QED BY <1>1, <1>2, <2>1, HighestOf
<1>4. j \in Lines /\ Ending(j) /\ ~Right(j) /\ Op(j) \in Program!Closing
    BY <1>3 DEF Ending
<1>5. PICK b \in Lines : Program!Ends(source, b, j) /\ ~Belongs(j, b)
    BY <1>4
<1>6. PICK a \in Lines : Belongs(j, a)
    BY <1>4 DEF Matched, Stray, Program!Closing
<1>7. a < b
    <2>1. a <= b
        BY <1>4, <1>5, <1>6, NotInside
    <2> QED BY <1>5, <1>6, <2>1
<1>8. PICK f : f = Family(Op(j))
    OBVIOUS
<1>9. /\ a \in Openers(f) /\ a < j /\ Num(a) = Num(j) /\ j \in Closers(f)
      /\ \A h \in Closers(f) : h < j => Num(h) # Num(j)
    BY <1>4, <1>6, <1>8 DEF Belongs, Closers
<1>10. Op(a) \in Program!Opening /\ Family(Op(a)) = f
    BY <1>9 DEF Openers
<1>11. PICK k \in Lines : /\ Program!Ends(source, a, k) /\ Op(k) \in Program!Closing
                          /\ Family(Op(k)) = f
    BY <1>10, EndIs
<1>12. Ending(k)
    BY <1>11 DEF Ending
<1>13. k # j
    <2>1. k = j => b = a
        BY <1>5, <1>11, OneEnd
    <2> QED BY <1>7, <2>1
<1>14. CASE k < j
    <2>1. PICK i \in Lines : Belongs(k, i)
        BY <1>11 DEF Matched, Stray, Program!Closing
    <2>2. i <= a
        BY <1>11, <1>12, <2>1, NotInside
    <2>3. \E h \in Closers(f) : h <= k /\ Num(h) = Num(a)
        BY <1>9, <1>11, <1>12, <2>1, <2>2, ClosedBefore
    <2>4. Closers(f) \subseteq Lines
        BY DEF Closers
    <2> QED BY <1>9, <1>14, <2>3, <2>4
<1>15. CASE j < k
    <2>1. Right(k)
        BY <1>3, <1>12, <1>15
    <2>2. Belongs(k, a)
        BY <1>11, <2>1
    <2>3. Num(j) # Num(k) /\ Num(a) = Num(k)
        BY <1>9, <1>11, <1>15, <2>2 DEF Belongs
    <2> QED BY <1>9, <2>3
<1> QED BY <1>4, <1>11, <1>13, <1>14, <1>15

\* A block of the source, and its begin in the tables.
Block(i, j) ==
    /\ i \in Lines /\ j \in Lines /\ i < j /\ Program!Ends(source, i, j)
    /\ Op(i) \in Program!Opening /\ Op(j) \in Program!Closing /\ Family(Op(j)) = Family(Op(i))
    /\ <<Op(i), Op(j)>> \in Program!Pairs
    /\ Program!End(source, i) = j /\ Belongs(j, i)
    /\ i \in Openers(Family(Op(i))) /\ j \in Closers(Family(Op(i))) /\ Num(j) = Num(i)

LEMMA BlockIs ==
    ASSUME IInv, BlockInv, phase = "run", NEW i \in Lines, Op(i) \in Program!Opening
    PROVE  \E j \in Lines : Block(i, j)
<1>1. /\ Len(source) \in Nat /\ Lines = 1 .. Len(source) /\ Program!Nested(source) /\ Matched
    BY RunLines DEF BlockInv
<1>2. PICK j \in 1 .. Len(source) :
               /\ Program!Ends(source, i, j) /\ i < j /\ Op(j) \in Program!Closing
               /\ <<Op(i), Op(j)>> \in Program!Pairs /\ Family(Op(j)) = Family(Op(i))
               /\ Program!End(source, i) = j
    BY <1>1, EndIs
<1>3. j \in Lines /\ Ending(j)
    BY <1>1, <1>2 DEF Ending
<1>4. Belongs(j, i)
    BY <1>1, <1>2, <1>3, EndBelongs
<1>5. i \in Openers(Family(Op(j))) /\ Num(i) = Num(j)
    BY <1>4 DEF Belongs
<1>6. j \in Closers(Family(Op(j)))
    BY <1>2, <1>3 DEF Closers
<1> QED BY <1>2, <1>3, <1>4, <1>5, <1>6 DEF Block

LEMMA BeginAt ==
    ASSUME IInv, BlockInv, phase = "run", NEW j \in Lines, Op(j) \in Program!Closing
    PROVE  \E i \in Lines : Block(i, j) /\ Program!Begin(source, j) = i
<1>1. Len(source) \in Nat /\ Lines = 1 .. Len(source) /\ Program!Nested(source)
    BY RunLines
<1>2. PICK i \in 1 .. Len(source) :
               /\ Program!Ends(source, i, j) /\ Op(i) \in Program!Opening
               /\ Program!Begin(source, j) = i
    BY <1>1, BeginIs
<1>3. PICK k \in Lines : Block(i, k)
    BY <1>1, <1>2, BlockIs
<1>4. k = j
    BY <1>1, <1>2, <1>3, OneEnd DEF Block
<1> QED BY <1>1, <1>2, <1>3, <1>4

\* A statement is part of one block.
LEMMA OnePart ==
    ASSUME NEW p, NEW i \in Int, NEW e \in Int, NEW h \in Int, NEW j \in Int,
           Program!Ends(p, i, e), i < h, h <= j, j < e, Program!Depth(p, h, j) > 0
    PROVE  Program!Depth(p, i, j) > 1
<1>1. Program!Depth(p, i, j) = Program!Depth(p, i, h - 1) + Program!Depth(p, h, j)
    BY DepthSum
<1>2. h - 1 \in i .. e - 1
    OBVIOUS
<1>3. Program!Depth(p, i, h - 1) > 0
    BY <1>2 DEF Program!Ends
<1>4. Program!Depth(p, i, h - 1) \in Int /\ Program!Depth(p, h, j) \in Int
    BY DepthIs
<1> QED BY <1>1, <1>3, <1>4

MiddleOf(i, j) ==
    /\ i \in Lines /\ i < j /\ Op(i) = (IF Op(j) = "else" THEN "if+" ELSE "for-loop")
    /\ j \in Program!Middle(source, i, Op(j))
    /\ \A k \in Program!Middle(source, i, Op(j)) : k = j
    /\ Program!Around(source, j) = i

\* An else or a for is the only one of its block.
LEMMA MiddleIn ==
    ASSUME IInv, BlockInv, phase = "run", NEW j \in Lines, Op(j) \in Inner,
           NEW i \in 1 .. j, Op(i) \in Program!Opening, j \in Program!Parts(source, i)
    PROVE  MiddleOf(i, j)
<1>1. /\ Len(source) \in Nat /\ Lines = 1 .. Len(source) /\ Program!Nested(source)
    BY RunLines
<1>2. Op(i) \in Program!Opening /\ j \in Program!Parts(source, i)
    OBVIOUS
<1>3. i \in Lines
    BY <1>1
<1>4. PICK e \in Lines : Block(i, e)
    BY <1>2, <1>3, BlockIs
<1>5. i < j /\ j < e /\ Program!Depth(source, i, j) = 1 /\ Program!Ends(source, i, e)
    BY <1>1, <1>2, <1>4 DEF Program!Parts, Block
<1>6. PICK M : M = Program!Middle(source, i, Op(j))
    OBVIOUS
<1>7. M \in SUBSET Lines /\ j \in M
    BY <1>1, <1>2, <1>4, <1>6 DEF Program!Middle, Program!Parts, Block, Op
<1>8. IsFiniteSet(M) /\ Cardinality(M) # 0
    <2>1. IsFiniteSet(Lines)
        BY <1>1, FS_Interval
    <2>2. IsFiniteSet(M)
        BY <1>7, <2>1, FS_Subset
    <2> QED BY <1>7, <2>2, FS_EmptySet
<1>9. Op(j) = "else" \/ Op(j) = "for"
    BY DEF Inner
<1>10. /\ Op(j) = "else" => Cardinality(M) = IF Op(i) = "if+" THEN 1 ELSE 0
       /\ Op(j) = "for" => Cardinality(M) = IF Op(i) = "for-loop" THEN 1 ELSE 0
    <2>1. /\ Program!Cardinality(Program!Middle(source, i, "else"))
                 = IF Op(i) = "if+" THEN 1 ELSE 0
          /\ Program!Cardinality(Program!Middle(source, i, "for"))
                 = IF Op(i) = "for-loop" THEN 1 ELSE 0
        BY <1>1, <1>2, <1>3, Zenon DEF Program!Nested, Op
    <2> QED BY <1>6, <2>1, CountIs
<1>11. Op(i) = IF Op(j) = "else" THEN "if+" ELSE "for-loop"
    BY <1>8, <1>9, <1>10
<1>12. Cardinality(M) = 1
    BY <1>9, <1>10, <1>11
<1>13. \A k \in M : k = j
    <2>1. \E x : M = {x}
        BY <1>8, <1>12, FS_Singleton
    <2> QED BY <1>7, <2>1
<1>14. Program!Around(source, j) = i
    <2>1. ASSUME NEW h \in 1 .. j, Op(h) \in Program!Opening, j \in Program!Parts(source, h)
          PROVE  h = i
        <3>1. PICK k \in Lines : Block(h, k)
            BY <1>1, <2>1, BlockIs
        <3>2. h < j /\ j < k /\ Program!Depth(source, h, j) = 1 /\ Program!Ends(source, h, k)
            BY <1>1, <2>1, <3>1 DEF Program!Parts, Block
        <3>3. ~ i < h
            BY <1>1, <1>3, <1>5, <3>2, OnePart
        <3>4. ~ h < i
            BY <1>1, <1>3, <1>5, <3>1, <3>2, OnePart
        <3> QED BY <1>1, <3>3, <3>4
    <2>2. i \in {h \in 1 .. j : source[h].op \in Program!Opening /\ j \in Program!Parts(source, h)}
        BY <1>2 DEF Op
    <2> QED BY <2>1, <2>2 DEF Program!Around, Op
<1> QED BY <1>3, <1>5, <1>6, <1>7, <1>11, <1>13, <1>14 DEF MiddleOf

LEMMA MiddleIs ==
    ASSUME IInv, BlockInv, phase = "run", NEW j \in Lines, Op(j) \in Inner
    PROVE  \E i \in Lines : MiddleOf(i, j)
<1>1. Lines = 1 .. Len(source) /\ Len(source) \in Nat /\ Program!Nested(source)
    BY RunLines
<1>2. PICK i \in 1 .. j : Op(i) \in Program!Opening /\ j \in Program!Parts(source, i)
    BY <1>1 DEF Program!Nested, Op, Inner
<1>3. MiddleOf(i, j)
    BY <1>2, MiddleIn
<1> QED BY <1>1, <1>3 DEF MiddleOf

\* A for is in a for-loop, which is still open there.
LEMMA NoStray ==
    ASSUME IInv, BlockInv, phase = "run", NEW j \in Lines
    PROVE  ~Stray(j)
<1> SUFFICES ASSUME Stray(j) PROVE FALSE
    OBVIOUS
<1>1. Len(source) \in Nat /\ Lines = 1 .. Len(source)
    BY RunLines
<1>2. Op(j) = "for"
    BY DEF Stray
<1>3. PICK i \in Lines : MiddleOf(i, j)
    BY <1>2, MiddleIs DEF Inner
<1>4. Op(i) = "for-loop" /\ i < j
    BY <1>2, <1>3 DEF MiddleOf
<1>5. PICK e \in Lines : Block(i, e)
    BY <1>4, BlockIs DEF Program!Opening
<1>6. Family(Op(i)) = "for"
    BY <1>4 DEF Family
<1>7. i \in Openers("for") /\ Belongs(e, i) /\ Num(e) = Num(i) /\ Family(Op(e)) = "for"
    BY <1>5, <1>6 DEF Block
<1>8. j < e
    BY <1>1, <1>3, <1>5 DEF MiddleOf, Program!Middle, Program!Parts, Block
<1>9. PICK k \in Closers("for") : k < j /\ Num(k) = Num(i)
    BY <1>4, <1>7 DEF BlockInv, Astray
<1>10. k \in Lines
    BY DEF Closers
<1>11. k < e
    BY <1>1, <1>8, <1>9, <1>10
<1> QED BY <1>7, <1>9, <1>11 DEF Belongs

\* An else or a for belongs to the block that it is a part of.
LEMMA InnerBelongs ==
    ASSUME IInv, BlockInv, phase = "run", NEW j \in Lines, Op(j) \in Inner,
           NEW i \in Lines, MiddleOf(i, j)
    PROVE  Belongs(j, i)
<1>1. Len(source) \in Nat /\ Lines = 1 .. Len(source) /\ Matched
    BY RunLines DEF BlockInv
<1>2. PICK a \in Lines : Belongs(j, a)
    BY <1>1, NoStray DEF Matched
<1>3. /\ Op(i) = IF Op(j) = "else" THEN "if+" ELSE "for-loop"
      /\ Op(i) \in Program!Opening /\ Family(Op(i)) = Family(Op(j))
      /\ Op(j) = "else" \/ Op(j) = "for"
    BY DEF MiddleOf, Program!Opening, Family, Inner
<1>4. PICK e \in Lines : Block(i, e)
    BY <1>3, BlockIs
<1>5. PICK f : f = Family(Op(j))
    OBVIOUS
<1>6. /\ a \in Openers(f) /\ a < j /\ Num(a) = Num(j)
      /\ \A k \in Closers(f) : k < j => Num(k) # Num(j)
      /\ \A h \in Openers(f) : a < h /\ h < j /\ Suits(Op(j), h) =>
             \E k \in Closers(f) : k < j /\ Num(k) = Num(h)
    BY <1>2, <1>5 DEF Belongs
<1>7. Op(a) \in Program!Opening /\ Family(Op(a)) = f
    BY <1>6 DEF Openers
<1>8. PICK b \in Lines : Block(a, b)
    BY <1>7, BlockIs
<1>9. i < j /\ j < e /\ Program!Depth(source, i, j) = 1 /\ Program!Ends(source, i, e)
    BY <1>1, <1>4 DEF MiddleOf, Program!Middle, Program!Parts, Block
<1>10. Closers(f) \subseteq Lines
    BY DEF Closers
<1>11. ~ a < i
    <2> SUFFICES ASSUME a < i PROVE FALSE
        OBVIOUS
    <2>1. i \in Openers(f) /\ Suits(Op(j), i)
        BY <1>3, <1>4, <1>5 DEF Block, Suits
    <2>2. PICK k \in Closers(f) : k < j /\ Num(k) = Num(i)
        BY <1>6, <1>9, <2>1
    <2>3. \A h \in Closers(f) : h < e => Num(h) # Num(e)
        BY <1>3, <1>4, <1>5 DEF Block, Belongs
    <2>4. Num(e) = Num(i)
        BY <1>4 DEF Block
    <2> QED BY <1>1, <1>9, <1>10, <2>2, <2>3, <2>4
<1>12. ~ i < a
    <2> SUFFICES ASSUME i < a PROVE FALSE
        OBVIOUS
    <2>1. b \in Closers(f) /\ Num(b) = Num(a) /\ Op(b) \in Program!Closing
          /\ Program!Ends(source, a, b)
        BY <1>7, <1>8 DEF Block
    <2>2. ~ b < j
        BY <1>6, <2>1
    <2>3. b # j
        BY <1>3, <2>1 DEF Program!Closing
    <2>4. j \in a .. b - 1
        BY <1>1, <1>6, <2>2, <2>3
    <2>5. Program!Depth(source, a, j) > 0
        BY <2>1, <2>4 DEF Program!Ends
    <2>6. Program!Depth(source, i, j) > 1
        BY <1>1, <1>6, <1>9, <2>5, OnePart
    <2> QED BY <1>9, <2>6
<1>13. a = i
    BY <1>1, <1>11, <1>12
<1> QED BY <1>2, <1>13

\* Which statements place a label.
Placing(tag) ==
    CASE tag = "if" -> {"if", "if+", "?"}
      [] tag = "else" -> {"else"}
      [] tag = "endif" -> {"endif", "break"}
      [] tag = "while" -> {"do"}
      [] tag = "for" -> {"for-loop"}
      [] tag = "for2" -> {"for"}
      [] tag = "forend" -> {"next"}
      [] OTHER -> {}

LEMMA PlacedBy ==
    ASSUME Shapes, NEW j \in Lines, NEW tag, NEW n, <<tag, n>> \in code[j].place
    PROVE  Op(j) \in Placing(tag) /\ Num(j) = n /\ n # 0
<1>1. Shape(code[j], Op(j)) /\ code[j].place # {}
    BY DEF Shapes
<1>2. Num(j) \in Nat \ {0} /\ <<tag, n>> \in PlaceOf(Op(j), Num(j))
    BY <1>1 DEF Shape, Plain, Num
<1>3. ASSUME NEW m, NEW op, <<tag, n>> \in PlaceOf(op, m)
      PROVE  op \in Placing(tag) /\ n = m
    <2>1. CASE op \in {"if", "if+", "?"}
        <3>1. tag = "if" /\ n = m
            BY <1>3, <2>1 DEF PlaceOf
        <3> QED BY <2>1, <3>1 DEF Placing
    <2>2. CASE op = "else"
        <3>1. tag = "else" /\ n = m
            BY <1>3, <2>2 DEF PlaceOf
        <3> QED BY <2>2, <3>1 DEF Placing
    <2>3. CASE op \in {"endif", "break"}
        <3>1. tag = "endif" /\ n = m
            BY <1>3, <2>3 DEF PlaceOf
        <3> QED BY <2>3, <3>1 DEF Placing
    <2>4. CASE op = "do"
        <3>1. tag = "while" /\ n = m
            BY <1>3, <2>4 DEF PlaceOf
        <3> QED BY <2>4, <3>1 DEF Placing
    <2>5. CASE op = "for-loop"
        <3>1. tag = "for" /\ n = m
            BY <1>3, <2>5 DEF PlaceOf
        <3> QED BY <2>5, <3>1 DEF Placing
    <2>6. CASE op = "for"
        <3>1. tag = "for2" /\ n = m
            BY <1>3, <2>6 DEF PlaceOf
        <3> QED BY <2>6, <3>1 DEF Placing
    <2>7. CASE op = "next"
        <3>1. tag = "forend" /\ n = m
            BY <1>3, <2>7 DEF PlaceOf
        <3> QED BY <2>7, <3>1 DEF Placing
    <2>8. CASE op \notin {"if", "if+", "?", "else", "endif", "break", "do", "for-loop", "for", "next"}
        BY <1>3, <2>8 DEF PlaceOf
    <2> QED BY <2>1, <2>2, <2>3, <2>4, <2>5, <2>6, <2>7, <2>8
<1> QED BY <1>2, <1>3

\* A label is placed once.
LEMMA PlacedOnce ==
    ASSUME IInv, BlockInv, phase = "run", NEW j \in Lines, NEW tag, NEW n,
           <<tag, n>> \in code[j].place
    PROVE  Behind(<<tag, n>>) = j + 1
<1>1. /\ Len(source) \in Nat /\ Lines = 1 .. Len(source) /\ Len(code) = Len(source) + 1
      /\ Shapes /\ Ordered
    BY RunLines DEF BlockInv
<1>2. Op(j) \in Placing(tag) /\ Num(j) = n /\ n # 0
    BY <1>1, PlacedBy
<1>3. ASSUME NEW k \in Lines, <<tag, n>> \in code[k].place
      PROVE  k = j
    <2>1. Op(k) \in Placing(tag) /\ Num(k) = n
        BY <1>1, <1>3, PlacedBy
    <2>2. PICK f : f = Family(Op(j))
        OBVIOUS
    <2>3. Family(Op(k)) = f /\ f \in Families
        BY <1>2, <2>1, <2>2 DEF Placing, Family, Families
    <2>4. CASE Op(j) \in Program!Opening
        <3>1. Op(k) \in Program!Opening
            BY <1>2, <2>1, <2>4 DEF Placing, Program!Opening
        <3>2. j \in Openers(f) /\ k \in Openers(f)
            BY <1>2, <2>1, <2>2, <2>3, <2>4, <3>1 DEF Openers
        <3>3. /\ j < k => Num(j) < Num(k)
              /\ k < j => Num(k) < Num(j)
            BY <1>1, <2>3, <3>2 DEF Ordered
        <3>4. n \in Nat
            BY <1>1, <1>2, <2>4 DEF Shapes, Shape, Plain, Num, PlaceOf
        <3> QED BY <1>1, <1>2, <2>1, <3>3, <3>4
    <2>5. CASE Op(j) \in Program!Closing
        <3>1. Op(k) \in Program!Closing
            BY <1>2, <2>1, <2>5 DEF Placing, Program!Closing
        <3>2. j \in Closers(f) /\ k \in Closers(f)
            BY <2>2, <2>3, <2>5, <3>1 DEF Closers
        <3>3. PICK a \in Lines : Belongs(j, a)
            BY <2>5 DEF BlockInv, Matched, Stray, Program!Closing
        <3>4. PICK b \in Lines : Belongs(k, b)
            BY <3>1 DEF BlockInv, Matched, Stray, Program!Closing
        <3>5. ~ k < j
            BY <1>2, <2>1, <2>2, <3>2, <3>3 DEF Belongs
        <3>6. ~ j < k
            BY <1>2, <2>1, <2>3, <3>2, <3>4 DEF Belongs
        <3> QED BY <1>1, <3>5, <3>6
    <2>6. CASE Op(j) \in Inner
        <3>1. Op(k) = Op(j)
            BY <1>2, <2>1, <2>6 DEF Placing, Inner
        <3>2. PICK a \in Lines : MiddleOf(a, j)
            BY <2>6, MiddleIs
        <3>3. PICK b \in Lines : MiddleOf(b, k)
            BY <2>6, <3>1, MiddleIs
        <3>4. Belongs(j, a) /\ Belongs(k, b)
            BY <2>6, <3>1, <3>2, <3>3, InnerBelongs
        <3>5. a \in Openers(f) /\ b \in Openers(f) /\ Num(a) = n /\ Num(b) = n
            BY <1>2, <2>1, <2>2, <2>3, <3>4 DEF Belongs
        <3>6. /\ a < b => Num(a) < Num(b)
              /\ b < a => Num(b) < Num(a)
            BY <1>1, <2>3, <3>5 DEF Ordered
        <3>7. Num(a) \in Nat
            BY <2>3, <3>5 DEF BlockInv, Linked
        <3>8. a = b
            BY <1>1, <3>5, <3>6, <3>7
        <3> QED BY <3>1, <3>2, <3>3, <3>8 DEF MiddleOf
    <2>7. Op(j) \in Program!Opening \cup Program!Closing \cup Inner
        BY <1>2 DEF Placing, Program!Opening, Program!Closing, Inner
    <2> QED BY <2>4, <2>5, <2>6, <2>7
<1>4. PICK J : J = {k \in 1 .. Len(code) : <<tag, n>> \in code[k].place}
    OBVIOUS
<1>5. J = {j}
    <2>1. ASSUME NEW k \in J PROVE k = j
        <3>1. k \in 1 .. Len(code) /\ <<tag, n>> \in code[k].place
            BY <1>4
        <3>2. k > Len(source) => code[k].place = {}
            BY <3>1 DEF IInv, CodeInv
        <3>3. k \in Lines
            BY <1>1, <3>1, <3>2
        <3> QED BY <1>3, <3>1, <3>3
    <2>2. j \in J
        BY <1>1, <1>4
    <2> QED BY <2>1, <2>2
<1>6. Highest({j}) = j
    <2>1. {j} \in SUBSET Nat /\ {j} # {} /\ j \in Nat /\ \A k \in {j} : k <= j
        BY <1>1
    <2>2. Highest({j}) \in {j}
        BY <2>1, HighestOf
    <2> QED BY <2>2
<1> QED BY <1>4, <1>5, <1>6 DEF Behind

LEMMA LabelsAt ==
    ASSUME IInv, BlockInv, phase = "run", NEW j \in Lines,
           Num(j) # 0 \/ Op(j) \in Inner \cup Program!Closing
    PROVE  /\ code[j].place = PlaceOf(Op(j), Num(j))
           /\ code[j].jumps = JumpsOf(Op(j), code[j].regs, Num(j))
<1>1. Shape(code[j], Op(j))
    BY DEF BlockInv, Shapes
<1>2. ~(Plain(code[j]) /\ Op(j) \notin {"else"} \cup Program!Closing)
    BY PlainIs, NoStray DEF Num, Inner, Stray
<1> QED BY <1>1, <1>2 DEF Shape, Num

\* Where a statement goes, behind which the registers are r.
Taken(r) == IF Leads(r) = {} THEN pc + 1 ELSE Behind(C.jumps[Least(Leads(r))].to)

LEMMA LeastNumbers == Least({1}) = 1 /\ Least({2}) = 2 /\ Least({1, 2}) = 1
<1>1. \A N \in SUBSET Nat : N # {} => Least(N) \in N /\ \A s \in N : Least(N) <= s
    BY LeastOf
<1>2. {1} \in SUBSET Nat /\ {2} \in SUBSET Nat /\ {1, 2} \in SUBSET Nat
    OBVIOUS
<1>3. Least({1}) \in {1} /\ Least({2}) \in {2}
    BY <1>1, <1>2
<1>4. Least({1, 2}) \in {1, 2} /\ Least({1, 2}) <= 1
    BY <1>1, <1>2
<1> QED BY <1>3, <1>4

LEMMA TakenNone == ASSUME NEW r, C.jumps = <<>> PROVE Taken(r) = pc + 1
<1>1. Leads(r) = {}
    BY DEF Leads
<1> QED BY <1>1 DEF Taken

LEMMA TakenAlways ==
    ASSUME NEW r, NEW m, C.jumps = <<[reg |-> None, to |-> m]>>
    PROVE  Taken(r) = Behind(m)
<1>1. Leads(r) = {1}
    BY DEF Leads
<1> QED BY <1>1, LeastNumbers DEF Taken

LEMMA TakenTest ==
    ASSUME NEW r, NEW q, NEW l, q # None, C.jumps = <<[reg |-> q, to |-> l]>>
    PROVE  Taken(r) = IF r[q] # 0 THEN Behind(l) ELSE pc + 1
<1>1. Leads(r) = IF r[q] # 0 THEN {1} ELSE {}
    BY DEF Leads
<1> QED BY <1>1, LeastNumbers DEF Taken

LEMMA TakenEither ==
    ASSUME NEW r, NEW q, NEW l, NEW m, q # None,
           C.jumps = <<[reg |-> q, to |-> l], [reg |-> None, to |-> m]>>
    PROVE  Taken(r) = IF r[q] # 0 THEN Behind(l) ELSE Behind(m)
<1>1. Leads(r) = IF r[q] # 0 THEN {1, 2} ELSE {2}
    BY DEF Leads
<1>2. C.jumps[1].to = l /\ C.jumps[2].to = m
    OBVIOUS
<1> QED BY <1>1, <1>2, LeastNumbers DEF Taken

\* A jump behind the statement h.
LEMMA GoesTo ==
    ASSUME IInv, BlockInv, phase = "run", UNCHANGED <<phase, Compiled>>, pc <= Len(source),
           source[pc].op # "pop", mem' = mem, "nested" \in Rules,
           NEW h \in Lines, Op(h) \notin {"call", "pop"}, pc' = h + 1
    PROVE  BlockInv' /\ Program!Goto(h + 1)
<1>1. Len(source) \in Nat /\ Lines = 1 .. Len(source)
    BY RunLines
<1>2. source' = source /\ phase' = "run" /\ pc' - 1 = h /\ pc' \in Nat /\ pc' > 1
    BY <1>1 DEF Compiled
<1>3. Passed' = <<>> /\ Returned' /\ Counter' = pc'
    BY <1>2, NothingPassed DEF Op
<1>4. Passed = <<>>
    BY PassedIs
<1>5. BlockInv'
    BY <1>3, RunBlock DEF BlockInv
<1>6. Program!Goto(h + 1)
    BY <1>2, <1>3, <1>4 DEF Program!Goto
<1> QED BY <1>5, <1>6

Testing(ops) ==
    /\ IInv /\ BlockInv /\ RunTest /\ UNCHANGED <<phase, Compiled>>
    /\ source[pc].op \in ops /\ "nested" \in Rules

LEMMA TestAt ==
    ASSUME NEW ops, Testing(ops), ops \cap {"call", "pop"} = {}
    PROVE  /\ IInv /\ BlockInv /\ phase = "run" /\ UNCHANGED <<phase, Compiled>>
           /\ pc \in 1 .. Len(source) /\ pc \in Lines /\ Op(pc) \in ops
           /\ C = code[pc] /\ C \in Item
           /\ mem' = mem /\ pc' = Taken(regs')
           /\ \A h \in Lines : pc' = h + 1 /\ Op(h) \notin {"call", "pop"} => BlockInv' /\ Program!Goto(h + 1)
           /\ Counter = pc
<1>1. /\ IInv /\ BlockInv /\ phase = "run" /\ UNCHANGED <<phase, Compiled>>
      /\ pc <= Len(source) /\ source[pc].op \in ops /\ mem' = mem
      /\ pc' = Taken(regs')
    BY DEF Testing, RunTest, Running, Taken
<1>2. pc \in 1 .. Len(source) /\ pc \in Lines /\ C \in Item
    BY <1>1, RunAt, RunLines
<1>3. \A h \in Lines : pc' = h + 1 /\ Op(h) \notin {"call", "pop"} => BlockInv' /\ Program!Goto(h + 1)
    BY <1>1, GoesTo DEF Testing
<1>4. Counter = pc
    BY <1>1 DEF Counter
<1> QED BY <1>1, <1>2, <1>3, <1>4 DEF Op, C

LEMMA NumbersOf ==
    ASSUME IInv, BlockInv, phase = "run", NEW i \in Lines, NEW e \in Lines, Block(i, e)
    PROVE  /\ Num(i) # 0 /\ code[i].place = PlaceOf(Op(i), Num(i))
           /\ code[i].jumps = JumpsOf(Op(i), code[i].regs, Num(i))
           /\ code[e].place = PlaceOf(Op(e), Num(i))
<1>1. Num(i) # 0
    BY DEF Block, Openers
<1> QED BY <1>1, LabelsAt DEF Block

\* A statement without a jump.
LEMMA PassRuns ==
    ASSUME Testing({"endif", "break", "do", "for-loop", "switch", "switchend"})
    PROVE  BlockInv' /\ Program!PassBy
<1> DEFINE ops == {"endif", "break", "do", "for-loop", "switch", "switchend"}
<1>1. ops \cap {"call", "pop"} = {}
    OBVIOUS
<1>2. /\ IInv /\ BlockInv /\ phase = "run" /\ pc \in 1 .. Len(source) /\ pc \in Lines /\ Op(pc) \in ops
      /\ C = code[pc] /\ pc' = Taken(regs')
      /\ \A h \in Lines : pc' = h + 1 /\ Op(h) \notin {"call", "pop"} => BlockInv' /\ Program!Goto(h + 1)
      /\ Counter = pc
    BY <1>1, TestAt
<1>3. C.jumps = <<>>
    <2>1. Shape(C, Op(pc))
        BY <1>2 DEF BlockInv, Shapes
    <2>2. \A R, n : JumpsOf(Op(pc), R, n) = <<>>
        BY <1>2 DEF JumpsOf
    <2> QED BY <2>1, <2>2 DEF Shape, Plain
<1>4. pc' = pc + 1
    BY <1>2, <1>3, TakenNone
<1>5. BlockInv' /\ Program!Goto(pc + 1)
    BY <1>2, <1>4
<1>6. Program!At(ops)
    BY <1>2 DEF Program!At, Program!S, Op
<1> QED BY <1>2, <1>5, <1>6 DEF Program!PassBy

LEMMA ElseRuns == ASSUME Testing({"else"}) PROVE BlockInv' /\ Program!SkipElse
<1>1. {"else"} \cap {"call", "pop"} = {}
    OBVIOUS
<1>2. /\ IInv /\ BlockInv /\ phase = "run" /\ pc \in 1 .. Len(source) /\ pc \in Lines /\ Op(pc) = "else"
      /\ C = code[pc] /\ pc' = Taken(regs')
      /\ \A h \in Lines : pc' = h + 1 /\ Op(h) \notin {"call", "pop"} => BlockInv' /\ Program!Goto(h + 1)
      /\ Counter = pc
    BY <1>1, TestAt
<1>3. PICK i \in Lines : MiddleOf(i, pc)
    BY <1>2, MiddleIs DEF Inner
<1>4. Belongs(pc, i) /\ Op(i) = "if+" /\ Program!Around(source, pc) = i
    BY <1>2, <1>3, InnerBelongs DEF MiddleOf, Inner
<1>5. PICK e \in Lines : Block(i, e)
    BY <1>2, <1>4, BlockIs DEF Program!Opening
<1>6. Num(pc) = Num(i) /\ Op(e) = "endif" /\ Program!End(source, i) = e
    BY <1>4, <1>5 DEF Belongs, Block, Program!Pairs
<1>7. code[e].place = {<<"endif", Num(i)>>}
    BY <1>2, <1>5, <1>6, NumbersOf DEF PlaceOf
<1>8. C.jumps = <<[reg |-> None, to |-> <<"endif", Num(i)>>]>>
    BY <1>2, <1>6, LabelsAt DEF JumpsOf, Always, Inner
<1>9. pc' = e + 1
    <2>1. PICK m : m = <<"endif", Num(i)>>
        OBVIOUS
    <2>2. Taken(regs') = Behind(m)
        BY <1>8, <2>1, TakenAlways
    <2>3. Behind(<<"endif", Num(i)>>) = e + 1
        BY <1>2, <1>7, PlacedOnce
    <2> QED BY <1>2, <2>1, <2>2, <2>3
<1>10. BlockInv' /\ Program!Goto(e + 1)
    BY <1>2, <1>6, <1>9
<1>11. Program!At({"else"})
    BY <1>2 DEF Program!At, Program!S, Op
<1> QED BY <1>2, <1>4, <1>6, <1>10, <1>11 DEF Program!SkipElse

LEMMA NextRuns == ASSUME Testing({"next"}) PROVE BlockInv' /\ Program!Repeat
<1>1. {"next"} \cap {"call", "pop"} = {}
    OBVIOUS
<1>2. /\ IInv /\ BlockInv /\ phase = "run" /\ pc \in 1 .. Len(source) /\ pc \in Lines /\ Op(pc) = "next"
      /\ C = code[pc] /\ pc' = Taken(regs')
      /\ \A h \in Lines : pc' = h + 1 /\ Op(h) \notin {"call", "pop"} => BlockInv' /\ Program!Goto(h + 1)
      /\ Counter = pc
    BY <1>1, TestAt
<1>3. PICK i \in Lines : Block(i, pc) /\ Program!Begin(source, pc) = i
    BY <1>2, BeginAt DEF Program!Closing
<1>4. Num(pc) = Num(i) /\ Op(i) = "for-loop"
    BY <1>2, <1>3 DEF Block, Program!Pairs
<1>5. code[i].place = {<<"for", Num(i)>>}
    BY <1>2, <1>3, <1>4, NumbersOf DEF PlaceOf
<1>6. C.jumps = <<[reg |-> None, to |-> <<"for", Num(i)>>]>>
    BY <1>2, <1>4, LabelsAt DEF JumpsOf, Always, Program!Closing
<1>7. pc' = i + 1
    <2>1. PICK m : m = <<"for", Num(i)>>
        OBVIOUS
    <2>2. Taken(regs') = Behind(m)
        BY <1>6, <2>1, TakenAlways
    <2>3. Behind(<<"for", Num(i)>>) = i + 1
        BY <1>2, <1>5, PlacedOnce
    <2> QED BY <1>2, <2>1, <2>2, <2>3
<1>8. BlockInv' /\ Program!Goto(i + 1)
    BY <1>2, <1>4, <1>7
<1>9. Program!At({"next"})
    BY <1>2 DEF Program!At, Program!S, Op
<1> QED BY <1>2, <1>3, <1>8, <1>9 DEF Program!Repeat

\* What a jump depends on is the condition of the source.
Decides(q) == q \in Regs /\ q # None /\ (regs'[q] # 0 <=> Program!Condition)

LEMMA RegIsNone == ASSUME NEW q \in Regs PROVE q # None
<1>1. MaxReg \in Nat \ {0} /\ None \notin -1 .. MaxReg
    BY CompilerAssumption, Zenon
<1> QED BY <1>1 DEF Regs

LEMMA ConditionIs ==
    ASSUME NEW op, op \in {"if", "if+", "while", "for"}, Testing({op})
    PROVE  Decides(C.regs[1])
<1>1. {op} \cap {"call", "pop"} = {}
    OBVIOUS
<1>2. /\ IInv /\ BlockInv /\ phase = "run" /\ pc \in 1 .. Len(source) /\ Op(pc) = op /\ Counter = pc
    BY <1>1, TestAt
<1>3. pc <= Len(source) /\ Op(pc) # "?" /\ Op(pc) = source[pc].op
    BY <1>2 DEF Op
<1>4. regs' = Loaded
    BY <1>3 DEF Testing, RunTest
<1>5. C.regs[1] \in Regs /\ Loaded[C.regs[1]] = mem[source[pc].args[1]]
    BY <1>2, <1>3, ArgsLoaded
<1>6. Program!Condition <=> mem[source[pc].args[1]] # 0
    BY <1>2, <1>3 DEF Program!Condition, Program!S
<1> QED BY <1>4, <1>5, <1>6, RegIsNone DEF Decides

LEMMA CaseIs ==
    ASSUME Testing({"?"})
    PROVE  Decides(C.regs[3])
<1>1. {"?"} \cap {"call", "pop"} = {}
    OBVIOUS
<1>2. /\ IInv /\ BlockInv /\ phase = "run" /\ pc \in 1 .. Len(source) /\ Op(pc) = "?" /\ Counter = pc
      /\ C = code[pc] /\ C \in Item /\ pc \in Lines
    BY <1>1, TestAt
<1>3. pc <= Len(source) /\ Op(pc) = source[pc].op
    BY <1>2 DEF Op
<1>4. regs' = [Loaded EXCEPT ![C.regs[3]] = IF Loaded[C.regs[1]] = Loaded[C.regs[2]] THEN 1 ELSE 0]
    BY <1>2, <1>3 DEF Testing, RunTest
<1>5. /\ Loaded[C.regs[1]] = mem[source[pc].args[1]]
      /\ Loaded[C.regs[2]] = mem[source[pc].args[2]]
    BY <1>2, <1>3, ArgsLoaded
<1>6. C.regs[3] \in Regs
    <2>1. Len(C.regs) = 3
        BY <1>2, <1>3 DEF BlockInv, Operands, Reads
    <2>2. C.regs \in Seq(RegNum)
        BY <1>2 DEF Item
    <2>3. C.regs[3] \in RegNum
        BY <2>1, <2>2
    <2>4. -1 \notin Used(C)
        BY <1>2, <1>3, RunAt
    <2>5. C.regs[3] \in Used(C)
        BY <2>1 DEF Used
    <2> QED BY <2>3, <2>4, <2>5 DEF RegNum
<1>7. Loaded \in [Regs -> Values \cup {None}]
    BY <1>2, <1>3, LoadedIs
<1>8. regs'[C.regs[3]] = IF Loaded[C.regs[1]] = Loaded[C.regs[2]] THEN 1 ELSE 0
    BY <1>4, <1>6, <1>7
<1>9. Program!Condition <=> mem[source[pc].args[1]] = mem[source[pc].args[2]]
    BY <1>2, <1>3 DEF Program!Condition, Program!S
<1> QED BY <1>5, <1>6, <1>8, <1>9, RegIsNone DEF Decides

LEMMA WhileRuns == ASSUME Testing({"while"}) PROVE BlockInv' /\ Program!Again
<1>1. {"while"} \cap {"call", "pop"} = {}
    OBVIOUS
<1>2. /\ IInv /\ BlockInv /\ phase = "run" /\ pc \in 1 .. Len(source) /\ pc \in Lines /\ Op(pc) = "while"
      /\ C = code[pc] /\ pc' = Taken(regs')
      /\ \A h \in Lines : pc' = h + 1 /\ Op(h) \notin {"call", "pop"} => BlockInv' /\ Program!Goto(h + 1)
      /\ Counter = pc
    BY <1>1, TestAt
<1>3. PICK i \in Lines : Block(i, pc) /\ Program!Begin(source, pc) = i
    BY <1>2, BeginAt DEF Program!Closing
<1>4. Num(pc) = Num(i) /\ Op(i) = "do"
    BY <1>2, <1>3 DEF Block, Program!Pairs
<1>5. code[i].place = {<<"while", Num(i)>>}
    BY <1>2, <1>3, <1>4, NumbersOf DEF PlaceOf
<1>6. PICK l : l = <<"while", Num(i)>>
    OBVIOUS
<1>7. C.jumps = <<[reg |-> C.regs[1], to |-> l]>>
    BY <1>2, <1>4, <1>6, LabelsAt DEF JumpsOf, Program!Closing
<1>8. Behind(l) = i + 1
    BY <1>2, <1>5, <1>6, PlacedOnce
<1>9. Decides(C.regs[1])
    BY ConditionIs
<1>10. pc' = IF Program!Condition THEN i + 1 ELSE pc + 1
    BY <1>2, <1>7, <1>8, <1>9, TakenTest DEF Decides
<1>11. BlockInv' /\ Program!Goto(IF Program!Condition THEN i + 1 ELSE pc + 1)
    <2>1. CASE Program!Condition
        BY <1>2, <1>4, <1>10, <2>1
    <2>2. CASE ~Program!Condition
        BY <1>2, <1>10, <2>2
    <2> QED BY <2>1, <2>2
<1>12. Program!At({"while"})
    BY <1>2 DEF Program!At, Program!S, Op
<1> QED BY <1>2, <1>3, <1>11, <1>12 DEF Program!Again

LEMMA ForRuns == ASSUME Testing({"for"}) PROVE BlockInv' /\ Program!For
<1>1. {"for"} \cap {"call", "pop"} = {}
    OBVIOUS
<1>2. /\ IInv /\ BlockInv /\ phase = "run" /\ pc \in 1 .. Len(source) /\ pc \in Lines /\ Op(pc) = "for"
      /\ C = code[pc] /\ pc' = Taken(regs')
      /\ \A h \in Lines : pc' = h + 1 /\ Op(h) \notin {"call", "pop"} => BlockInv' /\ Program!Goto(h + 1)
      /\ Counter = pc
    BY <1>1, TestAt
<1>3. PICK i \in Lines : MiddleOf(i, pc)
    BY <1>2, MiddleIs DEF Inner
<1>4. Belongs(pc, i) /\ Op(i) = "for-loop" /\ Program!Around(source, pc) = i
    BY <1>2, <1>3, InnerBelongs DEF MiddleOf, Inner
<1>5. PICK e \in Lines : Block(i, e)
    BY <1>2, <1>4, BlockIs DEF Program!Opening
<1>6. Num(pc) = Num(i) /\ Op(e) = "next" /\ Program!End(source, i) = e
    BY <1>4, <1>5 DEF Belongs, Block, Program!Pairs
<1>7. code[e].place = {<<"forend", Num(i)>>} /\ C.place = {<<"for2", Num(i)>>}
    BY <1>2, <1>5, <1>6, NumbersOf, LabelsAt DEF PlaceOf, Inner
<1>8. PICK l : l = <<"for2", Num(i)>>
    OBVIOUS
<1>9. PICK m : m = <<"forend", Num(i)>>
    OBVIOUS
<1>10. C.jumps = <<[reg |-> C.regs[1], to |-> l], [reg |-> None, to |-> m]>>
    BY <1>2, <1>6, <1>8, <1>9, LabelsAt DEF JumpsOf, Always, Inner
<1>11. Behind(l) = pc + 1 /\ Behind(m) = e + 1
    BY <1>2, <1>7, <1>8, <1>9, PlacedOnce
<1>12. Decides(C.regs[1])
    BY ConditionIs
<1>13. pc' = IF Program!Condition THEN pc + 1 ELSE e + 1
    BY <1>2, <1>10, <1>11, <1>12, TakenEither DEF Decides
<1>14. BlockInv' /\ Program!Goto(IF Program!Condition THEN pc + 1 ELSE e + 1)
    <2>1. CASE Program!Condition
        BY <1>2, <1>13, <2>1
    <2>2. CASE ~Program!Condition
        BY <1>2, <1>6, <1>13, <2>2
    <2> QED BY <2>1, <2>2
<1>15. Program!At({"for"})
    BY <1>2 DEF Program!At, Program!S, Op
<1> QED BY <1>2, <1>4, <1>6, <1>14, <1>15 DEF Program!For

\* The else of an if+.
LEMMA ElseIs ==
    ASSUME IInv, BlockInv, phase = "run", NEW i \in Lines, Op(i) = "if+"
    PROVE  \E h \in Lines :
               /\ Op(h) = "else" /\ (CHOOSE j \in Program!Middle(source, i, "else") : TRUE) = h
               /\ code[h].place = {<<"else", Num(i)>>}
<1>1. /\ Len(source) \in Nat /\ Lines = 1 .. Len(source) /\ Program!Nested(source)
    BY RunLines
<1>2. Op(i) \in Program!Opening
    BY DEF Program!Opening
<1>3. PICK e \in Lines : Block(i, e)
    BY <1>2, BlockIs
<1>4. PICK M : M = Program!Middle(source, i, "else")
    OBVIOUS
<1>5. Cardinality(M) = 1
    <2>1. Program!Cardinality(Program!Middle(source, i, "else")) = IF Op(i) = "if+" THEN 1 ELSE 0
        BY <1>1, <1>2, Zenon DEF Program!Nested, Op
    <2> QED BY <1>4, <2>1, CountIs
<1>6. M # {}
    BY <1>5, FS_EmptySet
<1>7. PICK q : q = CHOOSE j \in M : TRUE
    OBVIOUS
<1>8. q \in M
    BY <1>6, <1>7
<1>9. /\ q \in Program!Parts(source, i) /\ Op(q) = "else"
    BY <1>4, <1>8 DEF Program!Middle, Op
<1>10. q \in Lines /\ i \in 1 .. q
    BY <1>1, <1>3, <1>9 DEF Program!Parts, Block
<1>11. MiddleOf(i, q)
    BY <1>2, <1>9, <1>10, MiddleIn DEF Inner
<1>12. Belongs(q, i)
    BY <1>9, <1>10, <1>11, InnerBelongs DEF Inner
<1>13. Num(i) = Num(q)
    BY <1>12 DEF Belongs
<1>14. code[q].place = {<<"else", Num(i)>>}
    BY <1>9, <1>10, <1>13, LabelsAt DEF PlaceOf, Inner
<1> QED BY <1>4, <1>7, <1>9, <1>10, <1>14

LEMMA BranchRuns ==
    ASSUME NEW op, op \in {"if", "if+", "?"}, Testing({op})
    PROVE  BlockInv' /\ Program!Branch
<1>1. {op} \cap {"call", "pop"} = {}
    OBVIOUS
<1>2. /\ IInv /\ BlockInv /\ phase = "run" /\ pc \in 1 .. Len(source) /\ pc \in Lines /\ Op(pc) = op
      /\ C = code[pc] /\ pc' = Taken(regs')
      /\ \A h \in Lines : pc' = h + 1 /\ Op(h) \notin {"call", "pop"} => BlockInv' /\ Program!Goto(h + 1)
      /\ Counter = pc
    BY <1>1, TestAt
<1>3. PICK e \in Lines : Block(pc, e)
    BY <1>2, BlockIs DEF Program!Opening
<1>4. PICK q : q = IF op = "?" THEN C.regs[3] ELSE C.regs[1]
    OBVIOUS
<1>5. Decides(q)
    <2>1. CASE op = "?"
        BY <1>4, <2>1, CaseIs
    <2>2. CASE op # "?"
        BY <1>4, <2>2, ConditionIs
    <2> QED BY <2>1, <2>2
<1>6. PICK l : l = <<"if", Num(pc)>>
    OBVIOUS
<1>7. PICK m : m = <<IF op = "if+" THEN "else" ELSE "endif", Num(pc)>>
    OBVIOUS
<1>8. C.place = {l} /\ C.jumps = <<[reg |-> q, to |-> l], [reg |-> None, to |-> m]>>
    <2>1. C.place = PlaceOf(op, Num(pc)) /\ C.jumps = JumpsOf(op, C.regs, Num(pc))
        BY <1>2, <1>3, NumbersOf
    <2>2. C.place = {l}
        BY <1>6, <2>1 DEF PlaceOf
    <2>3. CASE op = "if"
        BY <1>4, <1>6, <1>7, <2>1, <2>2, <2>3 DEF JumpsOf, Always
    <2>4. CASE op = "if+"
        BY <1>4, <1>6, <1>7, <2>1, <2>2, <2>4 DEF JumpsOf, Always
    <2>5. CASE op = "?"
        BY <1>4, <1>6, <1>7, <2>1, <2>2, <2>5 DEF JumpsOf, Always
    <2> QED BY <2>3, <2>4, <2>5
<1>9. Behind(l) = pc + 1
    BY <1>2, <1>6, <1>8, PlacedOnce
<1>10. PICK h \in Lines : Op(h) \notin {"call", "pop"} /\ Program!Otherwise = h + 1 /\ m \in code[h].place
    <2>1. Program!S.op = op
        BY <1>2 DEF Program!S, Op
    <2>2. CASE op = "if+"
        <3>1. PICK h \in Lines :
                  /\ Op(h) = "else" /\ (CHOOSE j \in Program!Middle(source, pc, "else") : TRUE) = h
                  /\ code[h].place = {<<"else", Num(pc)>>}
            BY <1>2, <2>2, ElseIs
        <3>2. Program!Otherwise = h + 1
            BY <1>2, <2>1, <2>2, <3>1 DEF Program!Otherwise
        <3> QED BY <1>7, <2>2, <3>1, <3>2
    <2>3. CASE op # "if+"
        <3>1. Op(e) \in {"endif", "break"} /\ Program!End(source, pc) = e
            BY <1>2, <1>3 DEF Block, Program!Pairs
        <3>2. code[e].place = {<<"endif", Num(pc)>>}
            BY <1>2, <1>3, <3>1, NumbersOf DEF PlaceOf
        <3>3. Program!Otherwise = e + 1
            BY <1>2, <2>1, <2>3, <3>1 DEF Program!Otherwise
        <3> QED BY <1>7, <2>3, <3>1, <3>2, <3>3
    <2> QED BY <2>2, <2>3
<1>11. Behind(m) = h + 1
    BY <1>2, <1>7, <1>10, PlacedOnce
<1>12. pc' = IF Program!Condition THEN pc + 1 ELSE h + 1
    BY <1>2, <1>5, <1>8, <1>9, <1>11, TakenEither DEF Decides
<1>13. BlockInv' /\ Program!Goto(IF Program!Condition THEN pc + 1 ELSE h + 1)
    <2>1. CASE Program!Condition
        BY <1>2, <1>12, <2>1
    <2>2. CASE ~Program!Condition
        BY <1>2, <1>10, <1>12, <2>2
    <2> QED BY <2>1, <2>2
<1>14. Program!At({"if", "if+", "?"})
    BY <1>2 DEF Program!At, Program!S, Op
<1> QED BY <1>2, <1>10, <1>13, <1>14 DEF Program!Branch

LEMMA TestRuns ==
    ASSUME IInv, BlockInv, RunTest, UNCHANGED <<phase, Compiled>>, "nested" \in Rules
    PROVE  BlockInv' /\ Program!Next
<1>1. PICK op : op = source[pc].op
    OBVIOUS
<1>2. op \in {"if", "if+", "else", "endif", "?", "break", "do", "while", "for-loop", "for",
              "next", "switch", "switchend"}
    BY <1>1 DEF RunTest, Running
<1>3. \A ops : op \in ops => Testing(ops)
    BY <1>1 DEF Testing
<1>4. CASE op \in {"if", "if+", "?"}
    <2>1. BlockInv' /\ Program!Branch
        BY <1>3, <1>4, BranchRuns
    <2> QED BY <2>1 DEF Program!Next
<1>5. CASE op = "else"
    <2>1. BlockInv' /\ Program!SkipElse
        BY <1>3, <1>5, ElseRuns
    <2> QED BY <2>1 DEF Program!Next
<1>6. CASE op = "while"
    <2>1. BlockInv' /\ Program!Again
        BY <1>3, <1>6, WhileRuns
    <2> QED BY <2>1 DEF Program!Next
<1>7. CASE op = "for"
    <2>1. BlockInv' /\ Program!For
        BY <1>3, <1>7, ForRuns
    <2> QED BY <2>1 DEF Program!Next
<1>8. CASE op = "next"
    <2>1. BlockInv' /\ Program!Repeat
        BY <1>3, <1>8, NextRuns
    <2> QED BY <2>1 DEF Program!Next
<1>9. CASE op \in {"endif", "break", "do", "for-loop", "switch", "switchend"}
    <2>1. BlockInv' /\ Program!PassBy
        BY <1>3, <1>9, PassRuns
    <2> QED BY <2>1 DEF Program!Next
<1> QED BY <1>2, <1>4, <1>5, <1>6, <1>7, <1>8, <1>9

-----------------------------------------------------------------------------
(***************************************************************************)
(* Every step of the compiler and of the run is one of the source, or none *)
(* at all.                                                                 *)
(***************************************************************************)
Still ==
    /\ phase = "compile" /\ phase' \in {"compile", "error", "broken"}
    /\ UNCHANGED <<source, machine>>

LEMMA PutStill ==
    ASSUME NEW t, NEW item, phase = "compile", Put(t, item)
    PROVE  Still
BY DEF Put, Still

LEMMA CompileStill == ASSUME Compile, ~Finish PROVE Still
<1>1. \A t, item : phase = "compile" /\ Emit(t, item) => Still
    BY PutStill DEF Emit
<1>2. CASE CompileSet
    BY <1>1, <1>2, Zenon DEF CompileSet, Compiling
<1>3. CASE CompileCopy
    BY <1>1, <1>3, Zenon DEF CompileCopy, Compiling
<1>4. CASE CompileCall
    BY PutStill, <1>4, Zenon DEF CompileCall, Compiling
<1>5. CASE CompilePop
    BY <1>1, <1>5, Zenon DEF CompilePop, Compiling
<1>6. CASE CompileIf
    BY <1>1, <1>6, Zenon DEF CompileIf, Compiling, Test
<1>7. CASE CompileCase
    BY <1>1, <1>7, Zenon DEF CompileCase, Compiling
<1>8. CASE CompileElse \/ CompileEndif
    BY <1>1, <1>8, Zenon DEF CompileElse, CompileEndif, Compiling
<1>9. CASE CompileDo \/ CompileForLoop
    BY <1>1, <1>9, Zenon DEF CompileDo, CompileForLoop, Compiling
<1>10. CASE CompileWhile \/ CompileFor
    BY <1>1, <1>10, Zenon DEF CompileWhile, CompileFor, Compiling, Test
<1>11. CASE CompileNext
    BY <1>1, <1>11, Zenon DEF CompileNext, Compiling
<1>12. CASE CompileSwitch \/ CompileSwitchEnd
    BY <1>1, <1>12, Zenon DEF CompileSwitch, CompileSwitchEnd, Compiling
<1>13. CASE Refuse
    <2>1. phase = "compile"
        BY <1>13, Zenon DEF Refuse, Compiling
    <2> QED BY <1>13, <2>1 DEF Refuse, Still
<1>14. CASE BreakOutside
    BY <1>14 DEF BreakOutside, Compiling, Still
<1> QED BY <1>2, <1>3, <1>4, <1>5, <1>6, <1>7, <1>8, <1>9, <1>10, <1>11, <1>12, <1>13, <1>14
        DEF Compile

LEMMA CompileMaps ==
    ASSUME "nested" \in Rules, IInv, Compile
    PROVE  [Program!Next]_(Program!vars)
<1>1. CASE Finish
    <2>1. /\ phase = "compile" /\ phase' = "run" /\ Program!Nested(source)
          /\ source' = source /\ mem' = mem /\ pc' = pc /\ stack' = stack
        BY <1>1 DEF Finish, machine
    <2>2. pc = 1
        BY <2>1 DEF IInv, PhaseInv
    <2>3. Counter = 0 /\ Counter' = 1 /\ Passed' = Passed
        BY <2>1, <2>2 DEF Counter, Passed, Answered
    <2>4. Program!Start
        BY <2>1, <2>3 DEF Program!Start
    <2> QED BY <2>4 DEF Program!Next
<1>2. CASE ~Finish
    <2>1. /\ phase = "compile" /\ phase' \in {"compile", "error", "broken"}
          /\ source' = source /\ mem' = mem /\ pc' = pc /\ stack' = stack
        BY <1>2, CompileStill DEF Still, machine
    <2>2. Counter = 0 /\ Counter' = 0 /\ Passed' = Passed
        BY <2>1 DEF Counter, Passed, Answered
    <2>3. UNCHANGED Program!vars
        BY <2>1, <2>2 DEF Program!vars
    <2> QED BY <2>3
<1> QED BY <1>1, <1>2

LEMMA RunMaps ==
    ASSUME IInv, BlockInv, Run, "nested" \in Rules
    PROVE  BlockInv' /\ [Program!Next]_(Program!vars)
<1>1. UNCHANGED Compiled
    BY DEF Run, Compiled
<1>2. CASE RunSet /\ UNCHANGED phase
    BY <1>1, <1>2, SetRuns DEF Program!Next
<1>3. CASE RunCopy /\ UNCHANGED phase
    BY <1>1, <1>3, CopyRuns DEF Program!Next
<1>4. CASE RunPop /\ UNCHANGED phase
    BY <1>1, <1>4, PopRuns DEF Program!Next
<1>5. CASE RunTest /\ UNCHANGED phase
    BY <1>1, <1>5, TestRuns
<1>6. CASE \E m \in [Vars -> Values], v \in Values : RunCall(m, v) /\ UNCHANGED phase
    BY <1>1, <1>6, CallRuns DEF Program!Next
<1>7. CASE RunFuncEnd
    <2>1. /\ phase = "run" /\ phase' = "done" /\ pc = Len(source) + 1 /\ pc' = pc /\ mem' = mem
          /\ source' = source /\ stack' = Restored
        BY <1>1, <1>7 DEF RunFuncEnd, Compiled
    <2>2. ~(pc <= Len(source))
        BY <2>1, RunLines
    <2>3. Passed = <<>> /\ Counter = pc
        BY <2>1, <2>2, PassedIs
    <2>4. Passed' = <<>> /\ Counter' = pc
        <3>1. Counter' = pc
            BY <2>1 DEF Counter
        <3>2. CASE \A j \in 1 .. pc - 1 : source[j].op = "pop"
            <4>1. stack = <<>> /\ Passed' = Restored
                BY <2>1, <2>3, <3>2 DEF Passed
            <4>2. \A n \in Nat : SubSeq(<<>>, 1, 0 - n) = <<>>
                OBVIOUS
            <4>3. Cardinality(C.restore) \in Nat
                <5>1. pc \in 1 .. Len(code) /\ code \in Seq(Item)
                    BY <2>1, RunLines DEF IInv, TypeOK
                <5>2. C \in Item
                    BY <5>1 DEF C
                <5>3. C.restore \in SUBSET Regs
                    BY <5>2 DEF Item
                <5> QED BY <5>3, SetsOfRegs
            <4>4. Restored = <<>>
                BY <4>1, <4>2, <4>3 DEF Restored
            <4> QED BY <3>1, <4>1, <4>4
        <3>3. CASE ~ \A j \in 1 .. pc - 1 : source[j].op = "pop"
            <4>1. ~Answered
                BY <2>3, <3>3 DEF Passed
            <4>2. ~Answered'
                BY <2>1, <4>1 DEF Answered
            <4>3. Passed' = <<>>
                BY <2>1, <3>3, <4>2 DEF Passed
            <4> QED BY <3>1, <4>3
        <3> QED BY <3>1, <3>2, <3>3
    <2>5. UNCHANGED Program!vars
        BY <2>1, <2>3, <2>4 DEF Program!vars
    <2>6. Returned'
        BY <2>1 DEF Returned
    <2>7. BlockInv'
        BY <1>1, <2>1, <2>6, RunBlock DEF BlockInv
    <2> QED BY <2>5, <2>7
<1> QED BY <1>2, <1>3, <1>4, <1>5, <1>6, <1>7 DEF Run

LEMMA BlockStutter ==
    ASSUME BlockInv, UNCHANGED vars
    PROVE  BlockInv' /\ UNCHANGED Program!vars
<1>1. /\ phase' = phase /\ source' = source /\ line' = line /\ regi' = regi
      /\ call_set' = call_set /\ save_regi' = save_regi /\ code' = code /\ was' = was
      /\ ifs' = ifs /\ whiles' = whiles /\ fors' = fors /\ switches' = switches
      /\ pc' = pc /\ regs' = regs /\ mem' = mem /\ stack' = stack
    BY DEF vars, blocks, machine
<1>2. UNCHANGED Program!vars
    BY <1>1 DEF Program!vars, Counter, Passed, Answered
<1>3. Points' = Points /\ \A j : Op(j)' = Op(j)
    BY <1>1 DEF Points, Now, Op
<1>4. /\ \A f : Openers(f)' = Openers(f) /\ Closers(f)' = Closers(f)
      /\ \A f \in Families : Size(f)' = Size(f) /\ Open(f)' = Open(f)
      /\ Lines' = Lines /\ \A j : Num(j)' = Num(j)
    BY <1>1 DEF Openers, Closers, Size, Open, Lines, Op, Num
<1>5. Shapes' /\ Operands' /\ Ordered'
    BY <1>1, <1>3, <1>4 DEF BlockInv, Shapes, Operands, Ordered
<1>6. Matched' /\ Astray'
    <2>1. \A j : Stray(j)' <=> Stray(j)
        BY <1>1, <1>3 DEF Stray, Plain
    <2> QED BY <1>3, <1>4, <2>1 DEF BlockInv, Matched, Astray, Belongs, Suits
<1>7. Linked'
    BY <1>1, <1>3, <1>4 DEF BlockInv, Linked
<1>8. mem' \in [Vars -> Values] /\ Returned'
    BY <1>1 DEF BlockInv, Returned, Passed, Answered
<1>9. phase' \in {"run", "done"} => Program!Nested(source)'
    BY <1>1 DEF BlockInv
<1> QED BY <1>2, <1>5, <1>6, <1>7, <1>8, <1>9 DEF BlockInv

\* What the compiled function does is what its source says, for every
\* program of nested blocks: each jump gets to the end, the begin or the else
\* of its own block, and each condition, assignment and result is that of the
\* text (parse_line in comp/main.c, the tables of comp/if.c).  "unread" is
\* the part of (x y =) that the source does not promise.
THEOREM BlocksAreKept ==
    ASSUME {"nested", "unread"} \subseteq Rules
    PROVE  Spec => ImplementsBlocks
<1>1. Init => IInv /\ BlockInv
    BY InitIs, InitBlock
<1>2. IInv /\ BlockInv /\ [Next]_vars => IInv' /\ BlockInv'
    <2> SUFFICES ASSUME IInv, BlockInv, [Next]_vars PROVE IInv' /\ BlockInv'
        OBVIOUS
    <2>1. CASE Compile
        BY <2>1, CompileKeeps, CompileBlock
    <2>2. CASE Run
        BY <2>2, RunStep, RunMaps
    <2>3. CASE UNCHANGED vars
        BY <2>3, StutterStep, BlockStutter
    <2> QED BY <2>1, <2>2, <2>3 DEF Next
<1>3. Init => Program!Init
    <2> SUFFICES ASSUME Init PROVE Program!Init
        OBVIOUS
    <2>1. pc = 1 /\ phase = "compile"
        BY DEF Init
    <2>2. Counter = 0 /\ Passed = stack
        BY <2>1 DEF Counter, Passed
    <2> QED BY <2>2 DEF Init, Program!Init
<1>4. IInv /\ BlockInv /\ [Next]_vars => [Program!Next]_(Program!vars)
    <2> SUFFICES ASSUME IInv, BlockInv, [Next]_vars PROVE [Program!Next]_(Program!vars)
        OBVIOUS
    <2>1. CASE Compile
        BY <2>1, CompileMaps
    <2>2. CASE Run
        BY <2>2, RunMaps
    <2>3. CASE UNCHANGED vars
        BY <2>3, BlockStutter
    <2> QED BY <2>1, <2>2, <2>3 DEF Next
<1> QED BY <1>1, <1>2, <1>3, <1>4, PTL DEF Spec, ImplementsBlocks, Program!Spec
=============================================================================
