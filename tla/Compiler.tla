------------------------------ MODULE Compiler ------------------------------
(***************************************************************************)
(* The Brackets compiler on the body of a function: the table of registers *)
(* that hold variables (comp/register.c), the tables of open blocks        *)
(* (comp/if.c), and the handlers of the statements that use them           *)
(* (parse_line in comp/main.c); and the run of what they emit.             *)
(*                                                                         *)
(* A statement is compiled in one step and its code runs in one step: its  *)
(* labels are at the end of its code, so a jump comes out between two      *)
(* statements.  Table entries count from 1 here; they are never used       *)
(* again, so a table is the sequence of those that were.  Variables are    *)
(* int64, nested_code is on and optimize_if off; expressions have one      *)
(* operator, calls at most one argument.  What saved registers held is not *)
(* followed: they are restored when no variable is looked for in them.     *)
(*                                                                         *)
(* Rules names what the source promises:                                   *)
(*   "nested" blocks are nested and complete, a loop has one for, results  *)
(*            are popped                                                   *)
(*   "unread" (x y =) goes to a y that no register holds                   *)
(***************************************************************************)
EXTENDS Integers, Sequences, FiniteSets

CONSTANTS
    Vars, Shared, Values, Sum, Programs,
    Zero,       \* the variable called zero
    MaxReg,
    MaxBlocks,  \* MAXIF, MAXWHILE, MAXFOR, MAXSWITCH
    Rules, None

ASSUME CompilerAssumption ==
    /\ Shared \subseteq Vars /\ Zero \in Vars
    /\ {0, 1} \subseteq Values
    /\ Sum \in [Values \X Values -> Values]
    /\ MaxReg \in Nat \ {0} /\ MaxBlocks \in Nat
    /\ Rules \subseteq {"nested", "unread"}
    /\ {None, "", "temp"} \cap Vars = {} /\ None \notin Values \cup (-1 .. MaxReg)

VARIABLES
    phase,     \* "compile", "run", "done"; "error"; "broken": behaviour that C leaves open
    source,
    line,      \* the statement parse_line is at
    regi,      \* the variable a register holds
    call_set,  \* a call whose registers are not restored yet
    save_regi, \* the registers it saved
    ifs, whiles, fors, switches,
    code,
    \* the run:
    pc, regs, mem, stack,
    \* history:
    was        \* regi, call_set and save_regi in front of each statement

blocks == <<ifs, whiles, fors, switches>>
machine == <<pc, regs, mem, stack>>
vars == <<phase, source, line, regi, call_set, save_regi, blocks, code, machine, was>>

Regs == 0 .. MaxReg - 1
Word(ops, args) == [op : ops, args : args, to : {None}, ret : {FALSE}]
One == {<<v>> : v \in Vars}
Statement ==
    [op : {"set"}, args : Vars \X Vars, to : Vars, ret : {FALSE}]
    \cup [op : {"copy"}, args : One, to : Vars, ret : {FALSE}]
    \cup [op : {"call"}, args : One \cup {<<>>}, to : {None}, ret : BOOLEAN]
    \cup [op : {"pop"}, args : {<<>>}, to : Vars, ret : {FALSE}]
    \cup Word({"if", "if+", "while", "for"}, One) \cup Word({"?"}, Vars \X Vars)
    \cup Word({"else", "endif", "break", "do", "for-loop", "next", "switch", "switchend"}, {<<>>})
Table == [Regs -> Vars \cup {"", "temp"}]
Label == {"if", "else", "endif", "while", "for", "for2", "forend"} \X Nat
RegNum == Regs \cup {-1}
Jump == [reg : RegNum \cup {None}, to : Label]
Item == [restore : SUBSET Regs, loads : SUBSET [var : Vars, reg : RegNum], regs : Seq(RegNum),
         saves : SUBSET Regs, jumps : Seq(Jump), place : SUBSET Label]

ASSUME ProgramsAssumption == Programs \subseteq Seq(Statement)

Clean == [r \in Regs |-> ""]

\* The last statement called a function that returned a value.
Answered == pc > 1 /\ source[pc - 1].op = "call" /\ source[pc - 1].ret

\* What the caller or the last function passed and nobody has popped.
Passed ==
    IF \A j \in 1 .. pc - 1 : source[j].op = "pop" THEN stack
    ELSE IF Answered THEN <<stack[Len(stack)]>> ELSE <<>>

Counter == IF phase \in {"run", "done"} THEN pc ELSE 0

Program == INSTANCE Blocks WITH pc <- Counter, passed <- Passed

TypeOK ==
    /\ phase \in {"compile", "run", "done", "error", "broken"}
    /\ line \in 1 .. Len(source) + 2
    /\ regi \in Table /\ call_set \in BOOLEAN /\ save_regi \subseteq Regs
    /\ ifs \in Seq([open : BOOLEAN, plus : BOOLEAN, else_set : BOOLEAN])
    /\ whiles \in Seq(BOOLEAN) /\ fors \in Seq([open : BOOLEAN, for_def_set : BOOLEAN])
    /\ switches \in Seq(BOOLEAN)
    /\ code \in Seq(Item) /\ Len(code) = line - 1
    /\ was \in Seq([regi : Table, call_set : BOOLEAN, save_regi : SUBSET Regs])
    /\ Len(was) = line - 1
    /\ pc \in 1 .. Len(source) + 1
    /\ regs \in [Regs -> Values \cup {None}]
    /\ mem \in [Vars -> Values \cup {None}]
    /\ stack \in Seq(Values \cup {None})

\* (:f func), which loads zero into register 0, and was given the arguments
\* that its first statements pop.
Init ==
    /\ phase = "compile"
    /\ source \in Programs
    /\ line = 1
    /\ regi = [Clean EXCEPT ![0] = Zero] /\ call_set = FALSE /\ save_regi = {}
    /\ ifs = <<>> /\ whiles = <<>> /\ fors = <<>> /\ switches = <<>>
    /\ code = <<>> /\ was = <<>>
    /\ pc = 1
    /\ mem \in [Vars -> Values]
    /\ regs = [r \in Regs |-> IF r = 0 THEN mem[Zero] ELSE None]
    /\ stack \in [1 .. Program!Body(source) - 1 -> Values]

-----------------------------------------------------------------------------
\* register.c: get_regi, get_free_regi, set_regi.
Holds(t, v) == \E r \in Regs : t[r] = v

Least(R) == CHOOSE r \in R : \A s \in R : r <= s

Unused(t) == {r \in Regs \ {0} : t[r] = ""}

FreeReg(t) == IF Unused(t) = {} THEN -1 ELSE Least(Unused(t))

Reg(t, v) == IF Holds(t, v) THEN Least({r \in Regs : t[r] = v}) ELSE FreeReg(t)

\* A variable that is not in a register is loaded into one.
With(t, v) == [t EXCEPT ![Reg(t, v)] = v]

Loads(t, v) == IF Holds(t, v) THEN {} ELSE {[var |-> v, reg |-> Reg(t, v)]}

Temp(t) == [t EXCEPT ![FreeReg(t)] = "temp"]

Without(t, v) == IF Holds(t, v) THEN [t EXCEPT ![Reg(t, v)] = ""] ELSE t

\* if.c: get_act_if and the like, 0 for none.
Highest(N) == IF N = {} THEN 0 ELSE CHOOSE n \in N : \A m \in N : m <= n

ActIf == Highest({n \in 1 .. Len(ifs) : ifs[n].open})
ActIfPlus == Highest({n \in 1 .. Len(ifs) : ifs[n].open /\ ifs[n].plus})
ActWhile == Highest({n \in 1 .. Len(whiles) : whiles[n]})
ActFor == Highest({n \in 1 .. Len(fors) : fors[n].open})
ActSwitch == Highest({n \in 1 .. Len(switches) : switches[n]})

-----------------------------------------------------------------------------
FuncEnd == [op |-> "funcend", args |-> <<>>, to |-> None, ret |-> FALSE]

S == IF line <= Len(source) THEN source[line] ELSE FuncEnd

\* Bad: the registers are restored in front of stpopi too.
BadReload == call_set

\* loadreg is called in front of the first statement behind a call that is
\* not a stpopi.
Reload == call_set /\ S.op # "pop"

\* Bad: an else keeps what the registers held at the end of the if+.
BadResets == {"if", "if+", "?", "do", "for-loop", "for", "switchend"}

\* The statements that call init_registers first; a switch does behind the
\* look at its table.
Resets == {"if", "if+", "else", "?", "do", "for-loop", "for", "switchend"}

Before == IF Reload \/ S.op \in Resets THEN Clean ELSE regi

Compiling(ops) == phase = "compile" /\ line <= Len(source) /\ S.op \in ops

\* A statement without code of its own.
Bare == [restore |-> IF Reload THEN save_regi ELSE {}, loads |-> {}, regs |-> <<>>,
         saves |-> {}, jumps |-> <<>>, place |-> {}]

Used(item) == {item.regs[n] : n \in 1 .. Len(item.regs)} \cup {l.reg : l \in item.loads}

\* The code of a statement, behind which the registers are t.  When
\* get_free_regi has answered -1, set_regi was called with that index.
Put(t, item) ==
    /\ code' = Append(code, item)
    /\ was' = Append(was, [regi |-> regi, call_set |-> call_set, save_regi |-> save_regi])
    /\ regi' = t
    /\ line' = line + 1
    /\ phase' = IF -1 \in Used(item) THEN "broken" ELSE phase
    /\ UNCHANGED <<source, machine>>

Emit(t, item) ==
    /\ Put(t, item)
    /\ call_set' = (call_set /\ ~Reload)
    /\ UNCHANGED save_regi

-----------------------------------------------------------------------------
\* ((x y +) z =)
CompileSet ==
    /\ Compiling({"set"})
    /\ LET x == S.args[1]
           y == S.args[2]
           t1 == With(Before, x)
           t2 == With(t1, y)
           t3 == Temp(t2)
       IN Emit(Without(Temp(t3), S.to),
               [Bare EXCEPT !.loads = Loads(Before, x) \cup Loads(t1, y),
                            !.regs = <<Reg(Before, x), Reg(t1, y), FreeReg(t2), FreeReg(t3)>>])
    /\ UNCHANGED blocks

\* (x y =): a y that is in a register is not loaded with x.
CompileCopy ==
    /\ Compiling({"copy"})
    /\ LET x == S.args[1]
           y == S.to
           t1 == Temp(Before)
           address == FreeReg(Before)
       IN /\ "unread" \in Rules => ~Holds(t1, y)
          /\ Emit([Without(With(t1, y), y) EXCEPT ![address] = ""],
                  [Bare EXCEPT !.loads = IF Holds(t1, y) THEN {}
                                         ELSE {[var |-> x, reg |-> Reg(t1, y)]},
                               !.regs = <<Reg(t1, y), address>>])
    /\ UNCHANGED blocks

\* (a :f call): saves the registers in use, and pushes the argument from a
\* register that may be another one than before.
CompileCall ==
    /\ Compiling({"call"})
    /\ LET saves == {r \in Regs : Before[r] # ""}
           item == [Bare EXCEPT !.saves = saves]
       IN /\ IF S.args = <<>> THEN Put(Before, item)
             ELSE LET x == S.args[1]
                      t == Without(Before, x)
                  IN Put(With(t, x), [item EXCEPT !.loads = Loads(t, x)])
          /\ call_set' = TRUE /\ save_regi' = saves
    /\ UNCHANGED blocks

\* (z stpopi): z stays in the register that it is popped into.
CompilePop ==
    /\ Compiling({"pop"})
    /\ LET t == With(Before, S.to)
       IN Emit(t, [Bare EXCEPT !.regs = <<Reg(Before, S.to), FreeReg(t)>>])
    /\ UNCHANGED blocks

-----------------------------------------------------------------------------
\* The jumps and labels of a block whose table is full are left out: a
\* message is printed, and parse_line returns FALSE.
Given(full, x, none) == IF full THEN none ELSE x

\* The load of v, jumps that depend on it, and a label behind them.
Test(v, full, jumps, place) ==
    Emit(With(Before, v),
         [Bare EXCEPT !.loads = Loads(Before, v), !.regs = <<Reg(Before, v)>>,
                      !.jumps = Given(full, jumps, <<>>), !.place = Given(full, place, {})])

\* (v if) and (v if+)
CompileIf ==
    /\ Compiling({"if", "if+"})
    /\ LET n == Len(ifs) + 1
           full == Len(ifs) >= MaxBlocks
           other == IF S.op = "if+" THEN "else" ELSE "endif"
       IN /\ ifs' = Given(full, Append(ifs,
                 [open |-> TRUE, plus |-> S.op = "if+", else_set |-> FALSE]), ifs)
          /\ Test(S.args[1], full,
                  <<[reg |-> Reg(Before, S.args[1]), to |-> <<"if", n>>],
                    [reg |-> None, to |-> <<other, n>>]>>, {<<"if", n>>})
    /\ UNCHANGED <<whiles, fors, switches>>

\* (x y ?)
CompileCase ==
    /\ Compiling({"?"})
    /\ LET x == S.args[1]
           y == S.args[2]
           t1 == With(Before, y)
           t2 == With(t1, x)
           r == FreeReg(t2)
           n == Len(ifs) + 1
           full == Len(ifs) >= MaxBlocks
       IN /\ ifs' = Given(full, Append(ifs,
                 [open |-> TRUE, plus |-> FALSE, else_set |-> FALSE]), ifs)
          /\ Emit(Temp(t2),
                  [Bare EXCEPT !.loads = Loads(Before, y) \cup Loads(t1, x),
                               !.regs = <<Reg(t1, x), Reg(Before, y), r>>,
                               !.jumps = Given(full, <<[reg |-> r, to |-> <<"if", n>>],
                                                       [reg |-> None, to |-> <<"endif", n>>]>>, <<>>),
                               !.place = Given(full, {<<"if", n>>}, {})])
    /\ UNCHANGED <<whiles, fors, switches>>

ElseOf == ActIfPlus

CompileElse ==
    /\ Compiling({"else"})
    /\ ElseOf # 0
    /\ ifs' = [ifs EXCEPT ![ElseOf].else_set = TRUE]
    /\ Emit(Before, [Bare EXCEPT !.jumps = <<[reg |-> None, to |-> <<"endif", ElseOf>>]>>,
                                 !.place = {<<"else", ElseOf>>}])
    /\ UNCHANGED <<whiles, fors, switches>>

\* Bad: a block that was left stays the innermost one.
BadFinished == ifs

\* set_endif_finished.
Finished == [ifs EXCEPT ![ActIf].open = FALSE]

\* endif, and break, which does not ask for an else.
CompileEndif ==
    /\ Compiling({"endif", "break"})
    /\ ActIf # 0
    /\ S.op = "endif" /\ ifs[ActIf].plus => ifs[ActIf].else_set
    /\ ifs' = Finished
    /\ Emit(Clean, [Bare EXCEPT !.place = {<<"endif", ActIf>>}])
    /\ UNCHANGED <<whiles, fors, switches>>

-----------------------------------------------------------------------------
CompileDo ==
    /\ Compiling({"do"})
    /\ LET full == Len(whiles) >= MaxBlocks
       IN /\ whiles' = Given(full, Append(whiles, TRUE), whiles)
          /\ Emit(Before, [Bare EXCEPT !.place = Given(full, {<<"while", Len(whiles) + 1>>}, {})])
    /\ UNCHANGED <<ifs, fors, switches>>

\* (v while): the registers stay as they are behind the loop.
CompileWhile ==
    /\ Compiling({"while"})
    /\ ActWhile # 0
    /\ whiles' = [whiles EXCEPT ![ActWhile] = FALSE]
    /\ Test(S.args[1], FALSE,
            <<[reg |-> Reg(Before, S.args[1]), to |-> <<"while", ActWhile>>]>>, {})
    /\ UNCHANGED <<ifs, fors, switches>>

CompileForLoop ==
    /\ Compiling({"for-loop"})
    /\ LET full == Len(fors) >= MaxBlocks
       IN /\ fors' = Given(full, Append(fors, [open |-> TRUE, for_def_set |-> FALSE]), fors)
          /\ Emit(Before, [Bare EXCEPT !.place = Given(full, {<<"for", Len(fors) + 1>>}, {})])
    /\ UNCHANGED <<ifs, whiles, switches>>

\* (v for): without an open for-loop, too, a message is printed, and what
\* follows is compiled.
CompileFor ==
    /\ Compiling({"for"})
    /\ "nested" \in Rules /\ ActFor # 0 => ~fors[ActFor].for_def_set
    /\ fors' = Given(ActFor = 0, [fors EXCEPT ![ActFor].for_def_set = TRUE], fors)
    /\ Test(S.args[1], ActFor = 0,
            <<[reg |-> Reg(Before, S.args[1]), to |-> <<"for2", ActFor>>],
              [reg |-> None, to |-> <<"forend", ActFor>>]>>, {<<"for2", ActFor>>})
    /\ UNCHANGED <<ifs, whiles, switches>>

CompileNext ==
    /\ Compiling({"next"})
    /\ ActFor # 0 /\ fors[ActFor].for_def_set
    /\ fors' = [fors EXCEPT ![ActFor].open = FALSE]
    /\ Emit(Clean, [Bare EXCEPT !.jumps = <<[reg |-> None, to |-> <<"for", ActFor>>]>>,
                                !.place = {<<"forend", ActFor>>}])
    /\ UNCHANGED <<ifs, whiles, switches>>

CompileSwitch ==
    /\ Compiling({"switch"})
    /\ LET full == Len(switches) >= MaxBlocks
       IN /\ switches' = Given(full, Append(switches, TRUE), switches)
          /\ Emit(Given(full, Clean, Before), Bare)
    /\ UNCHANGED <<ifs, whiles, fors>>

CompileSwitchEnd ==
    /\ Compiling({"switchend"})
    /\ ActSwitch # 0
    /\ switches' = [switches EXCEPT ![ActSwitch] = FALSE]
    /\ Emit(Before, Bare)
    /\ UNCHANGED <<ifs, whiles, fors>>

-----------------------------------------------------------------------------
\* The assembler finds every label that is jumped to.
Labelled ==
    \A j \in 1 .. Len(code) : \A k \in 1 .. Len(code[j].jumps) :
        \E i \in 1 .. Len(code) : code[j].jumps[k].to \in code[i].place

\* The errors, and what happens to a break without an open if: entry -1 is
\* written.
Refuse ==
    /\ \/ Compiling({"else"}) /\ ElseOf = 0
       \/ Compiling({"endif"}) /\ (ActIf # 0 => ifs[ActIf].plus /\ ~ifs[ActIf].else_set)
       \/ Compiling({"while"}) /\ ActWhile = 0
       \/ Compiling({"next"}) /\ (ActFor # 0 => ~fors[ActFor].for_def_set)
       \/ Compiling({"switchend"}) /\ ActSwitch = 0
       \/ phase = "compile" /\ line = Len(source) + 1 /\ ~Labelled
    /\ phase' = "error"
    /\ UNCHANGED <<source, line, regi, call_set, save_regi, blocks, code, machine, was>>

BreakOutside ==
    /\ Compiling({"break"}) /\ ActIf = 0
    /\ phase' = "broken"
    /\ UNCHANGED <<source, line, regi, call_set, save_regi, blocks, code, machine, was>>

\* (funcend): the last registers are restored, and the program can run.
Finish ==
    /\ phase = "compile" /\ line = Len(source) + 1 /\ Labelled
    /\ "nested" \in Rules => Program!Nested(source)
    /\ code' = Append(code, Bare)
    /\ was' = Append(was, [regi |-> regi, call_set |-> call_set, save_regi |-> save_regi])
    /\ call_set' = FALSE
    /\ line' = line + 1
    /\ phase' = "run"
    /\ UNCHANGED <<source, regi, save_regi, blocks, machine>>

-----------------------------------------------------------------------------
(***************************************************************************)
(* The run: C is the code of the statement at pc.                          *)
(***************************************************************************)
C == code[pc]

Running(ops) == phase = "run" /\ pc <= Len(source) /\ source[pc].op \in ops

\* The code begins with what loadreg emitted, and the loads.
Restored == SubSeq(stack, 1, Len(stack) - Cardinality(C.restore))

Loaded ==
    [r \in Regs |->
        IF \E l \in C.loads : l.reg = r THEN mem[(CHOOSE l \in C.loads : l.reg = r).var]
        ELSE IF r \in C.restore THEN None ELSE regs[r]]

Plus(u, v) == IF <<u, v>> \in Values \X Values THEN Sum[u, v] ELSE None

RunSet ==
    /\ Running({"set"})
    /\ LET sum == Plus(Loaded[C.regs[1]], Loaded[C.regs[2]])
       IN /\ regs' = [Loaded EXCEPT ![C.regs[3]] = sum, ![C.regs[4]] = None]
          /\ mem' = [mem EXCEPT ![source[pc].to] = sum]
    /\ stack' = Restored
    /\ pc' = pc + 1

RunCopy ==
    /\ Running({"copy"})
    /\ regs' = [Loaded EXCEPT ![C.regs[2]] = None]
    /\ mem' = [mem EXCEPT ![source[pc].to] = Loaded[C.regs[1]]]
    /\ stack' = Restored
    /\ pc' = pc + 1

\* The function pops its argument, uses every register, may change what it
\* shares with its caller, and may push a value.
RunCall(m, v) ==
    /\ Running({"call"})
    /\ \A x \in Vars \ Shared : m[x] = mem[x]
    /\ regs' = [r \in Regs |-> None]
    /\ mem' = m
    /\ stack' = Restored \o [n \in 1 .. Cardinality(C.saves) |-> None]
                 \o (IF source[pc].ret THEN <<v>> ELSE <<>>)
    /\ pc' = pc + 1

RunPop ==
    /\ Running({"pop"})
    /\ stack # <<>>
    /\ LET v == stack[Len(stack)]
       IN /\ regs' = [regs EXCEPT ![C.regs[1]] = v, ![C.regs[2]] = None]
          /\ mem' = [mem EXCEPT ![source[pc].to] = v]
    /\ stack' = SubSeq(stack, 1, Len(stack) - 1)
    /\ pc' = pc + 1

\* The code behind a label; a label that comes twice is where it comes last.
Behind(label) == Highest({j \in 1 .. Len(code) : label \in code[j].place}) + 1

Leads(r) == {n \in 1 .. Len(C.jumps) : C.jumps[n].reg = None \/ r[C.jumps[n].reg] # 0}

RunTest ==
    /\ Running({"if", "if+", "else", "endif", "?", "break", "do", "while", "for-loop", "for",
                "next", "switch", "switchend"})
    /\ regs' = IF source[pc].op = "?"
               THEN [Loaded EXCEPT ![C.regs[3]] =
                        IF Loaded[C.regs[1]] = Loaded[C.regs[2]] THEN 1 ELSE 0]
               ELSE Loaded
    /\ pc' = IF Leads(regs') = {} THEN pc + 1 ELSE Behind(C.jumps[Least(Leads(regs'))].to)
    /\ stack' = Restored
    /\ UNCHANGED mem

RunFuncEnd ==
    /\ phase = "run" /\ pc = Len(source) + 1
    /\ phase' = "done"
    /\ stack' = Restored
    /\ UNCHANGED <<pc, regs, mem>>

Compile ==
    \/ CompileSet \/ CompileCopy \/ CompileCall \/ CompilePop
    \/ CompileIf \/ CompileCase \/ CompileElse \/ CompileEndif
    \/ CompileDo \/ CompileWhile \/ CompileForLoop \/ CompileFor \/ CompileNext
    \/ CompileSwitch \/ CompileSwitchEnd
    \/ Refuse \/ BreakOutside \/ Finish

Run ==
    /\ \/ (RunSet \/ RunCopy \/ RunPop \/ RunTest) /\ UNCHANGED phase
       \/ \E m \in [Vars -> Values], v \in Values : RunCall(m, v) /\ UNCHANGED phase
       \/ RunFuncEnd
    /\ UNCHANGED <<source, line, regi, call_set, save_regi, blocks, code, was>>

Next == Compile \/ Run

Spec == Init /\ [][Next]_vars

-----------------------------------------------------------------------------
\* Between two statements a register that the compiler takes for a variable
\* holds its value, on whatever path the statement is reached: one that was
\* loaded, zero's, or that of an argument, which is read without a load by
\* the next statement (get_regi, init_registers, the end of an assignment).
Coherent ==
    phase = "run" /\ ~was[pc].call_set =>
        \A r \in Regs : was[pc].regi[r] \in Vars => regs[r] = mem[was[pc].regi[r]]

\* What calls saved is popped by the statement that restores it, on every
\* path, the stack does not grow from loop to loop, and a pop never takes
\* what was saved for an argument or a result (loadreg).
StackBalanced ==
    phase = "run" =>
        Len(stack) = IF was[pc].call_set
                     THEN Cardinality(was[pc].save_regi) + (IF Answered THEN 1 ELSE 0)
                     ELSE IF pc < Program!Body(source) THEN Program!Body(source) - pc ELSE 0

\* What runs is the source: the blocks, conditions, assignments and results
\* are those of the program text.
ImplementsBlocks == Program!Spec
=============================================================================
