--------------------------- MODULE VCpuScheduler ---------------------------
(***************************************************************************)
(* The virtual cores of one POSIX thread of L1VMS (vm/main-scheduler.c):   *)
(* the array cpu[], the instructions that change it (INTR1 18-23), the     *)
(* ones whose effect on the execution pointer matters, and task_scheduler, *)
(* which gives each running vcpu a number of instructions in turn.         *)
(*                                                                         *)
(* The code is a program: a sequence of instructions [op, arg], one        *)
(* position each.  A property is checked for every program in Programs.    *)
(* Each vcpu has one register, in place of the ones the instructions name. *)
(***************************************************************************)
EXTENDS Integers, Sequences, FiniteSets

CONSTANTS
    MaxVirtCpu,    \* max_virtcpu
    SchedulerMax,  \* SCHEDULER_MAX: the slice a program starts with
    SchedulerMin,  \* the shortest slice INTR1 23 accepts
    LongestSlice,  \* bound: the largest argument of INTR1 23
    StackSize,     \* elements between sp_bottom and sp_top
    Values,        \* what a program pushes
    Programs,      \* code blocks
    Limit,         \* the limit register of a counted loop
    None           \* nobody

Vcpus == 0 .. MaxVirtCpu - 1

\* scheduler == SCHEDULER_OFF: no switching before the first INTR1 19.
OFF == -1

Ops == {"work", "jmp", "jmpi", "loop", "push", "pop", "run", "stop", "vexit",
        "join", "free", "max", "lock", "unlock", "threadexit", "exit"}

\* What the operand of an instruction may be, in code of n instructions.
ArgsOf(op, n) ==
    CASE op \in {"jmp", "jmpi", "loop"} -> 1 .. n
      [] op = "run" -> 0 .. n
      [] op = "stop" -> Vcpus
      [] op = "max" -> 1 .. LongestSlice
      [] op = "push" -> Values
      [] OTHER -> {0}

Instructions(n) == [op : Ops, arg : Int]

IsProgram(p) ==
    /\ p \in Seq(Instructions(Len(p)))
    /\ Len(p) > 0
    /\ \A i \in 1 .. Len(p) : p[i].arg \in ArgsOf(p[i].op, Len(p))

ASSUME ConstantsAssumption ==
    /\ MaxVirtCpu \in Nat \ {0}
    /\ SchedulerMax \in 1 .. LongestSlice
    /\ SchedulerMin \in 1 .. LongestSlice
    /\ LongestSlice \in Nat
    /\ StackSize \in Nat
    /\ Values \subseteq Int
    /\ Limit \in Nat
    /\ None \notin Vcpus
    /\ \A p \in Programs : IsProgram(p)

VARIABLES
    prog,      \* code, and code_size as its length
    cpuc,      \* the vcpu that executes
    status,    \* cpu[].status
    scheduler, \* cpu[].scheduler, the countdown of the slice
    ep,        \* cpu[].ep
    reg,       \* cpu[].regi
    count,     \* the counter register of a counted loop
    sp,        \* cpu[].sp, counted in elements from sp_top
    cells,     \* the elements of the stack memory
    jumpoffs,  \* vcpus whose jumpoffs points at a table
    slice,     \* scheduler_max
    mutex,     \* owner of data_mutex, among the vcpus
    ended,     \* "no", or how the POSIX thread ended
    stack,     \* history: what each vcpu pushed or was given and not popped
    waited     \* history: instructions since each vcpu last executed one

machineVars == <<sp, cells, jumpoffs, slice, mutex>>
vars == <<prog, cpuc, status, scheduler, ep, reg, count, machineVars, ended,
          stack, waited>>

Running(st) == {v \in Vcpus : st[v] = "RUNNING"}

ThreadInit(home) ==
    /\ prog \in Programs
    /\ cpuc = home
    /\ status = [v \in Vcpus |-> IF v = home THEN "RUNNING" ELSE "STOP"]
    /\ scheduler = [v \in Vcpus |-> IF v = home THEN OFF ELSE 0]
    /\ ep = [v \in Vcpus |-> 1]
    /\ reg = [v \in Vcpus |-> 0]
    /\ count = [v \in Vcpus |-> 0]
    /\ sp = [v \in Vcpus |-> 0]
    /\ cells = [i \in 1 .. StackSize |-> 0]
    /\ jumpoffs = {home}
    /\ slice = SchedulerMax
    /\ mutex = None
    /\ ended = "no"
    /\ stack = [v \in Vcpus |-> << >>]
    /\ waited = [v \in Vcpus |-> 0]

Init == ThreadInit(0)

(***************************************************************************)
(* The order of the search in task_scheduler: the vcpus after c, round the *)
(* end of cpu[], and c itself when no other one is running.                *)
(***************************************************************************)
After(c, k) == (c + k) % MaxVirtCpu

RunningAfter(st, c) == {k \in 1 .. MaxVirtCpu - 1 : st[After(c, k)] = "RUNNING"}

\* Bad: the search begins at the first vcpu; it goes on to a stopped one.
BadNextVcpu(st, c) ==
    IF Running(st) \ {c} = {} THEN {c}
    ELSE {v \in Running(st) \ {c} : \A w \in Running(st) \ {c} : v <= w}
BadNextStopped(st, c) == {After(c, 1)}

\* The vcpu to go on with: a set of one.
NextVcpu(st, c) ==
    IF RunningAfter(st, c) = {} THEN {c}
    ELSE {After(c, k) : k \in {n \in RunningAfter(st, c) :
                                  \A j \in RunningAfter(st, c) : n <= j}}

\* Bad: the check for the end of the code is missing.
BadPastEnd(e) == FALSE

PastEnd(e) == e > Len(prog)

(***************************************************************************)
(* SCHEXE_NEXT and task_scheduler: the end of every instruction.  st and   *)
(* cd are status and scheduler as the opcode leaves them, eps is ep with   *)
(* eoffs added.                                                            *)
(***************************************************************************)
Fetch(st, cd, eps) ==
    LET off == cd[cpuc] = OFF
        over == ~off /\ PastEnd(eps[cpuc])
        st1 == IF over THEN [st EXCEPT ![cpuc] = "STOP"] ELSE st
        left == IF st1[cpuc] = "RUNNING" THEN cd[cpuc] - 1 ELSE 0
    IN  /\ status' = st1
        /\ ep' = eps
        /\ waited' = [v \in Vcpus |->
              IF v = cpuc \/ st1[v] = "STOP" THEN 0 ELSE waited[v] + 1]
        /\ \/ off /\ UNCHANGED cpuc /\ scheduler' = cd
           \/ /\ ~off /\ left > 0
              /\ scheduler' = [cd EXCEPT ![cpuc] = left]
              /\ UNCHANGED cpuc
           \/ /\ ~off /\ left <= 0
              /\ scheduler' = [cd EXCEPT ![cpuc] = slice']
              /\ cpuc' \in NextVcpu(st1, cpuc)

At(op) ==
    /\ ended = "no"
    /\ ~(ep[cpuc] > Len(prog))
    /\ prog[ep[cpuc]].op = op

Arg == prog[ep[cpuc]].arg

To(e) == [ep EXCEPT ![cpuc] = e]
Skip == To(ep[cpuc] + 1)

Set(n) == reg' = [reg EXCEPT ![cpuc] = n]

\* An instruction that goes on at eps and leaves status and scheduler alone.
GoOn(eps) == Fetch(status, scheduler, eps) /\ UNCHANGED <<prog, ended>>

Work ==
    /\ At("work")
    /\ UNCHANGED <<reg, count, machineVars, stack>>
    /\ GoOn(Skip)

Jmp ==
    /\ At("jmp")
    /\ UNCHANGED <<reg, count, machineVars, stack>>
    /\ GoOn(To(Arg))

Jmpi ==
    /\ At("jmpi")
    /\ UNCHANGED <<reg, count, machineVars, stack>>
    /\ GoOn(IF reg[cpuc] # 0 THEN To(Arg) ELSE Skip)

(***************************************************************************)
(* inclsijmpi (and decgrijmpi, its mirror image): the branch sets the      *)
(* local ep, which SCHEXE_NEXT loads again from cpu[].ep.  The counter     *)
(* stops at Limit, past which it compares the same (bound).                *)
(***************************************************************************)
CountedLoop ==
    /\ At("loop")
    /\ count' = [count EXCEPT ![cpuc] = IF @ < Limit THEN @ + 1 ELSE @]
    /\ UNCHANGED <<reg, machineVars, stack>>
    /\ GoOn(IF count[cpuc] + 1 < Limit THEN ep ELSE Skip)

\* The ways the whole POSIX thread ends: FREE_MEM frees cpu[] itself.
Ends(how) ==
    /\ ended' = how
    /\ UNCHANGED <<prog, cpuc, status, scheduler, ep, reg, count, machineVars,
                   stack, waited>>

\* The stack memory is that of the POSIX thread; the depth is the vcpu's own.
Push ==
    /\ At("push")
    /\ sp[cpuc] < StackSize
    /\ sp' = [sp EXCEPT ![cpuc] = @ + 1]
    /\ cells' = [cells EXCEPT ![sp[cpuc] + 1] = Arg]
    /\ stack' = [stack EXCEPT ![cpuc] = Append(@, Arg)]
    /\ UNCHANGED <<reg, count, jumpoffs, slice, mutex>>
    /\ GoOn(Skip)

Pop ==
    /\ At("pop")
    /\ sp[cpuc] > 0
    /\ Set(cells[sp[cpuc]])
    /\ sp' = [sp EXCEPT ![cpuc] = @ - 1]
    /\ stack' = [stack EXCEPT ![cpuc] = SubSeq(@, 1, Len(@) - 1)]
    /\ UNCHANGED <<count, cells, jumpoffs, slice, mutex>>
    /\ GoOn(Skip)

StackError ==
    /\ \/ At("push") /\ sp[cpuc] = StackSize
       \/ At("pop") /\ sp[cpuc] = 0
    /\ Ends("fatal")

FreeVcpus == {v \in Vcpus : status[v] = "STOP"}

Slices(w) == [scheduler EXCEPT ![cpuc] = 0, ![w] = SchedulerMax]

\* INTR1 19: the first stopped vcpu but vcpu 0; the loop that copies the
\* stack copies it onto itself, since sp_top is the same for both.
Run ==
    /\ At("run")
    /\ Arg # 0
    /\ mutex = None
    /\ \E w \in FreeVcpus \ {0} :
          /\ \A x \in FreeVcpus \ {0} : w <= x
          /\ sp' = [sp EXCEPT ![w] = sp[cpuc]]
          /\ stack' = [stack EXCEPT ![w] = stack[cpuc]]
          /\ jumpoffs' = jumpoffs \cup {w}
          /\ Set(w)
          /\ UNCHANGED <<prog, count, cells, slice, mutex, ended>>
          /\ Fetch([status EXCEPT ![w] = "RUNNING"], Slices(w),
                   [Skip EXCEPT ![w] = Arg])

\* No vcpu is free, the start position is 0, or calloc returns NULL.
RunFails ==
    /\ At("run")
    /\ \/ Arg = 0 \/ FreeVcpus \ {0} = {}
       \/ mutex = None
    /\ Ends("fatal")

\* Bad: the instruction pointer goes on.
BadAfterStop == Skip

AfterStop == ep

\* INTR1 20 frees the jump table of the vcpu that executes it, stops the
\* one it names, and leaves eoffs 0.
Stop ==
    /\ At("stop")
    /\ jumpoffs' = jumpoffs \ {cpuc}
    /\ UNCHANGED <<prog, reg, count, sp, cells, slice, mutex, stack, ended>>
    /\ Fetch([status EXCEPT ![Arg] = "STOP"], scheduler, AfterStop)

\* INTR1 21
Exit ==
    /\ At("vexit")
    /\ jumpoffs' = jumpoffs \ {cpuc}
    /\ UNCHANGED <<prog, reg, count, sp, cells, slice, mutex, stack, ended>>
    /\ Fetch([status EXCEPT ![cpuc] = "STOP"], scheduler, ep)

\* Bad: the vcpu that asks counts itself.
BadOthers == Running(status) \ {0}

Others == Running(status) \ {0, cpuc}

\* INTR1 22 tells whether a vcpu but the asker and vcpu 0 is running.
Join ==
    /\ At("join")
    /\ Set(IF Others # {} THEN 1 ELSE 0)
    /\ UNCHANGED <<count, machineVars, stack>>
    /\ GoOn(Skip)

\* INTR1 18: vcpu 0 is counted too.
CountFree ==
    /\ At("free")
    /\ Set(Cardinality(FreeVcpus))
    /\ UNCHANGED <<count, machineVars, stack>>
    /\ GoOn(Skip)

NewSlice == IF Arg >= SchedulerMin THEN Arg ELSE slice

\* INTR1 23 changes the slice of every vcpu of the thread.
SetMax ==
    /\ At("max")
    /\ slice' = NewSlice
    /\ UNCHANGED <<reg, count, sp, cells, jumpoffs, mutex, stack>>
    /\ GoOn(Skip)

\* INTR1 2 blocks the POSIX thread, and every vcpu with it.
Lock ==
    /\ At("lock")
    /\ mutex = None
    /\ mutex' = cpuc
    /\ UNCHANGED <<reg, count, sp, cells, jumpoffs, slice, stack>>
    /\ GoOn(Skip)

Unlock ==
    /\ At("unlock")
    /\ mutex' = None
    /\ UNCHANGED <<reg, count, sp, cells, jumpoffs, slice, stack>>
    /\ GoOn(Skip)

\* INTR1 255 and INTR0 255 take data_mutex to mark the core, then end the
\* thread; the second one ends the process when vcpu 0 executes it.
ThreadExit == At("threadexit") /\ mutex = None /\ Ends("thread")

ProcessExit ==
    /\ At("exit")
    /\ mutex = None
    /\ Ends(IF cpuc = 0 THEN "process" ELSE "thread")

\* An instruction is fetched past the end of the code.
FetchPastEnd == ended = "no" /\ ep[cpuc] > Len(prog) /\ Ends("wild")

Next ==
    \/ Work \/ Jmp \/ Jmpi \/ CountedLoop
    \/ Push \/ Pop \/ StackError
    \/ Run \/ RunFails \/ Stop \/ Exit \/ Join \/ CountFree \/ SetMax
    \/ Lock \/ Unlock \/ ThreadExit \/ ProcessExit \/ FetchPastEnd

Spec == Init /\ [][Next]_vars

\* The POSIX thread itself is scheduled by the operating system.
FairSpec == Spec /\ WF_vars(Next)

-----------------------------------------------------------------------------
(***************************************************************************)
(* Properties.                                                             *)
(***************************************************************************)

\* Every variable has the values the C types and their use allow.
TypeOK ==
    /\ prog \in Programs
    /\ cpuc \in Vcpus
    /\ status \in [Vcpus -> {"RUNNING", "STOP"}]
    /\ scheduler \in [Vcpus -> OFF .. LongestSlice]
    /\ ep \in [Vcpus -> 1 .. Len(prog) + 1]
    /\ reg \in [Vcpus -> Int]
    /\ count \in [Vcpus -> 0 .. Limit]
    /\ sp \in [Vcpus -> 0 .. StackSize]
    /\ cells \in [1 .. StackSize -> Int]
    /\ jumpoffs \subseteq Vcpus
    /\ slice \in {SchedulerMax} \cup (SchedulerMin .. LongestSlice)
    /\ mutex \in Vcpus \cup {None}
    /\ ended \in {"no", "process", "thread", "fatal", "wild"}
    /\ stack \in [Vcpus -> Seq(Int)]
    /\ waited \in [Vcpus -> Nat]

\* The processor is never given to a stopped vcpu while a running one waits
\* (the search in task_scheduler).
CurrentRuns == status[cpuc] = "RUNNING" \/ Running(status) = {}

\* A vcpu that is not subject to switching is the only one: the first vcpu
\* cannot keep SCHEDULER_OFF once it has started another (INTR1 19).
OffAlone ==
    \A v \in Vcpus : scheduler[v] = OFF => v = cpuc /\ Running(status) \subseteq {v}

\* Round robin is starvation free with a bound: no running vcpu waits for
\* more instructions than every other one can execute in its slice.
WaitBound == \A v \in Vcpus : waited[v] <= (MaxVirtCpu - 1) * LongestSlice

\* A vcpu that is about to jump has a jump table: the frees of INTR1 20 and
\* 21 never leave one that goes on without it.
JumpTableLive ==
    At("jmp") \/ At("jmpi") \/ At("loop") => cpuc \in jumpoffs

\* A vcpu that runs past the end of the code is stopped, not executed, as
\* long as another one can run.
PastEndAlone == ended = "wild" => Running(status) \subseteq {cpuc}

(***************************************************************************)
(* The inductive invariant behind them: who may be past the end of the     *)
(* code, who may be without a jump table, and what a stopped vcpu that     *)
(* still has the processor is executing again and again.                   *)
(***************************************************************************)
OpOf(v) == prog[ep[v]].op

PastEndStopped ==
    \A v \in Vcpus :
       ep[v] > Len(prog) => status[v] = "STOP" \/ scheduler[v] = OFF

RunningHasTable ==
    \A v \in Vcpus \ jumpoffs :
       status[v] = "RUNNING" => ep[v] <= Len(prog) /\ OpOf(v) = "stop"

StoppedStays ==
    status[cpuc] = "STOP" =>
       ep[cpuc] > Len(prog) \/ OpOf(cpuc) \in {"vexit", "stop"}

SchedulerInv ==
    /\ TypeOK
    /\ CurrentRuns
    /\ OffAlone
    /\ PastEndStopped
    /\ RunningHasTable
    /\ StoppedStays

(***************************************************************************)
(* Why WaitBound holds: what a vcpu has waited, what is left of the slice  *)
(* of the current one, and a slice for each vcpu between the two fit into  *)
(* the bound.                                                              *)
(***************************************************************************)
Distance(c, v) == IF v >= c THEN v - c ELSE v - c + MaxVirtCpu

WaitInv ==
    /\ \A v \in Vcpus : status[v] = "STOP" => waited[v] = 0
    /\ \A v \in Vcpus :
          status[v] = "RUNNING" /\ scheduler[v] # OFF => scheduler[v] >= 1
    /\ waited[cpuc] <= (MaxVirtCpu - 1) * LongestSlice
    /\ \A v \in Vcpus \ {cpuc} : status[v] = "RUNNING" =>
          waited[v] + scheduler[cpuc]
             + (Distance(cpuc, v) - 1) * LongestSlice
               <= (MaxVirtCpu - 1) * LongestSlice

\* Every vcpu is a sequential process of its own: the time slices lose,
\* repeat and mix up nothing, and every running vcpu goes on (VCpus).
Processes == INSTANCE VCpus
ImplementsVCpus == Processes!Spec

(***************************************************************************)
(* The programs for which every step of the code is one of VCpus: they do  *)
(* not run past their end, do without INTR1 20 and the counted loops, which *)
(* leave ep behind, and push only if they start no vcpu, since the vcpus   *)
(* push into the same memory.                                              *)
(***************************************************************************)
Uses(p, ops) == \E i \in 1 .. Len(p) : p[i].op \in ops

Closed(p) == p[Len(p)].op \in {"jmp", "vexit", "threadexit", "exit"}

Independent(p) ==
    /\ Closed(p)
    /\ ~Uses(p, {"stop", "loop"})
    /\ Uses(p, {"push", "pop"}) => ~Uses(p, {"run"})

\* The vcpus stay in the code, and the only one that may push finds in its
\* part of the memory what it pushed.
ProcessInv ==
    Independent(prog) =>
       /\ \A v \in Vcpus : ep[v] <= Len(prog)
       /\ Uses(prog, {"push", "pop"}) =>
             /\ cpuc = 0
             /\ \A v \in Vcpus \ {0} : status[v] = "STOP"
             /\ Len(stack[0]) = sp[0]
             /\ \A i \in 1 .. sp[0] : stack[0][i] = cells[i]
=============================================================================
