------------------------------- MODULE VCpus -------------------------------
(***************************************************************************)
(* What the virtual cores of L1VMS promise the bytecode: every vcpu is a   *)
(* sequential process of its own, with its own place in the code, register *)
(* and stack, and every vcpu that can go on does.  Nothing is said of time *)
(* slices: that is the business of VCpuScheduler, which implements this.   *)
(***************************************************************************)
EXTENDS Integers, Sequences

CONSTANTS
    MaxVirtCpu,  \* max_virtcpu
    Programs,    \* code blocks: sequences of [op, arg]
    Limit,       \* the limit register of a counted loop
    None         \* nobody

Vcpus == 0 .. MaxVirtCpu - 1

VARIABLES
    prog,    \* the code block
    status,  \* of each vcpu: "RUNNING" or "STOP"
    ep,      \* its place in the code
    reg,     \* its register
    count,   \* its loop counter
    stack,   \* its stack
    mutex,   \* owner of data_mutex
    ended    \* "no", or how the POSIX thread ended

vars == <<prog, status, ep, reg, count, stack, mutex, ended>>

At(v, op) ==
    /\ ended = "no"
    /\ status[v] = "RUNNING"
    /\ ep[v] <= Len(prog)
    /\ prog[ep[v]].op = op

Arg(v) == prog[ep[v]].arg

Goto(v, e) == ep' = [ep EXCEPT ![v] = e]
Next1(v) == Goto(v, ep[v] + 1)

Init ==
    /\ prog \in Programs
    /\ status = [v \in Vcpus |-> IF v = 0 THEN "RUNNING" ELSE "STOP"]
    /\ ep = [v \in Vcpus |-> 1]
    /\ reg = [v \in Vcpus |-> 0]
    /\ count = [v \in Vcpus |-> 0]
    /\ stack = [v \in Vcpus |-> << >>]
    /\ mutex = None
    /\ ended = "no"

Work(v) ==
    /\ At(v, "work")
    /\ Next1(v)
    /\ UNCHANGED <<prog, status, reg, count, stack, mutex, ended>>

Jump(v) ==
    /\ \/ At(v, "jmp") /\ Goto(v, Arg(v))
       \/ At(v, "jmpi") /\ reg[v] # 0 /\ Goto(v, Arg(v))
       \/ At(v, "jmpi") /\ reg[v] = 0 /\ Next1(v)
    /\ UNCHANGED <<prog, status, reg, count, stack, mutex, ended>>

\* The counted loop: back to the label until the counter reaches the limit.
Loop(v) ==
    /\ At(v, "loop")
    /\ count' = [count EXCEPT ![v] = IF @ < Limit THEN @ + 1 ELSE @]
    /\ IF count[v] + 1 < Limit THEN Goto(v, Arg(v)) ELSE Next1(v)
    /\ UNCHANGED <<prog, status, reg, stack, mutex, ended>>

Push(v) ==
    /\ At(v, "push")
    /\ stack' = [stack EXCEPT ![v] = Append(@, Arg(v))]
    /\ Next1(v)
    /\ UNCHANGED <<prog, status, reg, count, mutex, ended>>

Pop(v) ==
    /\ At(v, "pop")
    /\ stack[v] # << >>
    /\ reg' = [reg EXCEPT ![v] = stack[v][Len(stack[v])]]
    /\ stack' = [stack EXCEPT ![v] = SubSeq(@, 1, Len(@) - 1)]
    /\ Next1(v)
    /\ UNCHANGED <<prog, status, count, mutex, ended>>

\* A new process begins at Arg(v) with a copy of the stack of its starter.
Run(v) ==
    /\ At(v, "run")
    /\ \E w \in Vcpus \ {0} :
          /\ status[w] = "STOP"
          /\ status' = [status EXCEPT ![w] = "RUNNING"]
          /\ ep' = [ep EXCEPT ![w] = Arg(v), ![v] = @ + 1]
          /\ stack' = [stack EXCEPT ![w] = stack[v]]
          /\ reg' = [reg EXCEPT ![v] = w]
    /\ UNCHANGED <<prog, count, mutex, ended>>

Stop(v) ==
    /\ At(v, "stop")
    /\ status' = [status EXCEPT ![Arg(v)] = "STOP"]
    /\ Next1(v)
    /\ UNCHANGED <<prog, reg, count, stack, mutex, ended>>

Exit(v) ==
    /\ At(v, "vexit")
    /\ status' = [status EXCEPT ![v] = "STOP"]
    /\ UNCHANGED <<prog, ep, reg, count, stack, mutex, ended>>

\* join and the number of free vcpus: what the register says is what is so.
Ask(v) ==
    /\ \/ /\ At(v, "join")
          /\ reg' = [reg EXCEPT ![v] =
                IF \E w \in Vcpus \ {0, v} : status[w] = "RUNNING" THEN 1 ELSE 0]
       \/ /\ At(v, "free")
          /\ \E n \in 0 .. MaxVirtCpu :
                /\ n > 0 => \E w \in Vcpus : status[w] = "STOP"
                /\ reg' = [reg EXCEPT ![v] = n]
    /\ Next1(v)
    /\ UNCHANGED <<prog, status, count, stack, mutex, ended>>

Lock(v) ==
    /\ At(v, "lock")
    /\ mutex = None
    /\ mutex' = v
    /\ Next1(v)
    /\ UNCHANGED <<prog, status, reg, count, stack, ended>>

Unlock(v) ==
    /\ At(v, "unlock")
    /\ mutex' = None
    /\ Next1(v)
    /\ UNCHANGED <<prog, status, reg, count, stack, ended>>

\* A slice length is no business of the processes.
SetMax(v) ==
    /\ At(v, "max")
    /\ Next1(v)
    /\ UNCHANGED <<prog, status, reg, count, stack, mutex, ended>>

\* Any vcpu may end the POSIX thread, or make an error that does.
End(v) ==
    /\ status[v] = "RUNNING"
    /\ ended = "no"
    /\ ended' \in {"process", "thread", "fatal"}
    /\ UNCHANGED <<prog, status, ep, reg, count, stack, mutex>>

Proceed(v) ==
    \/ Work(v) \/ Jump(v) \/ Loop(v) \/ Push(v) \/ Pop(v) \/ Run(v)
    \/ Stop(v) \/ Exit(v) \/ Ask(v) \/ Lock(v) \/ Unlock(v) \/ SetMax(v)

Next == \E v \in Vcpus : Proceed(v) \/ End(v)

Fairness == \A v \in Vcpus : WF_vars(Proceed(v))

Spec == Init /\ [][Next]_vars /\ Fairness
=============================================================================
