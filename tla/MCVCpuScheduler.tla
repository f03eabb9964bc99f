-------------------------- MODULE MCVCpuScheduler --------------------------
(***************************************************************************)
(* Instances of VCpuScheduler: every program of a given length over some   *)
(* of the instructions, and a few longer ones.                             *)
(***************************************************************************)
EXTENDS VCpuScheduler

\* Every sequence of n instructions over ops.
Over(ops, n) ==
    [1 .. n -> UNION {{[op |-> o, arg |-> a] : a \in ArgsOf(o, n)} : o \in ops}]

I(o, a) == [op |-> o, arg |-> a]

\* l1vm/prog/hello-sched.l1com: an argument for each of two vcpus, then a
\* loop on join.
HelloSched ==
    <<I("push", 0), I("run", 8), I("push", 1), I("run", 8),
      I("join", 0), I("jmpi", 5), I("exit", 0),
      I("pop", 0), I("work", 0), I("vexit", 0)>>

\* A vcpu that starts another, and a change of the slice.
Nested ==
    <<I("max", 3), I("run", 5), I("join", 0), I("jmpi", 3),
      I("run", 7), I("vexit", 0), I("max", 1), I("free", 0), I("jmpi", 8),
      I("vexit", 0)>>

Demos == {HelloSched, Nested}

Anything ==
    Over(Ops, 3) \cup Demos
       \cup Over({"jmp", "run", "vexit", "stop"}, 4)

Threads == {p \in Over({"work", "jmp", "jmpi", "run", "vexit", "join",
                        "max", "exit"}, 4) : Closed(p)} \cup Demos

Loops == {p \in Over({"loop", "work", "jmp"}, 3) : Closed(p)}
=============================================================================
