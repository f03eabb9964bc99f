----------------------- MODULE VCpuScheduler_proofs -----------------------
(***************************************************************************)
(* Proofs about VCpuScheduler for every program, number of vcpus and       *)
(* length of a slice.                                                      *)
(***************************************************************************)
EXTENDS VCpuScheduler, TLAPS, SequenceTheorems, FiniteSetTheorems

LEMMA Sizes ==
  /\ MaxVirtCpu \in Nat \ {0} /\ Vcpus \subseteq Nat /\ 0 \in Vcpus
  /\ SchedulerMax \in Nat /\ LongestSlice \in Nat /\ SchedulerMin \in Nat
  /\ SchedulerMax \in 1 .. LongestSlice
  BY ConstantsAssumption DEF Vcpus

LEMMA SliceLength == TypeOK => slice \in 1 .. LongestSlice
<1>1. SchedulerMax \in 1 .. LongestSlice /\ SchedulerMin \in 1 .. LongestSlice
  BY ConstantsAssumption
<1>2. \A n \in SchedulerMin .. LongestSlice : n \in 1 .. LongestSlice
  BY <1>1, Sizes
<1> QED
  BY <1>1, <1>2 DEF TypeOK

\* The search of task_scheduler finds a running vcpu if there is another one.
LEMMA NextVcpuRuns ==
  ASSUME NEW st, NEW c \in Vcpus, NEW n \in NextVcpu(st, c)
  PROVE  /\ n \in Vcpus
         /\ \/ st[n] = "RUNNING"
            \/ n = c /\ Running(st) \subseteq {c}
<1>1. CASE RunningAfter(st, c) = {}
  <2>1. ASSUME NEW v \in Vcpus, v # c
        PROVE  \E k \in 1 .. MaxVirtCpu - 1 : After(c, k) = v
    <3>1. CASE v > c
      <4>1. v - c \in 1 .. MaxVirtCpu - 1 /\ After(c, v - c) = v
        BY <3>1, Sizes DEF After, Vcpus
      <4> QED
        BY <4>1
    <3>2. CASE v < c
      <4>1. v - c + MaxVirtCpu \in 1 .. MaxVirtCpu - 1
        BY <3>2, Sizes DEF Vcpus
      <4>2. After(c, v - c + MaxVirtCpu) = v
        BY <3>2, Sizes DEF After, Vcpus
      <4> QED
        BY <4>1, <4>2
    <3> QED
      BY <2>1, <3>1, <3>2, Sizes
  <2>2. Running(st) \subseteq {c}
    BY <1>1, <2>1 DEF RunningAfter, Running
  <2> QED
    BY <1>1, <2>2 DEF NextVcpu
<1>2. CASE RunningAfter(st, c) # {}
  <2>1. PICK k \in RunningAfter(st, c) : n = After(c, k)
    BY <1>2 DEF NextVcpu
  <2>2. k \in 1 .. MaxVirtCpu - 1 /\ st[After(c, k)] = "RUNNING"
    BY DEF RunningAfter
  <2>3. c + k \in Nat
    BY <2>2, Sizes
  <2>4. After(c, k) \in Vcpus
    BY <2>3, Sizes DEF After, Vcpus
  <2> QED
    BY <2>1, <2>2, <2>4
<1> QED
  BY <1>1, <1>2

\* The operand of the instruction that is executed is one its opcode allows.
LEMMA Operand ==
  ASSUME TypeOK, NEW op, At(op)
  PROVE  /\ ep[cpuc] \in 1 .. Len(prog)
         /\ Arg \in ArgsOf(op, Len(prog))
         /\ Arg \in Int
         /\ Len(prog) \in Nat
<1>1. IsProgram(prog)
  BY ConstantsAssumption DEF TypeOK
<1>2. prog \in Seq(Instructions(Len(prog))) /\ Len(prog) \in Nat
  BY <1>1, LenProperties DEF IsProgram
<1>3. ep[cpuc] \in 1 .. Len(prog)
  BY <1>2 DEF TypeOK, At
<1>4. prog[ep[cpuc]] \in Instructions(Len(prog))
  BY <1>2, <1>3, ElementOfSeq
<1> QED
  BY <1>1, <1>2, <1>3, <1>4 DEF IsProgram, At, Arg, Instructions

(***************************************************************************)
(* What SCHEXE_NEXT and task_scheduler do after an instruction that leaves *)
(* st, cd and eps.                                                         *)
(***************************************************************************)
LEMMA FetchTypes ==
  ASSUME TypeOK,
         NEW st \in [Vcpus -> {"RUNNING", "STOP"}],
         NEW cd \in [Vcpus -> OFF .. LongestSlice],
         NEW eps \in [Vcpus -> 1 .. Len(prog) + 1],
         slice' \in 1 .. LongestSlice, prog' = prog,
         Fetch(st, cd, eps)
  PROVE  /\ cpuc' \in Vcpus
         /\ status' \in [Vcpus -> {"RUNNING", "STOP"}]
         /\ scheduler' \in [Vcpus -> OFF .. LongestSlice]
         /\ ep' \in [Vcpus -> 1 .. Len(prog') + 1]
         /\ waited' \in [Vcpus -> Nat]
<1> DEFINE over == cd[cpuc] # OFF /\ PastEnd(eps[cpuc])
           st1 == IF over THEN [st EXCEPT ![cpuc] = "STOP"] ELSE st
           left == IF st1[cpuc] = "RUNNING" THEN cd[cpuc] - 1 ELSE 0
<1>1. cpuc \in Vcpus /\ waited \in [Vcpus -> Nat]
  BY DEF TypeOK
<1>2. st1 \in [Vcpus -> {"RUNNING", "STOP"}]
  BY <1>1
<1>3. status' = st1 /\ ep' = eps
  BY DEF Fetch
<1>4. waited' \in [Vcpus -> Nat]
  BY <1>1 DEF Fetch
<1>5. cpuc' = cpuc \/ cpuc' \in NextVcpu(st1, cpuc)
  BY DEF Fetch
<1>6. cpuc' \in Vcpus
  BY <1>1, <1>5, NextVcpuRuns
<1>7. scheduler' \in [Vcpus -> OFF .. LongestSlice]
  <2>1. CASE scheduler' = cd
    BY <2>1
  <2>2. CASE left > 0 /\ scheduler' = [cd EXCEPT ![cpuc] = left]
    <3>1. left \in 1 .. LongestSlice
      BY <2>2, <1>1, Sizes DEF OFF
    <3> QED
      BY <2>2, <3>1, <1>1 DEF OFF
  <2>3. CASE scheduler' = [cd EXCEPT ![cpuc] = slice']
    BY <2>3, <1>1, Sizes DEF OFF
  <2> QED
    BY <2>1, <2>2, <2>3 DEF Fetch
<1> QED
  BY <1>2, <1>3, <1>4, <1>6, <1>7

\* The control part of the invariant after any instruction.
LEMMA FetchControl ==
  ASSUME TypeOK,
         NEW st \in [Vcpus -> {"RUNNING", "STOP"}],
         NEW cd \in [Vcpus -> OFF .. LongestSlice],
         NEW eps \in [Vcpus -> 1 .. Len(prog) + 1],
         Len(prog) \in Nat,
         slice' \in 1 .. LongestSlice, prog' = prog,
         Fetch(st, cd, eps),
         \A v \in Vcpus : cd[v] = OFF => v = cpuc /\ Running(st) \subseteq {v},
         \A v \in Vcpus \ {cpuc} : eps[v] > Len(prog) => st[v] = "STOP",
         \A v \in Vcpus \ jumpoffs' : st[v] = "RUNNING" =>
             eps[v] <= Len(prog) /\ prog[eps[v]].op = "stop",
         st[cpuc] = "STOP" =>
             eps[cpuc] > Len(prog) \/ prog[eps[cpuc]].op \in {"vexit", "stop"}
  PROVE  /\ CurrentRuns' /\ OffAlone' /\ PastEndStopped'
         /\ RunningHasTable' /\ StoppedStays'
<1> DEFINE over == cd[cpuc] # OFF /\ PastEnd(eps[cpuc])
           st1 == IF over THEN [st EXCEPT ![cpuc] = "STOP"] ELSE st
           left == IF st1[cpuc] = "RUNNING" THEN cd[cpuc] - 1 ELSE 0
<1>1. cpuc \in Vcpus /\ eps[cpuc] \in Int
  BY DEF TypeOK
<1>2. /\ status' = st1 /\ ep' = eps
      /\ st1 \in [Vcpus -> {"RUNNING", "STOP"}]
      /\ over <=> cd[cpuc] # OFF /\ eps[cpuc] > Len(prog)
  BY <1>1 DEF Fetch, PastEnd
<1>3. /\ \A v \in Vcpus : st1[v] = "RUNNING" => st[v] = "RUNNING"
      /\ \A v \in Vcpus \ {cpuc} : st1[v] = st[v]
      /\ ~over => st1 = st
      /\ over => st1[cpuc] = "STOP"
      /\ Running(st1) \subseteq Running(st)
  BY <1>1, <1>2 DEF Running
<1> HIDE DEF over, st1, left
<1>4. \/ cd[cpuc] = OFF /\ cpuc' = cpuc /\ scheduler' = cd
      \/ /\ cd[cpuc] # OFF /\ st1[cpuc] = "RUNNING" /\ cpuc' = cpuc
         /\ scheduler' = [cd EXCEPT ![cpuc] = left]
         /\ left > 0
      \/ /\ cd[cpuc] # OFF /\ scheduler' = [cd EXCEPT ![cpuc] = slice']
         /\ cpuc' \in NextVcpu(st1, cpuc)
  BY DEF Fetch, over, st1, left
<1>5. CurrentRuns'
  <2>1. CASE cd[cpuc] = OFF /\ cpuc' = cpuc
    BY <2>1, <1>1, <1>2, <1>3 DEF CurrentRuns, Running
  <2>2. CASE st1[cpuc] = "RUNNING" /\ cpuc' = cpuc
    BY <2>2, <1>2 DEF CurrentRuns
  <2>3. CASE cpuc' \in NextVcpu(st1, cpuc)
    BY <2>3, <1>1, <1>2, NextVcpuRuns DEF CurrentRuns, Running
  <2> QED
    BY <2>1, <2>2, <2>3, <1>4
<1>6. OffAlone'
  <2>1. CASE cd[cpuc] = OFF /\ cpuc' = cpuc /\ scheduler' = cd
    BY <2>1, <1>1, <1>2, <1>3 DEF OffAlone, Running
  <2>2. CASE \E n \in Int : n > 0 /\ scheduler' = [cd EXCEPT ![cpuc] = n]
    BY <2>2, <1>1 DEF OffAlone, OFF
  <2>3. left > 0 /\ st1[cpuc] = "RUNNING" => left \in Int
    BY <1>1, Sizes DEF left, OFF
  <2>4. slice' \in Int /\ slice' > 0
    BY Sizes
  <2> QED
    BY <2>1, <2>2, <2>3, <2>4, <1>4
<1>7. PastEndStopped'
  <2> SUFFICES ASSUME NEW v \in Vcpus, eps[v] > Len(prog)
               PROVE  st1[v] = "STOP" \/ scheduler'[v] = OFF
    BY <1>2 DEF PastEndStopped
  <2>1. CASE v # cpuc
    BY <2>1, <1>3
  <2>2. CASE v = cpuc
    BY <2>2, <1>2, <1>3, <1>4
  <2> QED
    BY <2>1, <2>2
<1>8. RunningHasTable'
  BY <1>2, <1>3 DEF RunningHasTable, OpOf
<1>9. StoppedStays'
  <2> SUFFICES ASSUME st1[cpuc'] = "STOP"
               PROVE  \/ eps[cpuc'] > Len(prog)
                      \/ prog[eps[cpuc']].op \in {"vexit", "stop"}
    BY <1>2 DEF StoppedStays, OpOf
  <2>1. cpuc' = cpuc
    BY <1>1, <1>4, NextVcpuRuns
  <2>2. over \/ st[cpuc] = "STOP"
    BY <2>1, <1>1, <1>3
  <2> QED
    BY <2>1, <2>2, <1>2
<1> QED
  BY <1>5, <1>6, <1>7, <1>8, <1>9

\* An instruction other than stop and vexit is executed by a running vcpu
\* that has a jump table.
LEMMA Executing ==
  ASSUME SchedulerInv, NEW op, At(op), op \notin {"stop", "vexit"}
  PROVE  status[cpuc] = "RUNNING" /\ cpuc \in jumpoffs
<1>1. ep[cpuc] \in 1 .. Len(prog) /\ Len(prog) \in Nat /\ cpuc \in Vcpus
      /\ status[cpuc] \in {"RUNNING", "STOP"}
  BY Operand DEF SchedulerInv, TypeOK
<1>2. OpOf(cpuc) = op
  BY DEF At, OpOf
<1> QED
  BY <1>1, <1>2 DEF SchedulerInv, StoppedStays, RunningHasTable

\* What stays true of the other vcpus.
LEMMA OtherVcpus ==
  ASSUME SchedulerInv
  PROVE  /\ \A v \in Vcpus \ {cpuc} : ep[v] > Len(prog) => status[v] = "STOP"
         /\ \A v \in Vcpus : scheduler[v] = OFF
               => v = cpuc /\ Running(status) \subseteq {v}
  BY DEF SchedulerInv, PastEndStopped, OffAlone

\* An instruction that only moves the execution pointer of its vcpu.
LEMMA GoOnControl ==
  ASSUME SchedulerInv, NEW op, At(op), op \notin {"stop", "vexit"},
         NEW e \in 1 .. Len(prog) + 1, GoOn([ep EXCEPT ![cpuc] = e]),
         slice' \in 1 .. LongestSlice, jumpoffs' = jumpoffs
  PROVE  /\ CurrentRuns' /\ OffAlone' /\ PastEndStopped'
         /\ RunningHasTable' /\ StoppedStays'
         /\ cpuc' \in Vcpus
         /\ status' \in [Vcpus -> {"RUNNING", "STOP"}]
         /\ scheduler' \in [Vcpus -> OFF .. LongestSlice]
         /\ ep' \in [Vcpus -> 1 .. Len(prog') + 1]
         /\ waited' \in [Vcpus -> Nat]
<1> DEFINE eps == [ep EXCEPT ![cpuc] = e]
<1>1. /\ TypeOK /\ cpuc \in Vcpus
      /\ status \in [Vcpus -> {"RUNNING", "STOP"}]
      /\ scheduler \in [Vcpus -> OFF .. LongestSlice]
      /\ ep \in [Vcpus -> 1 .. Len(prog) + 1]
      /\ Len(prog) \in Nat
  BY Operand DEF SchedulerInv, TypeOK
<1>2. eps \in [Vcpus -> 1 .. Len(prog) + 1]
      /\ \A v \in Vcpus \ {cpuc} : eps[v] = ep[v]
  BY <1>1
<1>3. status[cpuc] = "RUNNING" /\ cpuc \in jumpoffs
  BY Executing
<1>4. Fetch(status, scheduler, eps) /\ prog' = prog
  BY DEF GoOn
<1> HIDE DEF eps
<1>5. \A v \in Vcpus \ jumpoffs' : status[v] = "RUNNING" =>
         eps[v] <= Len(prog) /\ prog[eps[v]].op = "stop"
  BY <1>2, <1>3 DEF SchedulerInv, RunningHasTable, OpOf
<1>6. \A v \in Vcpus \ {cpuc} : eps[v] > Len(prog) => status[v] = "STOP"
  BY <1>2, OtherVcpus
<1> QED
  BY <1>1, <1>2, <1>3, <1>4, <1>5, <1>6, OtherVcpus, FetchTypes, FetchControl
LEMMA InitInv == Init => SchedulerInv
<1> SUFFICES ASSUME Init PROVE SchedulerInv
  OBVIOUS
<1> USE DEF Init, ThreadInit
<1>1. IsProgram(prog)
  BY ConstantsAssumption
<1>2. Len(prog) \in Nat /\ Len(prog) > 0
  BY <1>1, LenProperties DEF IsProgram
<1>3. TypeOK
  BY <1>2, Sizes, ConstantsAssumption DEF TypeOK, OFF
<1>4. Running(status) = {0}
  BY Sizes DEF Running
<1>5. CurrentRuns /\ OffAlone /\ RunningHasTable /\ StoppedStays
  BY <1>4, Sizes DEF CurrentRuns, OffAlone, RunningHasTable, StoppedStays, OFF
<1>6. PastEndStopped
  BY <1>2 DEF PastEndStopped
<1> QED
  BY <1>3, <1>5, <1>6 DEF SchedulerInv

\* The three instructions that end with a change of a status.
LEMMA RunInv == SchedulerInv /\ Run => SchedulerInv'
<1> SUFFICES ASSUME SchedulerInv, Run PROVE SchedulerInv'
  OBVIOUS
<1>1. TypeOK /\ At("run")
  BY DEF SchedulerInv, Run
<1>2. /\ ep[cpuc] \in 1 .. Len(prog) /\ Len(prog) \in Nat
      /\ Arg \in 1 .. Len(prog)
  BY <1>1, Operand DEF ArgsOf, Run
<1>3. PICK w \in FreeVcpus \ {0} :
         /\ sp' = [sp EXCEPT ![w] = sp[cpuc]]
         /\ stack' = [stack EXCEPT ![w] = stack[cpuc]]
         /\ jumpoffs' = jumpoffs \cup {w}
         /\ Set(w)
         /\ UNCHANGED <<prog, count, cells, slice, mutex, ended>>
         /\ Fetch([status EXCEPT ![w] = "RUNNING"], Slices(w),
                  [Skip EXCEPT ![w] = Arg])
  BY DEF Run
<1> DEFINE st == [status EXCEPT ![w] = "RUNNING"]
           cd == Slices(w)
           eps == [Skip EXCEPT ![w] = Arg]
<1>4. status[cpuc] = "RUNNING" /\ cpuc \in jumpoffs
  BY <1>1, Executing
<1>5. /\ w \in Vcpus /\ w # cpuc /\ cpuc \in Vcpus /\ w \in Int
  BY <1>1, <1>4, Sizes DEF FreeVcpus, TypeOK
<1>6. /\ st \in [Vcpus -> {"RUNNING", "STOP"}]
      /\ cd \in [Vcpus -> OFF .. LongestSlice]
      /\ eps \in [Vcpus -> 1 .. Len(prog) + 1]
      /\ slice' \in 1 .. LongestSlice
  <2>1. st \in [Vcpus -> {"RUNNING", "STOP"}]
    BY <1>1, <1>5 DEF TypeOK
  <2>2. 0 \in OFF .. LongestSlice /\ SchedulerMax \in OFF .. LongestSlice
    BY Sizes DEF OFF
  <2>3. cd \in [Vcpus -> OFF .. LongestSlice]
    BY <1>1, <1>5, <2>2 DEF TypeOK, Slices
  <2>4. ep[cpuc] + 1 \in 1 .. Len(prog) + 1 /\ Arg \in 1 .. Len(prog) + 1
    BY <1>2
  <2>5. eps \in [Vcpus -> 1 .. Len(prog) + 1]
    BY <1>1, <1>5, <2>4 DEF TypeOK, Skip, To
  <2>6. slice' \in 1 .. LongestSlice
    BY <1>1, <1>3, SliceLength
  <2> QED
    BY <2>1, <2>3, <2>5, <2>6
<1>7. /\ \A v \in Vcpus \ {w} : st[v] = status[v]
      /\ \A v \in Vcpus \ {w, cpuc} : eps[v] = ep[v] /\ cd[v] = scheduler[v]
      /\ cd[cpuc] = 0 /\ cd[w] = SchedulerMax /\ eps[w] = Arg
  BY <1>1, <1>5 DEF TypeOK, Slices, Skip, To
<1> HIDE DEF st, cd, eps
<1>8. \A v \in Vcpus : cd[v] # OFF
  BY <1>5, <1>7, Sizes, OtherVcpus DEF OFF
<1>9. \A v \in Vcpus \ {cpuc} : eps[v] > Len(prog) => st[v] = "STOP"
  BY <1>2, <1>7, OtherVcpus
<1>10. \A v \in Vcpus \ jumpoffs' : st[v] = "RUNNING" =>
          eps[v] <= Len(prog) /\ prog[eps[v]].op = "stop"
  BY <1>3, <1>4, <1>7 DEF SchedulerInv, RunningHasTable, OpOf
<1>11. st[cpuc] = "RUNNING" /\ Fetch(st, cd, eps) /\ prog' = prog
  BY <1>3, <1>4, <1>5, <1>7 DEF st, cd, eps
<1>12. /\ CurrentRuns' /\ OffAlone' /\ PastEndStopped'
       /\ RunningHasTable' /\ StoppedStays'
       /\ cpuc' \in Vcpus
       /\ status' \in [Vcpus -> {"RUNNING", "STOP"}]
       /\ scheduler' \in [Vcpus -> OFF .. LongestSlice]
       /\ ep' \in [Vcpus -> 1 .. Len(prog') + 1]
       /\ waited' \in [Vcpus -> Nat]
  BY <1>1, <1>2, <1>6, <1>8, <1>9, <1>10, <1>11, FetchTypes, FetchControl
<1>13. TypeOK'
  BY <1>1, <1>3, <1>5, <1>12 DEF TypeOK, Set
<1> QED
  BY <1>12, <1>13 DEF SchedulerInv

LEMMA StopInv == SchedulerInv /\ (Stop \/ Exit) => SchedulerInv'
<1> SUFFICES ASSUME SchedulerInv, Stop \/ Exit PROVE SchedulerInv'
  OBVIOUS
<1>1. PICK x \in Vcpus, op \in {"stop", "vexit"} :
         /\ At(op)
         /\ jumpoffs' = jumpoffs \ {cpuc}
         /\ UNCHANGED <<prog, reg, count, sp, cells, slice, mutex, stack, ended>>
         /\ Fetch([status EXCEPT ![x] = "STOP"], scheduler, ep)
         /\ op = "vexit" => x = cpuc
  <2>1. CASE Stop
    <3>1. Arg \in Vcpus
      BY <2>1, Operand DEF Stop, ArgsOf, SchedulerInv
    <3> QED
      BY <2>1, <3>1 DEF Stop, AfterStop
  <2>2. CASE Exit
    BY <2>2 DEF Exit, SchedulerInv, TypeOK
  <2> QED
    BY <2>1, <2>2
<1> DEFINE st == [status EXCEPT ![x] = "STOP"]
<1>2. /\ TypeOK /\ cpuc \in Vcpus /\ Len(prog) \in Nat
      /\ ep[cpuc] \in 1 .. Len(prog)
      /\ prog[ep[cpuc]].op = op
      /\ status \in [Vcpus -> {"RUNNING", "STOP"}]
      /\ ep \in [Vcpus -> 1 .. Len(prog) + 1]
      /\ scheduler \in [Vcpus -> OFF .. LongestSlice]
  BY <1>1, Operand DEF SchedulerInv, TypeOK, At
<1>3. slice' \in 1 .. LongestSlice
  BY <1>1, <1>2, SliceLength
<1>4. /\ st \in [Vcpus -> {"RUNNING", "STOP"}]
      /\ \A v \in Vcpus : st[v] = "RUNNING" => status[v] = "RUNNING" /\ v # x
      /\ Running(st) \subseteq Running(status)
  BY <1>2 DEF Running
<1>5. Fetch(st, scheduler, ep) /\ prog' = prog
  BY <1>1
<1> HIDE DEF st
<1>6. \A v \in Vcpus : scheduler[v] = OFF => v = cpuc /\ Running(st) \subseteq {v}
  BY <1>4, OtherVcpus
<1>7. \A v \in Vcpus \ {cpuc} : ep[v] > Len(prog) => st[v] = "STOP"
  BY <1>4, OtherVcpus
<1>8. \A v \in Vcpus \ jumpoffs' : st[v] = "RUNNING" =>
         ep[v] <= Len(prog) /\ prog[ep[v]].op = "stop"
  <2> SUFFICES ASSUME NEW v \in Vcpus \ jumpoffs', st[v] = "RUNNING"
               PROVE  ep[v] <= Len(prog) /\ prog[ep[v]].op = "stop"
    OBVIOUS
  <2>1. CASE v = cpuc
    <3>1. op = "stop"
      BY <2>1, <1>1, <1>4
    <3> QED
      BY <2>1, <3>1, <1>2
  <2>2. CASE v # cpuc
    BY <2>2, <1>1, <1>4 DEF SchedulerInv, RunningHasTable, OpOf
  <2> QED
    BY <2>1, <2>2
<1>9. /\ CurrentRuns' /\ OffAlone' /\ PastEndStopped'
      /\ RunningHasTable' /\ StoppedStays'
      /\ cpuc' \in Vcpus
      /\ status' \in [Vcpus -> {"RUNNING", "STOP"}]
      /\ scheduler' \in [Vcpus -> OFF .. LongestSlice]
      /\ ep' \in [Vcpus -> 1 .. Len(prog') + 1]
      /\ waited' \in [Vcpus -> Nat]
  BY <1>2, <1>3, <1>4, <1>5, <1>6, <1>7, <1>8, FetchTypes, FetchControl
<1>10. TypeOK'
  BY <1>1, <1>2, <1>9 DEF TypeOK
<1> QED
  BY <1>9, <1>10 DEF SchedulerInv
(***************************************************************************)
(* One step per instruction.                                               *)
(***************************************************************************)
LEMMA InvStep == SchedulerInv /\ [Next]_vars => SchedulerInv'
<1> SUFFICES ASSUME SchedulerInv, [Next]_vars PROVE SchedulerInv'
  OBVIOUS
<1>0. /\ TypeOK /\ cpuc \in Vcpus /\ slice \in 1 .. LongestSlice
      /\ reg \in [Vcpus -> Int] /\ sp \in [Vcpus -> 0 .. StackSize]
      /\ stack \in [Vcpus -> Seq(Int)] /\ StackSize \in Nat
  BY SliceLength, ConstantsAssumption DEF SchedulerInv, TypeOK
<1>a. ASSUME NEW op, At(op)
      PROVE  /\ ep[cpuc] + 1 \in 1 .. Len(prog) + 1
             /\ ep[cpuc] \in 1 .. Len(prog) + 1
             /\ Arg \in ArgsOf(op, Len(prog)) /\ Arg \in Int
             /\ Arg \in 1 .. Len(prog) => Arg \in 1 .. Len(prog) + 1
  BY <1>0, <1>a, Operand
<1>1. CASE Work
  <2>1. At("work") /\ GoOn(Skip) /\ UNCHANGED <<reg, count, machineVars, stack>>
    BY <1>1 DEF Work
  <2>2. TypeOK' /\ SchedulerInv'
    BY <2>1, <1>0, <1>a, GoOnControl
       DEF Skip, To, GoOn, machineVars, TypeOK, SchedulerInv
  <2> QED
    BY <2>2
<1>2. CASE Jmp
  <2>1. At("jmp") /\ GoOn(To(Arg)) /\ UNCHANGED <<reg, count, machineVars, stack>>
    BY <1>2 DEF Jmp
  <2>2. Arg \in 1 .. Len(prog) + 1
    BY <2>1, <1>a DEF ArgsOf
  <2> QED
    BY <2>1, <2>2, <1>0, GoOnControl
       DEF To, GoOn, machineVars, TypeOK, SchedulerInv
<1>3. CASE Jmpi
  <2>1. /\ At("jmpi") /\ UNCHANGED <<reg, count, machineVars, stack>>
        /\ GoOn(To(Arg)) \/ GoOn(Skip)
    BY <1>3 DEF Jmpi
  <2>2. Arg \in 1 .. Len(prog) + 1 /\ ep[cpuc] + 1 \in 1 .. Len(prog) + 1
    BY <2>1, <1>a DEF ArgsOf
  <2> QED
    BY <2>1, <2>2, <1>0, GoOnControl
       DEF To, Skip, GoOn, machineVars, TypeOK, SchedulerInv
<1>4. CASE CountedLoop
  <2>1. /\ At("loop") /\ UNCHANGED <<reg, machineVars, stack>>
        /\ GoOn(ep) \/ GoOn(Skip)
        /\ count' = [count EXCEPT ![cpuc] = IF @ < Limit THEN @ + 1 ELSE @]
    BY <1>4 DEF CountedLoop
  <2>2. ep[cpuc] + 1 \in 1 .. Len(prog) + 1 /\ ep[cpuc] \in 1 .. Len(prog) + 1
        /\ ep = [ep EXCEPT ![cpuc] = ep[cpuc]]
    BY <2>1, <1>0, <1>a DEF TypeOK
  <2>3. count' \in [Vcpus -> 0 .. Limit]
    <3>1. count \in [Vcpus -> 0 .. Limit] /\ Limit \in Nat
      BY <1>0, ConstantsAssumption DEF TypeOK
    <3>2. count[cpuc] < Limit => count[cpuc] + 1 \in 0 .. Limit
      BY <3>1, <1>0
    <3> QED
      BY <2>1, <3>1, <3>2, <1>0
  <2>4. \E e \in 1 .. Len(prog) + 1 : GoOn([ep EXCEPT ![cpuc] = e])
    BY <2>1, <2>2 DEF Skip, To
  <2> QED
    BY <2>1, <2>3, <2>4, <1>0, GoOnControl
       DEF GoOn, machineVars, TypeOK, SchedulerInv
<1>5. CASE Push
  <2>1. /\ At("push") /\ GoOn(Skip) /\ sp[cpuc] < StackSize
        /\ sp' = [sp EXCEPT ![cpuc] = @ + 1]
        /\ cells' = [cells EXCEPT ![sp[cpuc] + 1] = Arg]
        /\ stack' = [stack EXCEPT ![cpuc] = Append(@, Arg)]
        /\ UNCHANGED <<reg, count, jumpoffs, slice, mutex>>
    BY <1>5 DEF Push
  <2>2. Arg \in Int /\ ep[cpuc] + 1 \in 1 .. Len(prog) + 1
    BY <2>1, <1>a
  <2>3. sp[cpuc] + 1 \in 1 .. StackSize /\ sp[cpuc] + 1 \in 0 .. StackSize
    BY <2>1, <1>0
  <2>4. Append(stack[cpuc], Arg) \in Seq(Int)
    BY <2>2, <1>0, AppendProperties
  <2>5. /\ sp' \in [Vcpus -> 0 .. StackSize]
        /\ cells' \in [1 .. StackSize -> Int]
        /\ stack' \in [Vcpus -> Seq(Int)]
    BY <2>1, <2>2, <2>3, <2>4, <1>0 DEF TypeOK
  <2> QED
    BY <2>1, <2>2, <2>5, <1>0, GoOnControl
       DEF Skip, To, GoOn, TypeOK, SchedulerInv
<1>6. CASE Pop
  <2>1. /\ At("pop") /\ GoOn(Skip) /\ sp[cpuc] > 0
        /\ Set(cells[sp[cpuc]])
        /\ sp' = [sp EXCEPT ![cpuc] = @ - 1]
        /\ stack' = [stack EXCEPT ![cpuc] = SubSeq(@, 1, Len(@) - 1)]
        /\ UNCHANGED <<count, cells, jumpoffs, slice, mutex>>
    BY <1>6 DEF Pop
  <2>2. ep[cpuc] + 1 \in 1 .. Len(prog) + 1
    BY <2>1, <1>a
  <2>3. sp[cpuc] - 1 \in 0 .. StackSize /\ sp[cpuc] \in 1 .. StackSize
    BY <2>1, <1>0
  <2>4. cells[sp[cpuc]] \in Int
    BY <2>3, <1>0 DEF TypeOK
  <2> DEFINE s == stack[cpuc]
  <2>5. s \in Seq(Int) /\ Len(s) \in Nat
    BY <1>0, LenProperties
  <2>6. \A i \in 1 .. Len(s) - 1 : s[i] \in Int
    BY <2>5, ElementOfSeq
  <2>7. SubSeq(s, 1, Len(s) - 1) \in Seq(Int)
    <3> HIDE DEF s
    <3> QED
      BY <2>5, <2>6, SubSeqProperties
  <2>8. /\ sp' \in [Vcpus -> 0 .. StackSize]
        /\ reg' \in [Vcpus -> Int]
        /\ stack' \in [Vcpus -> Seq(Int)]
    BY <2>1, <2>3, <2>4, <2>7, <1>0 DEF TypeOK, Set
  <2> QED
    BY <2>1, <2>2, <2>8, <1>0, GoOnControl
       DEF Skip, To, GoOn, TypeOK, SchedulerInv
<1>7. CASE Run
  BY <1>7, RunInv
<1>8. CASE Stop \/ Exit
  BY <1>8, StopInv
<1>9. CASE Join
  <2>1. /\ At("join") /\ GoOn(Skip) /\ UNCHANGED <<count, machineVars, stack>>
        /\ Set(IF Others # {} THEN 1 ELSE 0)
    BY <1>9 DEF Join
  <2>2. ep[cpuc] + 1 \in 1 .. Len(prog) + 1 /\ reg' \in [Vcpus -> Int]
    BY <2>1, <1>0, <1>a DEF Set
  <2> QED
    BY <2>1, <2>2, <1>0, GoOnControl
       DEF Skip, To, GoOn, machineVars, TypeOK, SchedulerInv
<1>10. CASE CountFree
  <2>1. /\ At("free") /\ GoOn(Skip) /\ UNCHANGED <<count, machineVars, stack>>
        /\ Set(Cardinality(FreeVcpus))
    BY <1>10 DEF CountFree
  <2>2. IsFiniteSet(FreeVcpus)
    <3>1. IsFiniteSet(Vcpus)
      BY Sizes, FS_Interval DEF Vcpus
    <3> QED
      BY <3>1, FS_Subset DEF FreeVcpus
  <2>3. Cardinality(FreeVcpus) \in Int
    BY <2>2, FS_CardinalityType
  <2>4. ep[cpuc] + 1 \in 1 .. Len(prog) + 1 /\ reg' \in [Vcpus -> Int]
    BY <2>1, <2>3, <1>0, <1>a DEF Set
  <2> QED
    BY <2>1, <2>4, <1>0, GoOnControl
       DEF Skip, To, GoOn, machineVars, TypeOK, SchedulerInv
<1>11. CASE SetMax
  <2>1. /\ At("max") /\ GoOn(Skip) /\ slice' = NewSlice
        /\ UNCHANGED <<reg, count, sp, cells, jumpoffs, mutex, stack>>
    BY <1>11 DEF SetMax
  <2>2. ep[cpuc] + 1 \in 1 .. Len(prog) + 1 /\ Arg \in 1 .. LongestSlice
    BY <2>1, <1>a DEF ArgsOf
  <2>3. slice' \in {SchedulerMax} \cup (SchedulerMin .. LongestSlice)
    BY <2>1, <2>2, <1>0, Sizes DEF NewSlice, TypeOK
  <2>4. slice' \in 1 .. LongestSlice
    BY <2>1, <2>2, <1>0 DEF NewSlice
  <2> QED
    BY <2>1, <2>2, <2>3, <2>4, <1>0, GoOnControl
       DEF Skip, To, GoOn, TypeOK, SchedulerInv
<1>12. CASE Lock \/ Unlock
  <2>1. /\ At("lock") \/ At("unlock")
        /\ GoOn(Skip) /\ mutex' \in {cpuc, None}
        /\ UNCHANGED <<reg, count, sp, cells, jumpoffs, slice, stack>>
    BY <1>12 DEF Lock, Unlock
  <2>2. ep[cpuc] + 1 \in 1 .. Len(prog) + 1
    BY <2>1, <1>a
  <2> QED
    BY <2>1, <2>2, <1>0, GoOnControl
       DEF Skip, To, GoOn, TypeOK, SchedulerInv
<1>13. CASE StackError \/ RunFails \/ ThreadExit \/ ProcessExit \/ FetchPastEnd
  <2>1. \E how \in {"process", "thread", "fatal", "wild"} : Ends(how)
    BY <1>13 DEF StackError, RunFails, ThreadExit, ProcessExit, FetchPastEnd
  <2> QED
    BY <2>1 DEF Ends, machineVars, SchedulerInv, TypeOK, CurrentRuns, OffAlone,
         PastEndStopped, RunningHasTable, StoppedStays, OpOf, Running
<1>14. CASE UNCHANGED vars
  BY <1>14 DEF vars, machineVars, SchedulerInv, TypeOK, CurrentRuns, OffAlone,
       PastEndStopped, RunningHasTable, StoppedStays, OpOf, Running
<1> QED
  BY <1>1, <1>2, <1>3, <1>4, <1>5, <1>6, <1>7, <1>8, <1>9, <1>10, <1>11,
     <1>12, <1>13, <1>14 DEF Next

\* The scheduler keeps its types for every program.
THEOREM SchedulerTypeCorrect == Spec => []TypeOK
<1>1. SchedulerInv => TypeOK
  BY DEF SchedulerInv
<1> QED
  BY <1>1, InitInv, InvStep, PTL DEF Spec

\* No running vcpu waits while the processor is with a stopped one, and a
\* vcpu that cannot be preempted is alone.
THEOREM NeverIdle == Spec => [](CurrentRuns /\ OffAlone)
<1>1. SchedulerInv => CurrentRuns /\ OffAlone
  BY DEF SchedulerInv
<1> QED
  BY <1>1, InitInv, InvStep, PTL DEF Spec

\* A jump never goes through a jump table that INTR1 20 or 21 has freed.
THEOREM JumpsHaveTables == Spec => []JumpTableLive
<1>1. SchedulerInv => JumpTableLive
  BY Executing DEF JumpTableLive
<1> QED
  BY <1>1, InitInv, InvStep, PTL DEF Spec
\* Code runs past its end only when nobody else could have the processor.
THEOREM PastEndIsAlone == Spec => []PastEndAlone
<1>1. Init => PastEndAlone
  BY DEF Init, ThreadInit, PastEndAlone
<1>2. SchedulerInv /\ PastEndAlone /\ [Next]_vars => PastEndAlone'
  <2> SUFFICES ASSUME SchedulerInv, PastEndAlone, [Next]_vars PROVE PastEndAlone'
    OBVIOUS
  <2>1. CASE FetchPastEnd
    <3>1. ep[cpuc] > Len(prog) /\ cpuc' = cpuc /\ status' = status /\ cpuc \in Vcpus
      BY <2>1 DEF FetchPastEnd, Ends, SchedulerInv, TypeOK
    <3>2. Running(status) \subseteq {cpuc}
      BY <3>1 DEF SchedulerInv, PastEndStopped, OffAlone, CurrentRuns
    <3> QED
      BY <3>1, <3>2 DEF PastEndAlone, Running
  <2>2. CASE UNCHANGED vars
    BY <2>2 DEF vars, PastEndAlone, Running
  <2>3. CASE Next /\ ~FetchPastEnd
    <3>1. ended' # "wild"
      BY <2>3 DEF Next, Work, Jmp, Jmpi, CountedLoop, Push, Pop, StackError,
           Run, RunFails, Stop, Exit, Join, CountFree, SetMax, Lock, Unlock,
           ThreadExit, ProcessExit, GoOn, Ends, At
    <3> QED
      BY <3>1 DEF PastEndAlone
  <2> QED
    BY <2>1, <2>2, <2>3
<1> QED
  BY <1>1, <1>2, InitInv, InvStep, PTL DEF Spec

(***************************************************************************)
(* The bound on waiting.                                                   *)
(***************************************************************************)
LEMMA AfterIs ==
  ASSUME NEW c \in Vcpus, NEW k \in 0 .. MaxVirtCpu - 1
  PROVE  /\ After(c, k) = IF c + k < MaxVirtCpu THEN c + k ELSE c + k - MaxVirtCpu
         /\ After(c, k) \in Vcpus
  BY Sizes DEF After, Vcpus

LEMMA DistanceIs ==
  ASSUME NEW c \in Vcpus, NEW v \in Vcpus
  PROVE  /\ Distance(c, v) \in 0 .. MaxVirtCpu - 1
         /\ After(c, Distance(c, v)) = v
         /\ v # c => Distance(c, v) \in 1 .. MaxVirtCpu - 1
<1>1. /\ Distance(c, v) \in 0 .. MaxVirtCpu - 1
      /\ v # c => Distance(c, v) \in 1 .. MaxVirtCpu - 1
  BY Sizes DEF Distance, Vcpus
<1>2. After(c, Distance(c, v)) = v
  <2>1. After(c, Distance(c, v)) =
          IF c + Distance(c, v) < MaxVirtCpu THEN c + Distance(c, v)
          ELSE c + Distance(c, v) - MaxVirtCpu
    BY <1>1, AfterIs
  <2> QED
    BY <2>1, Sizes DEF Distance, Vcpus
<1> QED
  BY <1>1, <1>2

\* The search passes over no running vcpu: each of the others comes nearer.
LEMMA NextVcpuOrder ==
  ASSUME NEW st, NEW c \in Vcpus, NEW n \in NextVcpu(st, c), n # c,
         NEW v \in Vcpus \ {c, n}, st[v] = "RUNNING"
  PROVE  Distance(n, v) <= Distance(c, v) - 1
<1>1. n \in Vcpus
  BY NextVcpuRuns
<1> DEFINE d == Distance(c, v)
<1>2. d \in 1 .. MaxVirtCpu - 1 /\ After(c, d) = v
  BY DistanceIs
<1>3. d \in RunningAfter(st, c)
  BY <1>2 DEF RunningAfter
<1>4. PICK k \in RunningAfter(st, c) :
         n = After(c, k) /\ \A j \in RunningAfter(st, c) : k <= j
  BY <1>3 DEF NextVcpu
<1>5. k \in 1 .. MaxVirtCpu - 1 /\ k <= d /\ k # d
  BY <1>2, <1>3, <1>4 DEF RunningAfter
<1>6. n = IF c + k < MaxVirtCpu THEN c + k ELSE c + k - MaxVirtCpu
  BY <1>4, <1>5, AfterIs, Sizes
<1>7. v = IF c + d < MaxVirtCpu THEN c + d ELSE c + d - MaxVirtCpu
  BY <1>2, AfterIs, Sizes
<1>8. Distance(n, v) = d - k
  <2> HIDE DEF d
  <2> QED
    BY <1>1, <1>2, <1>5, <1>6, <1>7, Sizes DEF Distance, Vcpus
<1> QED
  BY <1>2, <1>5, <1>8

\* Products with the length of a slice.
LEMMA Times ==
  /\ \A a \in Int : a * LongestSlice \in Int
  /\ \A a \in Int : (a - 1) * LongestSlice = a * LongestSlice - LongestSlice
  /\ \A a, b \in Int : a <= b => a * LongestSlice <= b * LongestSlice
  /\ LongestSlice >= 1
<1>1. LongestSlice \in Nat /\ LongestSlice >= 1
  BY Sizes
<1>2. \A a \in Int : a * LongestSlice \in Int
  BY <1>1
<1>3. \A a \in Int : (a - 1) * LongestSlice = a * LongestSlice - LongestSlice
  BY <1>1
<1>4. \A a, b \in Int : a <= b => a * LongestSlice <= b * LongestSlice
  BY <1>1
<1> QED
  BY <1>1, <1>2, <1>3, <1>4
\* SCHEXE_NEXT and task_scheduler keep WaitInv, if the instruction starts at
\* most vcpus that have not waited, and gives the processor up when it does.
LEMMA FetchWait ==
  ASSUME SchedulerInv, WaitInv,
         NEW st \in [Vcpus -> {"RUNNING", "STOP"}],
         NEW cd \in [Vcpus -> OFF .. LongestSlice],
         NEW eps,
         slice' \in 1 .. LongestSlice,
         Fetch(st, cd, eps),
         cd[cpuc] \in {scheduler[cpuc], 0},
         cd[cpuc] = OFF => Running(st) \subseteq {cpuc},
         status[cpuc] = "STOP" => Running(st) \subseteq {cpuc},
         \A v \in Vcpus \ {cpuc} : st[v] = "RUNNING" /\ cd[v] # OFF => cd[v] >= 1,
         \A v \in Vcpus \ {cpuc} : st[v] = "RUNNING" =>
             status[v] = "RUNNING" \/ cd[cpuc] = 0
  PROVE  WaitInv'
<1> DEFINE over == cd[cpuc] # OFF /\ PastEnd(eps[cpuc])
           st1 == IF over THEN [st EXCEPT ![cpuc] = "STOP"] ELSE st
           left == IF st1[cpuc] = "RUNNING" THEN cd[cpuc] - 1 ELSE 0
           N == MaxVirtCpu
           L == LongestSlice
           All == (MaxVirtCpu - 1) * LongestSlice
<1>1. /\ cpuc \in Vcpus /\ status \in [Vcpus -> {"RUNNING", "STOP"}]
      /\ waited \in [Vcpus -> Nat] /\ scheduler \in [Vcpus -> OFF .. LongestSlice]
  BY DEF SchedulerInv, TypeOK
<1>2. /\ st1 \in [Vcpus -> {"RUNNING", "STOP"}]
      /\ \A v \in Vcpus : st1[v] = "RUNNING" => st[v] = "RUNNING"
      /\ \A v \in Vcpus \ {cpuc} : st1[v] = st[v]
      /\ ~over => st1 = st
  BY <1>1
<1>3. /\ status' = st1
      /\ waited' = [v \in Vcpus |->
            IF v = cpuc \/ st1[v] = "STOP" THEN 0 ELSE waited[v] + 1]
      /\ \/ cd[cpuc] = OFF /\ cpuc' = cpuc /\ scheduler' = cd /\ st1 = st
         \/ /\ cd[cpuc] # OFF /\ left > 0 /\ cpuc' = cpuc
            /\ scheduler' = [cd EXCEPT ![cpuc] = left]
         \/ /\ cd[cpuc] # OFF /\ left <= 0
            /\ scheduler' = [cd EXCEPT ![cpuc] = slice']
            /\ cpuc' \in NextVcpu(st1, cpuc)
  BY <1>2 DEF Fetch
<1>4. /\ cd[cpuc] \in Int /\ left \in Int /\ slice' \in Int /\ slice' >= 1
      /\ slice' <= L /\ N \in Nat /\ N >= 1 /\ L \in Nat /\ L >= 1 /\ OFF \in Int
      /\ cd[cpuc] <= L
      /\ \A v \in Vcpus : cd[v] \in Int /\ cd[v] <= L
  BY <1>1, Sizes DEF OFF
<1>5. All \in Int /\ All >= 0
  BY <1>4
<1> HIDE DEF over, st1, left, N, L, All
<1>6. \A v \in Vcpus : st1[v] = "STOP" => waited'[v] = 0
  BY <1>3
<1>7. \A v \in Vcpus : st1[v] = "RUNNING" /\ scheduler'[v] # OFF => scheduler'[v] >= 1
  <2> SUFFICES ASSUME NEW v \in Vcpus, st1[v] = "RUNNING", scheduler'[v] # OFF
               PROVE  scheduler'[v] >= 1
    OBVIOUS
  <2>1. CASE v # cpuc
    BY <2>1, <1>1, <1>2, <1>3
  <2>2. CASE v = cpuc
    BY <2>2, <1>1, <1>3, <1>4
  <2> QED
    BY <2>1, <2>2
\* what a vcpu that is still running had waited
<1>8. ASSUME NEW v \in Vcpus \ {cpuc}, st1[v] = "RUNNING"
      PROVE  /\ waited'[v] = waited[v] + 1 /\ waited[v] \in Nat
             /\ cd[cpuc] # OFF
             /\ Distance(cpuc, v) \in 1 .. N - 1 /\ N >= 2
             /\ \/ /\ cd[cpuc] = 0 /\ waited[v] = 0
                \/ /\ scheduler[cpuc] \in Int /\ scheduler[cpuc] >= 1
                   /\ waited[v] + scheduler[cpuc] + (Distance(cpuc, v) - 1) * L
                        <= All
  <2>1. st[v] = "RUNNING" /\ waited'[v] = waited[v] + 1 /\ waited[v] \in Nat
    BY <1>1, <1>2, <1>3, <1>8
  <2>2. cd[cpuc] # OFF /\ status[cpuc] = "RUNNING"
    BY <2>1, <1>1, <1>8 DEF Running
  <2>3. Distance(cpuc, v) \in 1 .. N - 1
    BY <1>1, <1>8, DistanceIs DEF N
  <2>4. N >= 2
    BY <2>3, <1>4
  <2>5. CASE status[v] = "STOP"
    <3>1. cd[cpuc] = 0 /\ waited[v] = 0
      BY <2>1, <2>5, <1>8 DEF WaitInv
    <3> QED
      BY <2>1, <2>2, <2>3, <2>4, <3>1
  <2>6. CASE status[v] = "RUNNING"
    <3>1. scheduler[cpuc] # OFF
      BY <2>6, <1>1, <1>8 DEF SchedulerInv, OffAlone, Running
    <3>2. scheduler[cpuc] >= 1 /\ scheduler[cpuc] \in Int
      BY <3>1, <2>2, <1>1 DEF WaitInv, OFF
    <3>3. waited[v] + scheduler[cpuc] + (Distance(cpuc, v) - 1) * L <= All
      BY <2>6, <1>8 DEF WaitInv, L, All
    <3> QED
      BY <2>1, <2>2, <2>3, <2>4, <3>2, <3>3
  <2> QED
    BY <2>5, <2>6, <1>1
\* the products, in the forms the two steps below need
<1>m. /\ All = N * L - L
      /\ \A a \in Int : a * L \in Int /\ (a - 1) * L = a * L - L
      /\ \A a \in Int : a >= 0 => a * L >= 0
      /\ \A a, b \in Int : a <= b => a * L <= b * L
  <2>1. 0 * L = 0
    BY <1>4
  <2> QED
    BY <2>1, <1>4, Times DEF All, N, L
<1>9. waited'[cpuc'] <= All
  <2>1. CASE cpuc' = cpuc
    BY <2>1, <1>1, <1>3, <1>5
  <2>2. CASE cpuc' # cpuc
    <3>1. cpuc' \in Vcpus \ {cpuc} /\ st1[cpuc'] = "RUNNING"
      BY <2>2, <1>1, <1>3, NextVcpuRuns
    <3> DEFINE d == Distance(cpuc, cpuc')
    <3>2. d \in 1 .. N - 1 /\ (d - 1) * L >= 0 /\ (d - 1) * L \in Int
      BY <3>1, <1>4, <1>8, <1>m
    <3>3. 1 <= All
      <4>1. N - 1 \in Int /\ 1 <= N - 1
        BY <3>2, <1>4
      <4>2. 1 * L <= (N - 1) * L /\ (N - 1) * L = All
        BY <4>1, <1>4, <1>m
      <4> QED
        BY <4>2, <1>4, <1>5
    <3> HIDE DEF d
    <3>4. waited'[cpuc'] = waited[cpuc'] + 1 /\ waited[cpuc'] \in Nat
      BY <3>1, <1>8
    <3>5. CASE waited[cpuc'] = 0
      BY <3>3, <3>4, <3>5
    <3>6. CASE /\ scheduler[cpuc] \in Int /\ scheduler[cpuc] >= 1
               /\ waited[cpuc'] + scheduler[cpuc] + (d - 1) * L <= All
      BY <3>2, <3>4, <3>6, <1>5
    <3> QED
      BY <3>1, <3>5, <3>6, <1>8 DEF d
  <2> QED
    BY <2>1, <2>2
<1>10. ASSUME NEW v \in Vcpus \ {cpuc'}, st1[v] = "RUNNING"
       PROVE  waited'[v] + scheduler'[cpuc'] + (Distance(cpuc', v) - 1) * L <= All
  <2> DEFINE d == Distance(cpuc, v)
             e == Distance(cpuc', v)
  <2>1. CASE cpuc' = cpuc
    <3>1. v \in Vcpus \ {cpuc} /\ cd[cpuc] # OFF
      BY <2>1, <1>8, <1>10
    <3>2. CASE left > 0 /\ scheduler' = [cd EXCEPT ![cpuc] = left]
      <4>1. scheduler'[cpuc] = cd[cpuc] - 1 /\ cd[cpuc] # 0
        BY <3>2, <1>1, <1>4 DEF left
      <4>2. /\ waited[v] \in Nat /\ waited'[v] = waited[v] + 1
            /\ cd[cpuc] = scheduler[cpuc]
            /\ waited[v] + scheduler[cpuc] + (d - 1) * L <= All
        BY <3>1, <4>1, <1>8, <1>10
      <4>3. (d - 1) * L \in Int
        <5>1. d \in Int
          BY <3>1, <1>4, <1>8, <1>10
        <5> HIDE DEF d
        <5> QED
          BY <5>1, <1>4, <1>m
      <4> HIDE DEF d
      <4>4. waited'[v] + scheduler'[cpuc] + (d - 1) * L <= All
        BY <4>1, <4>2, <4>3, <1>4, <1>5
      <4> QED
        BY <2>1, <4>4 DEF d
    <3>3. CASE cpuc' \in NextVcpu(st1, cpuc)
      <4>1. Running(st1) \subseteq {cpuc} \/ st1[cpuc] = "RUNNING"
        BY <2>1, <3>3, <1>1, NextVcpuRuns
      <4>2. RunningAfter(st1, cpuc) = {}
        <5> SUFFICES ASSUME RunningAfter(st1, cpuc) # {} PROVE FALSE
          OBVIOUS
        <5>1. PICK k \in RunningAfter(st1, cpuc) : cpuc = After(cpuc, k)
          BY <2>1, <3>3 DEF NextVcpu
        <5>2. k \in 1 .. MaxVirtCpu - 1
          BY DEF RunningAfter
        <5> QED
          <6>1. After(cpuc, k) = IF cpuc + k < MaxVirtCpu THEN cpuc + k
                                 ELSE cpuc + k - MaxVirtCpu
            BY <5>2, <1>1, AfterIs, Sizes
          <6>2. cpuc \in Int /\ k \in Int /\ k >= 1 /\ k < MaxVirtCpu
            BY <5>2, <1>1, Sizes
          <6> QED
            BY <5>1, <6>1, <6>2, Sizes
      <4>3. d \in RunningAfter(st1, cpuc)
        BY <3>1, <1>1, <1>10, DistanceIs DEF RunningAfter
      <4> QED
        BY <4>2, <4>3
    <3> QED
      BY <3>1, <3>2, <3>3, <1>3
  <2>2. CASE cpuc' # cpuc
    <3>1. /\ cpuc' \in NextVcpu(st1, cpuc) /\ cpuc' \in Vcpus
          /\ st1[cpuc'] = "RUNNING"
          /\ scheduler' = [cd EXCEPT ![cpuc] = slice']
      BY <2>2, <1>1, <1>3, NextVcpuRuns
    <3>2. scheduler'[cpuc'] \in Int /\ scheduler'[cpuc'] <= L
      BY <2>2, <3>1, <1>1, <1>4
    <3>3. e \in 1 .. N - 1
      BY <3>1, <1>10, DistanceIs DEF N
    <3>4. CASE v = cpuc
      <4>1. waited'[v] = 0
        BY <3>4, <1>1, <1>3
      <4>2. e * L <= (N - 1) * L /\ (N - 1) * L = All
        BY <3>3, <1>4, <1>m
      <4>3. (e - 1) * L = e * L - L /\ e * L \in Int
        BY <3>3, <1>m
      <4> HIDE DEF e
      <4>4. scheduler'[cpuc'] + (e - 1) * L <= All
        BY <3>2, <4>2, <4>3, <1>4, <1>5
      <4> QED
        BY <4>1, <4>4, <3>2, <4>3, <1>4 DEF e
    <3>5. CASE v # cpuc
      <4>1. e <= d - 1 /\ d \in 1 .. N - 1
        BY <2>2, <3>1, <3>5, <1>1, <1>8, <1>10, NextVcpuOrder
      <4>2. e * L <= (d - 1) * L /\ e * L \in Int /\ (d - 1) * L \in Int
        BY <3>3, <4>1, <1>4, <1>m
      <4>3. (e - 1) * L = e * L - L
        BY <3>3, <1>m
      <4>4. waited[v] \in Nat /\ waited'[v] = waited[v] + 1
        BY <3>5, <1>8, <1>10
      <4>5. CASE /\ scheduler[cpuc] \in Int /\ scheduler[cpuc] >= 1
                 /\ waited[v] + scheduler[cpuc] + (d - 1) * L <= All
        <5> HIDE DEF d, e
        <5>1. waited'[v] + scheduler'[cpuc'] + (e - 1) * L <= All
          BY <3>2, <4>2, <4>3, <4>4, <4>5, <1>4, <1>5
        <5> QED
          BY <5>1 DEF e
      <4>6. CASE waited[v] = 0
        <5>1. e <= N - 2
          BY <4>1, <3>3, <1>4
        <5>2. e * L <= (N - 2) * L
          BY <5>1, <3>3, <1>4, <1>m
        <5>3. (N - 2) * L = (N - 1) * L - L /\ (N - 1) * L = All
          <6>1. N - 1 \in Int /\ (N - 1) - 1 = N - 2
            BY <1>4
          <6> QED
            BY <6>1, <1>4, <1>m
        <5> HIDE DEF d, e
        <5>4. waited'[v] + scheduler'[cpuc'] + (e - 1) * L <= All
          BY <5>2, <5>3, <3>2, <4>2, <4>3, <4>4, <4>6, <1>4, <1>5
        <5> QED
          BY <5>4 DEF e
      <4> QED
        BY <3>5, <4>5, <4>6, <1>8, <1>10
    <3> QED
      BY <3>4, <3>5
  <2> QED
    BY <2>1, <2>2
<1> QED
  BY <1>3, <1>6, <1>7, <1>9, <1>10 DEF WaitInv, All, L
LEMMA WaitInit == Init => WaitInv
<1> SUFFICES ASSUME Init PROVE WaitInv
  OBVIOUS
<1> USE DEF Init, ThreadInit
<1>1. cpuc = 0 /\ 0 \in Vcpus /\ waited[0] = 0 /\ scheduler[0] = OFF
      /\ \A v \in Vcpus \ {0} : status[v] = "STOP" /\ waited[v] = 0
      /\ status[0] = "RUNNING"
  BY Sizes
<1>2. (MaxVirtCpu - 1) * LongestSlice >= 0
  BY Sizes
<1> QED
  BY <1>1, <1>2 DEF WaitInv

LEMMA WaitStep == SchedulerInv /\ WaitInv /\ [Next]_vars => WaitInv'
<1> SUFFICES ASSUME SchedulerInv, WaitInv, [Next]_vars PROVE WaitInv'
  OBVIOUS
<1>0. /\ TypeOK /\ cpuc \in Vcpus
      /\ status \in [Vcpus -> {"RUNNING", "STOP"}]
      /\ scheduler \in [Vcpus -> OFF .. LongestSlice]
      /\ status[cpuc] = "STOP" => Running(status) \subseteq {cpuc}
      /\ scheduler[cpuc] = OFF => Running(status) \subseteq {cpuc}
  BY DEF SchedulerInv, TypeOK, CurrentRuns, OffAlone
<1>1. slice' \in 1 .. LongestSlice
  <2>1. TypeOK'
    BY InvStep DEF SchedulerInv
  <2>2. SchedulerMax \in 1 .. LongestSlice /\ SchedulerMin \in 1 .. LongestSlice
    BY ConstantsAssumption
  <2>3. \A n \in SchedulerMin .. LongestSlice : n \in 1 .. LongestSlice
    BY <2>2, Sizes
  <2> QED
    BY <2>1, <2>2, <2>3 DEF TypeOK
\* an instruction that starts no vcpu
<1>2. ASSUME NEW st \in [Vcpus -> {"RUNNING", "STOP"}], NEW eps,
             \A v \in Vcpus : st[v] = "RUNNING" => status[v] = "RUNNING",
             Fetch(st, scheduler, eps)
      PROVE  WaitInv'
  <2>1. Running(st) \subseteq Running(status)
    BY <1>2 DEF Running
  <2>2. \A v \in Vcpus \ {cpuc} : st[v] = "RUNNING" /\ scheduler[v] # OFF
           => scheduler[v] >= 1
    BY <1>2 DEF WaitInv
  <2> QED
    BY <1>0, <1>1, <1>2, <2>1, <2>2, FetchWait
<1>3. CASE Work \/ Jmp \/ Jmpi \/ CountedLoop \/ Push \/ Pop \/ Join
           \/ CountFree \/ SetMax \/ Lock \/ Unlock
  <2>1. \E eps : Fetch(status, scheduler, eps)
    BY <1>3 DEF Work, Jmp, Jmpi, CountedLoop, Push, Pop, Join, CountFree,
         SetMax, Lock, Unlock, GoOn
  <2> QED
    BY <2>1, <1>0, <1>2
<1>4. CASE Stop \/ Exit
  <2>1. \E x : Fetch([status EXCEPT ![x] = "STOP"], scheduler, ep)
    BY <1>4 DEF Stop, Exit, AfterStop
  <2>2. PICK x : Fetch([status EXCEPT ![x] = "STOP"], scheduler, ep)
    BY <2>1
  <2> DEFINE st == [status EXCEPT ![x] = "STOP"]
  <2>3. /\ st \in [Vcpus -> {"RUNNING", "STOP"}]
        /\ \A v \in Vcpus : st[v] = "RUNNING" => status[v] = "RUNNING"
    BY <1>0
  <2> QED
    BY <2>2, <2>3, <1>2
<1>5. CASE Run
  <2>1. PICK w \in FreeVcpus \ {0} :
           Fetch([status EXCEPT ![w] = "RUNNING"], Slices(w),
                 [Skip EXCEPT ![w] = Arg])
    BY <1>5 DEF Run
  <2>2. status[cpuc] = "RUNNING"
    BY <1>5, Executing DEF Run
  <2> DEFINE st == [status EXCEPT ![w] = "RUNNING"]
             cd == Slices(w)
             eps == [Skip EXCEPT ![w] = Arg]
  <2>3. w \in Vcpus /\ w # cpuc /\ status[w] = "STOP"
    BY <2>2 DEF FreeVcpus
  <2>4. 0 \in OFF .. LongestSlice /\ SchedulerMax \in OFF .. LongestSlice
        /\ SchedulerMax >= 1 /\ OFF # 0
    BY Sizes DEF OFF
  <2>5. /\ st \in [Vcpus -> {"RUNNING", "STOP"}]
        /\ cd \in [Vcpus -> OFF .. LongestSlice]
        /\ cd[cpuc] = 0 /\ cd[w] = SchedulerMax
        /\ \A v \in Vcpus \ {cpuc, w} : cd[v] = scheduler[v] /\ st[v] = status[v]
    BY <1>0, <2>3, <2>4 DEF Slices
  <2>6. \A v \in Vcpus \ {cpuc} : st[v] = "RUNNING" /\ cd[v] # OFF => cd[v] >= 1
    BY <2>4, <2>5 DEF WaitInv
  <2>7. Fetch(st, cd, eps)
    BY <2>1
  <2> HIDE DEF st, cd, eps
  <2> QED
    BY <1>1, <2>2, <2>4, <2>5, <2>6, <2>7, FetchWait
<1>6. CASE StackError \/ RunFails \/ ThreadExit \/ ProcessExit \/ FetchPastEnd
  <2>1. \E how : Ends(how)
    BY <1>6 DEF StackError, RunFails, ThreadExit, ProcessExit, FetchPastEnd
  <2> QED
    BY <2>1 DEF Ends, WaitInv
<1>7. CASE UNCHANGED vars
  BY <1>7 DEF vars, WaitInv
<1> QED
  BY <1>3, <1>4, <1>5, <1>6, <1>7 DEF Next

\* Nobody starves: for every program, every number of vcpus and every length
\* of a slice, a running vcpu gets the processor back before the others have
\* executed a slice each.
THEOREM WaitingIsBounded == Spec => []WaitBound
<1>1. SchedulerInv /\ WaitInv => WaitBound
  <2> SUFFICES ASSUME SchedulerInv, WaitInv, NEW v \in Vcpus
               PROVE  waited[v] <= (MaxVirtCpu - 1) * LongestSlice
    BY DEF WaitBound
  <2> DEFINE All == (MaxVirtCpu - 1) * LongestSlice
  <2>1. /\ cpuc \in Vcpus /\ waited[v] \in Nat
        /\ status \in [Vcpus -> {"RUNNING", "STOP"}]
        /\ scheduler \in [Vcpus -> OFF .. LongestSlice]
    BY DEF SchedulerInv, TypeOK
  <2>2. All \in Int /\ All >= 0
    BY Sizes
  <2>3. CASE status[v] = "STOP"
    BY <2>2, <2>3 DEF WaitInv
  <2>4. CASE v = cpuc
    BY <2>4 DEF WaitInv
  <2>5. CASE status[v] = "RUNNING" /\ v # cpuc
    <3>1. scheduler[cpuc] # OFF /\ status[cpuc] = "RUNNING"
      BY <2>1, <2>5 DEF SchedulerInv, OffAlone, CurrentRuns, Running
    <3>2. scheduler[cpuc] \in Int /\ scheduler[cpuc] >= 1
      BY <3>1, <2>1 DEF WaitInv, OFF
    <3> DEFINE d == Distance(cpuc, v)
    <3>3. d \in Int /\ d >= 1
      BY <2>1, <2>5, DistanceIs, Sizes
    <3>4. waited[v] + scheduler[cpuc] + (d - 1) * LongestSlice <= All
      BY <2>5 DEF WaitInv
    <3> HIDE DEF d, All
    <3>5. (d - 1) * LongestSlice \in Int /\ (d - 1) * LongestSlice >= 0
      BY <3>3, Sizes
    <3> QED
      BY <3>2, <3>4, <3>5, <2>1, <2>2 DEF All
  <2> QED
    BY <2>1, <2>3, <2>4, <2>5
<1> QED
  BY <1>1, InitInv, InvStep, WaitInit, WaitStep, PTL DEF Spec

(***************************************************************************)
(* The vcpus as processes of their own.                                    *)
(***************************************************************************)
\* An instruction that does not lead past the end leaves what its opcode says.
LEMMA FetchInside ==
  ASSUME NEW st, NEW cd, NEW eps, Fetch(st, cd, eps),
         eps[cpuc] \in 1 .. Len(prog), Len(prog) \in Nat
  PROVE  status' = st /\ ep' = eps
<1>1. ~PastEnd(eps[cpuc])
  BY DEF PastEnd
<1> QED
  BY <1>1 DEF Fetch

\* In the code of an independent program there is always a next instruction.
LEMMA InsideCode ==
  ASSUME TypeOK, ProcessInv, Independent(prog), NEW op, At(op)
  PROVE  /\ cpuc \in Vcpus
         /\ op \notin {"stop", "loop"}
         /\ ep[cpuc] \in 1 .. Len(prog) /\ Len(prog) \in Nat
         /\ Uses(prog, {op})
         /\ op \in {"jmp", "jmpi", "run"} /\ Arg # 0 => Arg \in 1 .. Len(prog)
         /\ op \notin {"jmp", "vexit", "threadexit", "exit"} =>
               ep[cpuc] + 1 \in 1 .. Len(prog)
<1>1. /\ ep[cpuc] \in 1 .. Len(prog) /\ Len(prog) \in Nat
      /\ Arg \in ArgsOf(op, Len(prog)) /\ Arg \in Int
      /\ prog[ep[cpuc]].op = op /\ cpuc \in Vcpus
  BY Operand DEF At, TypeOK
<1>2. Uses(prog, {op}) /\ op \notin {"stop", "loop"}
  BY <1>1 DEF Uses, Independent
<1>3. op \notin {"jmp", "vexit", "threadexit", "exit"} => ep[cpuc] # Len(prog)
  BY <1>1 DEF Independent, Closed
<1>4. op \in {"jmp", "jmpi", "run"} /\ Arg # 0 => Arg \in 1 .. Len(prog)
  BY <1>1 DEF ArgsOf
<1> QED
  BY <1>1, <1>2, <1>3, <1>4

LEMMA NextInside ==
  ASSUME TypeOK, ProcessInv, Independent(prog),
         NEW op \in {"work", "jmpi", "push", "pop", "run", "join", "free", "max",
                    "lock", "unlock"}, At(op)
  PROVE  ep[cpuc] + 1 \in 1 .. Len(prog) /\ Len(prog) \in Nat /\ cpuc \in Vcpus
<1>1. op \notin {"jmp", "vexit", "threadexit", "exit"}
  OBVIOUS
<1> QED
  BY <1>1, InsideCode

LEMMA ProcessStart == Init => Processes!Init
  BY DEF Init, ThreadInit, Processes!Init, Processes!Vcpus, Vcpus

LEMMA ProcessInit == Init => ProcessInv
<1> SUFFICES ASSUME Init PROVE ProcessInv
  OBVIOUS
<1>1. IsProgram(prog)
  BY ConstantsAssumption DEF Init, ThreadInit
<1>2. Len(prog) \in Nat /\ Len(prog) > 0
  BY <1>1, LenProperties DEF IsProgram
<1> QED
  BY <1>2, Sizes DEF Init, ThreadInit, ProcessInv

(***************************************************************************)
(* One instruction of a vcpu that only goes on.                            *)
(***************************************************************************)
LEMMA GoOnProcess ==
  ASSUME SchedulerInv, ProcessInv, Independent(prog), NEW op, At(op),
         op \notin {"stop", "vexit"},
         NEW e \in 1 .. Len(prog), GoOn([ep EXCEPT ![cpuc] = e])
  PROVE  /\ status' = status /\ ep' = [ep EXCEPT ![cpuc] = e]
         /\ prog' = prog /\ ended' = ended
         /\ Processes!At(cpuc, op)
         /\ cpuc \in Processes!Vcpus
         /\ \A v \in Vcpus : ep'[v] <= Len(prog')
         /\ Uses(prog, {"push", "pop"}) => cpuc' = 0
<1>1. cpuc \in Vcpus /\ ep[cpuc] \in 1 .. Len(prog) /\ TypeOK
      /\ status[cpuc] = "RUNNING"
  BY InsideCode, Executing DEF SchedulerInv
<1>2. ep \in [Vcpus -> 1 .. Len(prog) + 1]
  BY <1>1 DEF TypeOK
<1>3. Fetch(status, scheduler, [ep EXCEPT ![cpuc] = e]) /\ prog' = prog
      /\ ended' = ended
  BY DEF GoOn
<1>4. [ep EXCEPT ![cpuc] = e][cpuc] \in 1 .. Len(prog) /\ Len(prog) \in Nat
  BY <1>1, <1>2, InsideCode
<1>5. status' = status /\ ep' = [ep EXCEPT ![cpuc] = e]
  BY <1>3, <1>4, FetchInside
<1>6. Processes!At(cpuc, op) /\ cpuc \in Processes!Vcpus
  BY <1>1 DEF Processes!At, At, Processes!Vcpus, Vcpus
<1>7. \A v \in Vcpus : ep'[v] <= Len(prog')
  BY <1>2, <1>3, <1>5 DEF ProcessInv
<1>8. cpuc' = cpuc \/ cpuc' \in NextVcpu(status, cpuc)
  <2>1. cpuc' = cpuc \/ \E st1 : cpuc' \in NextVcpu(st1, cpuc) /\ status' = st1
    BY <1>3 DEF Fetch
  <2> QED
    BY <2>1, <1>5
<1>9. ASSUME Uses(prog, {"push", "pop"}) PROVE cpuc' = 0
  <2>1. cpuc = 0 /\ \A v \in Vcpus \ {0} : status[v] = "STOP"
    BY <1>9 DEF ProcessInv
  <2>2. CASE cpuc' = cpuc
    BY <2>1, <2>2
  <2>3. CASE cpuc' \in NextVcpu(status, cpuc)
    <3>1. cpuc' \in Vcpus /\ (status[cpuc'] = "RUNNING" \/ cpuc' = cpuc)
      BY <1>1, <2>3, NextVcpuRuns
    <3> QED
      BY <2>1, <3>1
  <2> QED
    BY <2>2, <2>3, <1>8
<1> QED
  BY <1>3, <1>5, <1>6, <1>7, <1>9

\* Instructions that leave the stacks alone.
LEMMA StacksKept ==
  ASSUME ProcessInv, Independent(prog), prog' = prog,
         sp' = sp, cells' = cells, stack' = stack, status' = status,
         Uses(prog, {"push", "pop"}) => cpuc' = 0,
         \A v \in Vcpus : ep'[v] <= Len(prog')
  PROVE  ProcessInv'
  BY DEF ProcessInv, Uses

LEMMA ProcessGoOn ==
  ASSUME SchedulerInv, ProcessInv, Independent(prog),
         Work \/ Jmp \/ Jmpi \/ Join \/ CountFree \/ SetMax \/ Lock \/ Unlock
  PROVE  ProcessInv' /\ [Processes!Next]_(Processes!vars)
<1>0. TypeOK
  BY DEF SchedulerInv
<1>1. sp' = sp /\ cells' = cells /\ stack' = stack
  BY DEF Work, Jmp, Jmpi, Join, CountFree, SetMax, Lock, Unlock, machineVars
<1>2. SUFFICES cpuc \in Processes!Vcpus /\ ProcessInv' /\ Processes!Proceed(cpuc)
  BY DEF Processes!Next
<1>3. ASSUME NEW op, At(op), op \in {"work", "join", "free", "max", "lock", "unlock"},
             GoOn(Skip)
      PROVE  /\ ProcessInv' /\ status' = status
             /\ Processes!Next1(cpuc) /\ prog' = prog /\ ended' = ended
             /\ Processes!At(cpuc, op) /\ cpuc \in Processes!Vcpus
  <2>1. ep[cpuc] + 1 \in 1 .. Len(prog)
    BY <1>0, <1>3, InsideCode
  <2>2. GoOn([ep EXCEPT ![cpuc] = ep[cpuc] + 1])
    BY <1>3 DEF Skip, To
  <2>3. /\ status' = status /\ ep' = [ep EXCEPT ![cpuc] = ep[cpuc] + 1]
        /\ prog' = prog /\ ended' = ended /\ Processes!At(cpuc, op)
        /\ cpuc \in Processes!Vcpus
        /\ \A v \in Vcpus : ep'[v] <= Len(prog')
        /\ Uses(prog, {"push", "pop"}) => cpuc' = 0
    BY <1>3, <2>1, <2>2, GoOnProcess
  <2> QED
    BY <1>1, <2>3, StacksKept DEF Processes!Next1, Processes!Goto
<1>4. CASE Work
  BY <1>3, <1>4 DEF Work, Processes!Work, Processes!Proceed, machineVars
<1>5. CASE Jmp
  <2>1. At("jmp") /\ Arg \in Int
    BY <1>0, <1>5, Operand DEF Jmp
  <2>2. Arg \in 1 .. Len(prog)
    BY <1>0, <2>1, Operand DEF ArgsOf
  <2>3. GoOn([ep EXCEPT ![cpuc] = Arg])
    BY <1>5 DEF Jmp, To
  <2>4. /\ status' = status /\ ep' = [ep EXCEPT ![cpuc] = Arg]
        /\ prog' = prog /\ ended' = ended /\ Processes!At(cpuc, "jmp")
        /\ cpuc \in Processes!Vcpus
        /\ \A v \in Vcpus : ep'[v] <= Len(prog')
        /\ Uses(prog, {"push", "pop"}) => cpuc' = 0
    BY <2>1, <2>2, <2>3, GoOnProcess
  <2>5. Processes!Jump(cpuc)
    BY <1>1, <1>5, <2>4 DEF Jmp, Processes!Jump, Processes!Goto, Processes!Arg, Arg,
       machineVars
  <2> QED
    BY <1>1, <2>4, <2>5, StacksKept DEF Processes!Proceed
<1>6. CASE Jmpi
  <2>1. At("jmpi")
    BY <1>6 DEF Jmpi
  <2>2. Arg \in 1 .. Len(prog) /\ ep[cpuc] + 1 \in 1 .. Len(prog)
    <3>1. Arg \in ArgsOf("jmpi", Len(prog))
      BY <1>0, <2>1, Operand
    <3>2. ep[cpuc] + 1 \in 1 .. Len(prog)
      BY <1>0, <2>1, NextInside
    <3> QED
      BY <3>1, <3>2 DEF ArgsOf
  <2> DEFINE e == IF reg[cpuc] # 0 THEN Arg ELSE ep[cpuc] + 1
  <2>3. GoOn([ep EXCEPT ![cpuc] = e])
    BY <1>6 DEF Jmpi, To, Skip
  <2>4. e \in 1 .. Len(prog)
    BY <2>2
  <2>5. /\ status' = status /\ ep' = [ep EXCEPT ![cpuc] = e]
        /\ prog' = prog /\ ended' = ended /\ Processes!At(cpuc, "jmpi")
        /\ cpuc \in Processes!Vcpus
        /\ \A v \in Vcpus : ep'[v] <= Len(prog')
        /\ Uses(prog, {"push", "pop"}) => cpuc' = 0
    BY <2>1, <2>3, <2>4, GoOnProcess
  <2>6. Processes!Jump(cpuc)
    BY <1>1, <1>6, <2>5 DEF Jmpi, Processes!Jump, Processes!Goto, Processes!Next1,
       Processes!Arg, Arg, machineVars
  <2> QED
    BY <1>1, <2>5, <2>6, StacksKept DEF Processes!Proceed
<1>7. CASE Join
  <2>1. At("join") /\ GoOn(Skip) /\ UNCHANGED <<count, stack, mutex>>
    BY <1>7 DEF Join, machineVars
  <2>2. Others # {} <=> \E w \in Processes!Vcpus \ {0, cpuc} : status[w] = "RUNNING"
    BY DEF Others, Running, Processes!Vcpus, Vcpus
  <2>3. reg' = [reg EXCEPT ![cpuc] =
           IF \E w \in Processes!Vcpus \ {0, cpuc} : status[w] = "RUNNING" THEN 1 ELSE 0]
    BY <1>7, <2>2 DEF Join, Set
  <2>4. Processes!Ask(cpuc)
    BY <1>3, <2>1, <2>3 DEF Processes!Ask
  <2> QED
    BY <1>3, <2>1, <2>4 DEF Processes!Proceed
<1>8. CASE CountFree
  <2>1. At("free") /\ GoOn(Skip) /\ UNCHANGED <<count, stack, mutex>>
    BY <1>8 DEF CountFree, machineVars
  <2>2. IsFiniteSet(Vcpus) /\ Cardinality(Vcpus) = MaxVirtCpu
    <3>1. IsFiniteSet(0 .. MaxVirtCpu - 1)
          /\ Cardinality(0 .. MaxVirtCpu - 1)
                = IF 0 > MaxVirtCpu - 1 THEN 0 ELSE MaxVirtCpu - 1 - 0 + 1
      BY FS_Interval, Sizes
    <3> QED
      BY <3>1, Sizes DEF Vcpus
  <2>3. FreeVcpus \subseteq Vcpus
    BY DEF FreeVcpus
  <2>4. Cardinality(FreeVcpus) \in 0 .. MaxVirtCpu /\ IsFiniteSet(FreeVcpus)
    <3>1. IsFiniteSet(FreeVcpus) /\ Cardinality(FreeVcpus) <= Cardinality(Vcpus)
      BY <2>2, <2>3, FS_Subset
    <3>2. Cardinality(FreeVcpus) \in Nat
      BY <3>1, FS_CardinalityType
    <3> QED
      BY <2>2, <3>1, <3>2, Sizes
  <2>5. Cardinality(FreeVcpus) > 0 => \E w \in Processes!Vcpus : status[w] = "STOP"
    <3>1. FreeVcpus = {} => Cardinality(FreeVcpus) = 0
      BY <2>4, FS_EmptySet
    <3> QED
      BY <3>1 DEF FreeVcpus, Processes!Vcpus, Vcpus
  <2>6. Processes!Ask(cpuc)
    BY <1>3, <1>8, <2>1, <2>4, <2>5 DEF Processes!Ask, CountFree, Set
  <2> QED
    BY <1>3, <2>1, <2>6 DEF Processes!Proceed
<1>9. CASE SetMax
  BY <1>3, <1>9 DEF SetMax, Processes!SetMax, Processes!Proceed
<1>10. CASE Lock
  BY <1>3, <1>10 DEF Lock, Processes!Lock, Processes!Proceed
<1>11. CASE Unlock
  BY <1>3, <1>11 DEF Unlock, Processes!Unlock, Processes!Proceed
<1> QED
  BY <1>4, <1>5, <1>6, <1>7, <1>8, <1>9, <1>10, <1>11

\* INTR1 19 and the end of a vcpu.
LEMMA ProcessRun ==
  ASSUME SchedulerInv, ProcessInv, Independent(prog), Run
  PROVE  ProcessInv' /\ [Processes!Next]_(Processes!vars)
<1>1. /\ At("run") /\ Arg # 0 /\ TypeOK
      /\ UNCHANGED <<prog, count, cells, slice, mutex, ended>>
  BY DEF Run, SchedulerInv
<1>2. PICK w \in FreeVcpus \ {0} :
         /\ sp' = [sp EXCEPT ![w] = sp[cpuc]]
         /\ stack' = [stack EXCEPT ![w] = stack[cpuc]]
         /\ Set(w)
         /\ Fetch([status EXCEPT ![w] = "RUNNING"], Slices(w),
                  [Skip EXCEPT ![w] = Arg])
  BY DEF Run
<1>3. /\ cpuc \in Vcpus /\ status[cpuc] = "RUNNING"
      /\ ep[cpuc] + 1 \in 1 .. Len(prog) /\ Arg \in 1 .. Len(prog)
      /\ Uses(prog, {"run"}) /\ Len(prog) \in Nat
  <2>1. cpuc \in Vcpus /\ status[cpuc] = "RUNNING"
    BY <1>1, InsideCode, Executing
  <2>2. ep[cpuc] + 1 \in 1 .. Len(prog) /\ Len(prog) \in Nat
    BY <1>1, NextInside
  <2>3. Arg \in ArgsOf("run", Len(prog)) /\ prog[ep[cpuc]].op = "run"
        /\ ep[cpuc] \in 1 .. Len(prog)
    BY <1>1, Operand DEF At
  <2>4. Arg \in 1 .. Len(prog)
    BY <1>1, <2>2, <2>3 DEF ArgsOf
  <2> QED
    BY <2>1, <2>2, <2>3, <2>4 DEF Uses
<1>4. w \in Vcpus \ {0} /\ status[w] = "STOP" /\ w # cpuc
  BY <1>3 DEF FreeVcpus
<1> DEFINE eps == [ep EXCEPT ![w] = Arg, ![cpuc] = ep[cpuc] + 1]
<1>5. ep \in [Vcpus -> 1 .. Len(prog) + 1]
  BY <1>1 DEF TypeOK
<1>6. [Skip EXCEPT ![w] = Arg] = eps
  BY <1>3, <1>4, <1>5 DEF Skip, To
<1>7. eps[cpuc] \in 1 .. Len(prog) /\ \A v \in Vcpus : eps[v] <= Len(prog)
  BY <1>3, <1>4, <1>5 DEF ProcessInv
<1>8. status' = [status EXCEPT ![w] = "RUNNING"] /\ ep' = eps
  <2>1. Fetch([status EXCEPT ![w] = "RUNNING"], Slices(w), eps)
    BY <1>2, <1>6
  <2> HIDE DEF eps
  <2> QED
    BY <1>3, <1>7, <2>1, FetchInside
<1>9. ProcessInv'
  <2>1. ~Uses(prog, {"push", "pop"}) /\ ~Uses(prog', {"push", "pop"})
    BY <1>1, <1>3 DEF Independent
  <2> QED
    BY <1>1, <1>7, <1>8, <2>1 DEF ProcessInv
<1>10. Processes!Run(cpuc)
  <2>1. Processes!At(cpuc, "run") /\ Processes!Arg(cpuc) = Arg
    <3>1. ep[cpuc] <= Len(prog)
      BY <1>3 DEF ProcessInv
    <3> QED
      BY <1>1, <1>3, <3>1 DEF At, Processes!At, Processes!Arg, Arg
  <2>2. w \in Processes!Vcpus \ {0}
    BY <1>4 DEF Processes!Vcpus, Vcpus
  <2> QED
    BY <1>1, <1>2, <1>4, <1>8, <2>1, <2>2 DEF Processes!Run, Set
<1>11. cpuc \in Processes!Vcpus
  BY <1>3 DEF Processes!Vcpus, Vcpus
<1> QED
  BY <1>9, <1>10, <1>11 DEF Processes!Next, Processes!Proceed

LEMMA ProcessExit1 ==
  ASSUME SchedulerInv, ProcessInv, Independent(prog), Exit
  PROVE  ProcessInv' /\ [Processes!Next]_(Processes!vars)
<1>1. /\ At("vexit") /\ TypeOK
      /\ UNCHANGED <<prog, reg, count, sp, cells, slice, mutex, stack, ended>>
      /\ Fetch([status EXCEPT ![cpuc] = "STOP"], scheduler, ep)
  BY DEF Exit, SchedulerInv
<1>2. /\ cpuc \in Vcpus /\ ep[cpuc] \in 1 .. Len(prog) /\ Len(prog) \in Nat
      /\ status \in [Vcpus -> {"RUNNING", "STOP"}]
  BY <1>1, Operand DEF TypeOK
<1> DEFINE st == [status EXCEPT ![cpuc] = "STOP"]
<1>3. status' = st /\ ep' = ep
  BY <1>1, <1>2, FetchInside
<1>4. cpuc' = cpuc \/ cpuc' \in NextVcpu(st, cpuc)
  <2>1. cpuc' = cpuc \/ \E st1 : cpuc' \in NextVcpu(st1, cpuc) /\ status' = st1
    BY <1>1 DEF Fetch
  <2> QED
    BY <2>1, <1>3
<1>5. ASSUME Uses(prog, {"push", "pop"})
      PROVE  cpuc' = 0 /\ \A v \in Vcpus \ {0} : status'[v] = "STOP"
  <2>1. cpuc = 0 /\ \A v \in Vcpus \ {0} : status[v] = "STOP"
    BY <1>5 DEF ProcessInv
  <2>2. \A v \in Vcpus \ {0} : st[v] = "STOP"
    BY <2>1, <1>2
  <2>3. cpuc' = 0
    <3>1. CASE cpuc' = cpuc
      BY <2>1, <3>1
    <3>2. CASE cpuc' \in NextVcpu(st, cpuc)
      BY <2>1, <2>2, <3>2, <1>2, NextVcpuRuns
    <3> QED
      BY <3>1, <3>2, <1>4
  <2> QED
    BY <2>2, <2>3, <1>3
<1>6. ProcessInv'
  BY <1>1, <1>3, <1>5 DEF ProcessInv, Uses
<1>7. CASE status[cpuc] = "RUNNING"
  <2>1. Processes!Exit(cpuc) /\ cpuc \in Processes!Vcpus
    BY <1>1, <1>2, <1>3, <1>7 DEF Processes!Exit, Processes!At, At, Processes!Vcpus, Vcpus
  <2> QED
    BY <1>6, <2>1 DEF Processes!Next, Processes!Proceed
<1>8. CASE status[cpuc] = "STOP"
  <2>1. status' = status
    BY <1>2, <1>3, <1>8
  <2> QED
    BY <1>1, <1>3, <1>6, <2>1 DEF Processes!vars
<1> QED
  BY <1>2, <1>7, <1>8

\* The ways the POSIX thread ends: a running vcpu made them.
LEMMA ProcessEnds ==
  ASSUME SchedulerInv, ProcessInv, Independent(prog),
         StackError \/ RunFails \/ ThreadExit \/ ProcessExit \/ FetchPastEnd
  PROVE  ProcessInv' /\ [Processes!Next]_(Processes!vars)
<1>1. TypeOK /\ cpuc \in Vcpus
  BY DEF SchedulerInv, TypeOK
<1>2. ~FetchPastEnd
  <2>1. ep[cpuc] \in 1 .. Len(prog) + 1 /\ ep[cpuc] <= Len(prog)
    BY <1>1 DEF TypeOK, ProcessInv
  <2>2. Len(prog) \in Nat
    <3>1. IsProgram(prog)
      BY <1>1, ConstantsAssumption DEF TypeOK
    <3> QED
      BY <3>1, LenProperties DEF IsProgram
  <2> QED
    BY <2>1, <2>2 DEF FetchPastEnd
<1>3. /\ \E how \in {"process", "thread", "fatal"} : Ends(how)
      /\ \E op \in {"push", "pop", "run", "threadexit", "exit"} : At(op)
  BY <1>2 DEF StackError, RunFails, ThreadExit, ProcessExit
<1>4. status[cpuc] = "RUNNING" /\ ended = "no"
  BY <1>3, Executing DEF At
<1>5. UNCHANGED <<prog, cpuc, status, ep, reg, count, stack, sp, cells, mutex>>
  BY <1>3 DEF Ends, machineVars
<1>6. ProcessInv'
  BY <1>5 DEF ProcessInv, Uses
<1>7. Processes!End(cpuc)
  BY <1>3, <1>4, <1>5 DEF Processes!End, Ends
<1> QED
  BY <1>1, <1>6, <1>7 DEF Processes!Next, Processes!Vcpus, Vcpus

\* The only vcpu of a program that pushes: its stack is its part of the memory.
LEMMA ProcessPush ==
  ASSUME SchedulerInv, ProcessInv, Independent(prog), Push
  PROVE  ProcessInv' /\ [Processes!Next]_(Processes!vars)
<1>1. /\ At("push") /\ TypeOK /\ sp[cpuc] < StackSize
      /\ sp' = [sp EXCEPT ![cpuc] = sp[cpuc] + 1]
      /\ cells' = [cells EXCEPT ![sp[cpuc] + 1] = Arg]
      /\ stack' = [stack EXCEPT ![cpuc] = Append(stack[cpuc], Arg)]
      /\ UNCHANGED <<reg, count, jumpoffs, slice, mutex>>
      /\ GoOn(Skip)
  BY DEF Push, SchedulerInv
<1>2. ep[cpuc] + 1 \in 1 .. Len(prog) /\ Uses(prog, {"push"}) /\ Arg \in Int
  <2>1. Arg \in Int
    BY <1>1, Operand
  <2>2. ep[cpuc] + 1 \in 1 .. Len(prog)
    BY <1>1, NextInside
  <2>3. ep[cpuc] \in 1 .. Len(prog) /\ prog[ep[cpuc]].op = "push"
    BY <1>1, Operand DEF At
  <2> QED
    BY <2>1, <2>2, <2>3 DEF Uses
<1>3. Uses(prog, {"push", "pop"}) /\ GoOn([ep EXCEPT ![cpuc] = ep[cpuc] + 1])
  BY <1>1, <1>2 DEF Uses, Skip, To
<1>4. /\ cpuc = 0
      /\ \A v \in Vcpus \ {0} : status[v] = "STOP"
      /\ Len(stack[0]) = sp[0]
      /\ \A i \in 1 .. sp[0] : stack[0][i] = cells[i]
  BY <1>3 DEF ProcessInv
<1>5. /\ status' = status /\ ep' = [ep EXCEPT ![cpuc] = ep[cpuc] + 1]
      /\ prog' = prog /\ ended' = ended
      /\ Processes!At(cpuc, "push")
      /\ cpuc \in Processes!Vcpus
      /\ \A v \in Vcpus : ep'[v] <= Len(prog')
      /\ cpuc' = 0
  BY <1>1, <1>2, <1>3, GoOnProcess
<1>6. /\ stack \in [Vcpus -> Seq(Int)] /\ stack[0] \in Seq(Int) /\ 0 \in Vcpus
      /\ sp \in [Vcpus -> 0 .. StackSize] /\ sp[0] \in Nat
      /\ cells \in [1 .. StackSize -> Int] /\ StackSize \in Nat
  <2>1. StackSize \in Nat /\ 0 \in Vcpus
    BY Sizes, ConstantsAssumption
  <2>2. /\ stack \in [Vcpus -> Seq(Int)] /\ sp \in [Vcpus -> 0 .. StackSize]
        /\ cells \in [1 .. StackSize -> Int]
    BY <1>1 DEF TypeOK
  <2> QED
    BY <2>1, <2>2
<1> DEFINE top == Append(stack[0], Arg)
<1>7. stack'[0] = top /\ sp'[0] = sp[0] + 1
  BY <1>1, <1>4, <1>6
<1>8. /\ Len(top) = sp[0] + 1 /\ top[sp[0] + 1] = Arg
      /\ \A i \in 1 .. sp[0] : top[i] = stack[0][i]
  BY <1>2, <1>4, <1>6, AppendProperties
<1> HIDE DEF top
<1>9. \A i \in 1 .. sp[0] + 1 : top[i] = cells'[i]
  <2>1. sp[0] + 1 \in 1 .. StackSize
    BY <1>1, <1>4, <1>6
  <2>2. cells'[sp[0] + 1] = Arg /\ \A i \in 1 .. sp[0] : cells'[i] = cells[i]
    BY <1>1, <1>4, <1>6, <2>1
  <2>3. ASSUME NEW i \in 1 .. sp[0] + 1 PROVE top[i] = cells'[i]
    <3>1. CASE i = sp[0] + 1
      BY <1>8, <2>2, <3>1
    <3>2. CASE i \in 1 .. sp[0]
      BY <1>4, <1>8, <2>2, <3>2
    <3> QED
      BY <1>6, <3>1, <3>2
  <2> QED
    BY <2>3
<1>10. ProcessInv'
  BY <1>4, <1>5, <1>7, <1>8, <1>9 DEF ProcessInv
<1>11. Processes!Push(cpuc)
  BY <1>1, <1>5 DEF Processes!Push, Processes!Next1, Processes!Goto, Processes!Arg, Arg
<1> QED
  BY <1>5, <1>10, <1>11 DEF Processes!Next, Processes!Proceed

LEMMA ProcessPop ==
  ASSUME SchedulerInv, ProcessInv, Independent(prog), Pop
  PROVE  ProcessInv' /\ [Processes!Next]_(Processes!vars)
<1>1. /\ At("pop") /\ TypeOK /\ sp[cpuc] > 0
      /\ reg' = [reg EXCEPT ![cpuc] = cells[sp[cpuc]]]
      /\ sp' = [sp EXCEPT ![cpuc] = sp[cpuc] - 1]
      /\ stack' = [stack EXCEPT ![cpuc] = SubSeq(@, 1, Len(@) - 1)]
      /\ UNCHANGED <<count, cells, jumpoffs, slice, mutex>>
      /\ GoOn(Skip)
  BY DEF Pop, SchedulerInv, Set
<1>2. ep[cpuc] + 1 \in 1 .. Len(prog) /\ Uses(prog, {"pop"})
  <2>1. ep[cpuc] + 1 \in 1 .. Len(prog)
    BY <1>1, NextInside
  <2>2. ep[cpuc] \in 1 .. Len(prog) /\ prog[ep[cpuc]].op = "pop"
    BY <1>1, Operand DEF At
  <2> QED
    BY <2>1, <2>2 DEF Uses
<1>3. Uses(prog, {"push", "pop"}) /\ GoOn([ep EXCEPT ![cpuc] = ep[cpuc] + 1])
  BY <1>1, <1>2 DEF Uses, Skip, To
<1>4. /\ cpuc = 0
      /\ \A v \in Vcpus \ {0} : status[v] = "STOP"
      /\ Len(stack[0]) = sp[0]
      /\ \A i \in 1 .. sp[0] : stack[0][i] = cells[i]
  BY <1>3 DEF ProcessInv
<1>5. /\ status' = status /\ ep' = [ep EXCEPT ![cpuc] = ep[cpuc] + 1]
      /\ prog' = prog /\ ended' = ended
      /\ Processes!At(cpuc, "pop")
      /\ cpuc \in Processes!Vcpus
      /\ \A v \in Vcpus : ep'[v] <= Len(prog')
      /\ cpuc' = 0
  BY <1>1, <1>2, <1>3, GoOnProcess
<1>6. /\ stack \in [Vcpus -> Seq(Int)] /\ stack[0] \in Seq(Int) /\ 0 \in Vcpus
      /\ sp \in [Vcpus -> 0 .. StackSize] /\ sp[0] \in Nat /\ sp[0] > 0
  BY <1>1, <1>4, Sizes DEF TypeOK
<1> DEFINE rest == SubSeq(stack[0], 1, sp[0] - 1)
<1>7. stack'[0] = rest /\ sp'[0] = sp[0] - 1
  BY <1>1, <1>4, <1>6
<1>8. Len(rest) = sp[0] - 1 /\ \A i \in 1 .. sp[0] - 1 : rest[i] = stack[0][i]
  BY <1>4, <1>6, SubSeqProperties
<1> HIDE DEF rest
<1>9. \A i \in 1 .. sp[0] - 1 : rest[i] = cells'[i]
  <2>1. cells' = cells
    BY <1>1
  <2>2. \A i \in 1 .. sp[0] - 1 : i \in 1 .. sp[0]
    BY <1>6
  <2> QED
    BY <1>4, <1>8, <2>1, <2>2
<1>10. ProcessInv'
  BY <1>4, <1>5, <1>7, <1>8, <1>9 DEF ProcessInv
<1>11. stack[0] # << >> /\ stack[0][Len(stack[0])] = cells[sp[0]]
  BY <1>4, <1>6
<1>12. Processes!Pop(cpuc)
  BY <1>1, <1>4, <1>5, <1>11 DEF Processes!Pop, Processes!Next1, Processes!Goto
<1> QED
  BY <1>5, <1>10, <1>12 DEF Processes!Next, Processes!Proceed

LEMMA ProcessStep ==
  ASSUME SchedulerInv, ProcessInv, Independent(prog), [Next]_vars
  PROVE  ProcessInv' /\ [Processes!Next]_(Processes!vars)
<1>1. CASE Stop \/ CountedLoop
  <2>1. \E op \in {"stop", "loop"} : At(op)
    BY <1>1 DEF Stop, CountedLoop
  <2> QED
    BY <2>1, InsideCode DEF SchedulerInv
<1>2. CASE UNCHANGED vars
  <2>1. ProcessInv'
    BY <1>2 DEF vars, machineVars, ProcessInv, Uses
  <2> QED
    BY <1>2, <2>1 DEF vars, machineVars, Processes!vars
<1> QED
  BY <1>1, <1>2, ProcessGoOn, ProcessRun, ProcessExit1, ProcessEnds, ProcessPush,
     ProcessPop DEF Next

(***************************************************************************)
(* For every number of vcpus, every slice and every such program, every    *)
(* step of the code is a step of one vcpu as a process of its own, or none *)
(* (the part of ImplementsVCpus that does without fairness): task_scheduler *)
(* loses, repeats and mixes up no instruction.                             *)
(***************************************************************************)
THEOREM VcpusAreProcesses ==
  Spec /\ Independent(prog)
     => Processes!Init /\ [][Processes!Next]_(Processes!vars)
<1>1. ASSUME SchedulerInv, ProcessInv, Independent(prog), [Next]_vars
      PROVE  /\ ProcessInv' /\ Independent(prog)'
             /\ [Processes!Next]_(Processes!vars)
  <2>1. ProcessInv' /\ [Processes!Next]_(Processes!vars)
    BY <1>1, ProcessStep
  <2>2. prog' = prog
    BY <1>1 DEF Next, Work, Jmp, Jmpi, CountedLoop, Push, Pop, StackError,
       Run, RunFails, Stop, Exit, Join, CountFree, SetMax, Lock, Unlock,
       ThreadExit, ProcessExit, FetchPastEnd, GoOn, Ends, vars
  <2> QED
    BY <2>1, <2>2, <1>1
<1> QED
  BY <1>1, InitInv, InvStep, ProcessInit, ProcessStart, PTL DEF Spec
=============================================================================
