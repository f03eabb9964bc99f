-------------------------- MODULE VmThreads_proofs --------------------------
(***************************************************************************)
(* Proofs about VmThreads for every number of cores, threads and mutexes.  *)
(***************************************************************************)
EXTENDS VmThreads, TLAPS

LEMMA CoreZero == 0 \in Cores /\ Cores \subseteq Nat
  BY ConstantsAssumption DEF Cores

\* The variables keep their types, whatever the bytecode does.
LEMMA TypeStep == TypeOK /\ [Next]_vars => TypeOK'
<1> SUFFICES ASSUME TypeOK, [Next]_vars PROVE TypeOK'
  OBVIOUS
<1> USE DEF TypeOK
<1>1. ASSUME NEW t \in Threads, Start(t) PROVE TypeOK'
  <2>1. CASE StartFind(t)
    BY <2>1 DEF StartFind, FreeCores, tableVars, mutexVars, mainVars, ThreadPC
  <2>2. CASE StartNoCore(t)
    BY <2>2 DEF StartNoCore, tableVars, mutexVars, mainVars, ThreadPC
  <2>3. CASE StartFill(t)
    <3>1. region[t] \in Nat /\ newCpu[t] \in Cores /\ newCpu[t] \in Nat
      BY CoreZero DEF TypeOK
    <3>2. region[t] + newCpu[t] \in Nat
      BY <3>1
    <3> QED
      BY <2>3, <3>1, <3>2 DEF StartFill, StackOf, Unrequested, mutexVars, mainVars, ThreadPC
  <2>4. CASE StartCreate(t)
    BY <2>4 DEF StartCreate, Begin, tableVars, mutexVars, mainVars, ThreadPC
  <2>5. CASE StartCreateFails(t)
    BY <2>5 DEF StartCreateFails, tableVars, mutexVars, mainVars, ThreadPC
  <2>6. CASE StartMark(t)
    BY <2>6 DEF StartMark, Marked, mutexVars, mainVars, ThreadPC
  <2> QED
    BY <1>1, <2>1, <2>2, <2>3, <2>4, <2>5, <2>6 DEF Start
<1>2. ASSUME NEW t \in Threads, Boot(t) PROVE TypeOK'
  BY <1>2 DEF Boot, tableVars, mutexVars, mainVars, ThreadPC
<1>3. ASSUME NEW t \in Threads, Sync(t) PROVE TypeOK'
  <2>1. CASE JoinBegin(t)
    BY <2>1 DEF JoinBegin, tableVars, mutexVars, mainVars, ThreadPC
  <2>2. CASE JoinDone(t)
    BY <2>2 DEF JoinDone, tableVars, mutexVars, mainVars, ThreadPC
  <2>3. CASE Lock(t) \/ Unlock(t)
    BY <2>3 DEF Lock, Unlock, tableVars, threadVars, mainVars
  <2>4. ASSUME NEW m \in Mutexes, GlobalLock(t, m) \/ GlobalUnlock(t, m)
        PROVE  TypeOK'
    BY <2>4 DEF GlobalLock, GlobalUnlock, tableVars, threadVars, mainVars
  <2>5. CASE CountFree(t)
    BY <2>5 DEF CountFree, SomeFree, tableVars, mutexVars, mainVars
  <2>6. ASSUME NEW c \in Cores, RequestExit(t, c) PROVE TypeOK'
    BY <2>6 DEF RequestExit, mutexVars, mainVars
  <2>7. CASE CheckExit(t)
    BY <2>7 DEF CheckExit, tableVars, mutexVars, mainVars
  <2> QED
    BY <1>3, <2>1, <2>2, <2>3, <2>4, <2>5, <2>6, <2>7 DEF Sync
<1>4. ASSUME NEW t \in Threads, End(t) PROVE TypeOK'
  <2>1. CASE ExitSet(t)
    BY <2>1 DEF ExitSet, tableVars, mutexVars, mainVars, ThreadPC
  <2>2. CASE ExitStop(t)
    BY <2>2 DEF ExitStop, Stopped, mutexVars, mainVars, ThreadPC
  <2>3. CASE Fault(t) \/ Leave(t) \/ ReloadFails(t)
    BY <2>3 DEF Fault, Leave, ReloadFails, tableVars, mutexVars, mainVars, ThreadPC
  <2>4. CASE ReloadFree(t)
    BY <2>4 DEF ReloadFree, tableVars, mutexVars, mainVars, ThreadPC
  <2>5. CASE ReloadLoad(t)
    BY <2>5 DEF ReloadLoad, tableVars, mutexVars, ThreadPC
  <2> QED
    BY <1>4, <2>1, <2>2, <2>3, <2>4, <2>5 DEF End
<1>5. CASE Main
  <2>1. CASE MainSetup
    BY <2>1 DEF MainSetup, mutexVars, threadVars, MainPC
  <2>2. CASE MainCreate
    BY <2>2, CoreZero DEF MainCreate, Begin, tableVars, mutexVars, MainPC, ThreadPC
  <2>3. CASE MainJoin
    BY <2>3 DEF MainJoin, tableVars, mutexVars, threadVars, MainPC
  <2>4. CASE HoldClean \/ CleanMemory \/ CleanTable
    BY <2>4 DEF HoldClean, CleanMemory, CleanTable, tableVars, mutexVars, threadVars, MainPC
  <2>5. CASE ProcessExit
    BY <2>5 DEF ProcessExit, tableVars, mutexVars, MainPC, ThreadPC
  <2> QED
    BY <1>5, <2>1, <2>2, <2>3, <2>4, <2>5 DEF Main
<1>6. CASE UNCHANGED vars
  BY <1>6 DEF vars, tableVars, mutexVars, threadVars, mainVars
<1> QED
  BY <1>1, <1>2, <1>3, <1>4, <1>5, <1>6 DEF Next, Ended

LEMMA TypeInit == Init => TypeOK
<1> SUFFICES ASSUME Init PROVE TypeOK
  OBVIOUS
<1> USE CoreZero DEF Init
<1>1. /\ status \in [Cores -> {"STOP", "RUNNING"}]
      /\ slot \in [Cores -> Nat]
      /\ exitRequest \in [Cores -> BOOLEAN]
  OBVIOUS
<1>2. /\ pc \in [Threads -> ThreadPC]
      /\ core \in [Threads -> Cores]
      /\ region \in [Threads -> Nat]
      /\ newCpu \in [Threads -> Cores]
  BY DEF ThreadPC
<1>3. /\ sawFree \in [Threads -> BOOLEAN]
      /\ told \in [Threads -> BOOLEAN]
      /\ joined \in [Threads -> BOOLEAN]
      /\ asked \subseteq Threads
  OBVIOUS
<1> QED
  BY <1>1, <1>2, <1>3 DEF TypeOK, MainPC

\* Type correctness, for all constants.
THEOREM TypeCorrect == Spec => []TypeOK
  BY TypeInit, TypeStep, PTL DEF Spec

-----------------------------------------------------------------------------
\* With one starter, the operations that need care are those of core 0.
LEMMA OnlyZero ==
  ASSUME OneStarter, TypeOK, NEW t \in Threads, NEW op \in {"start", "join", "reload"},
         At(t, op)
  PROVE  core[t] = 0
  BY DEF OneStarter, TypeOK, At

LEMMA SlotInit == ASSUME Init PROVE SlotInv
  BY DEF Init, SlotInv, FirstOnZero, ChosenUnused, UnmarkedIsPending,
         SlotExclusive, JoinedAlone, NoneAtRestart, StackIsCores, Occupies,
         Occupying, Interpreting

\* The start keeps the invariant: the core it finds has no thread, because the
\* only thread that could be on a core that is STOP is one about to be marked.
LEMMA SlotStart ==
  ASSUME OneStarter, TypeOK, SlotInv, NEW t \in Threads, Start(t)
  PROVE  SlotInv'
<1> USE DEF SlotInv, FirstOnZero, ChosenUnused, UnmarkedIsPending,
            SlotExclusive, JoinedAlone, NoneAtRestart, StackIsCores, Occupies,
            Occupying, Interpreting, TypeOK
<1>1. CASE StartFind(t)
  <2>1. core[t] = 0
    BY <1>1, OnlyZero DEF StartFind
  <2> QED
    BY <1>1, <2>1 DEF StartFind, At, FreeCores, tableVars, mainVars
<1>2. CASE StartNoCore(t)
  BY <1>2 DEF StartNoCore, At, tableVars, mainVars
<1>3. CASE StartFill(t)
  <2>1. /\ core[t] = 0 /\ t = first
        /\ region[t] = 0 /\ newCpu[t] \in Nat
    BY <1>3, CoreZero DEF StartFill
  <2>2. StackOf(t) = newCpu[t]
    BY <2>1 DEF StackOf
  <2>3. /\ slot' = [slot EXCEPT ![newCpu[t]] = newCpu[t]]
        /\ pc' = [pc EXCEPT ![t] = "create"]
        /\ UNCHANGED <<status, core, region, newCpu, joined, hotReload, vm,
                       first>>
    BY <1>3, <2>2 DEF StartFill, mainVars
  <2>4. StackIsCores'
    BY <1>3, <2>1, <2>3 DEF StartFill
  <2> QED
    BY <1>3, <2>1, <2>3, <2>4 DEF StartFill
<1>4. CASE StartCreate(t)
  <2>1. PICK u \in Threads :
           /\ Fresh(u)
           /\ pc' = [pc EXCEPT ![t] = "mark", ![u] = "boot"]
           /\ Begin(u, newCpu[t])
    BY <1>4 DEF StartCreate
  <2>2. /\ pc[t] = "create" /\ core[t] = 0 /\ t = first /\ u # t
        /\ newCpu[t] # 0 /\ ~joined[t] /\ vm = "wait" /\ ~hotReload
    BY <1>4, <2>1 DEF StartCreate, Fresh
  <2>3. /\ core' = [core EXCEPT ![u] = newCpu[t]]
        /\ joined' = [joined EXCEPT ![u] = TRUE]
        /\ UNCHANGED <<status, slot, region, newCpu, hotReload, vm, first>>
    BY <1>4, <2>1 DEF StartCreate, Begin, tableVars, mainVars
  <2>4. FirstOnZero' /\ ChosenUnused'
    BY <2>1, <2>2, <2>3
  <2>5. UnmarkedIsPending'
    <3> SUFFICES ASSUME NEW v \in Threads, Occupies(v)',
                        (status[core[v]] # "RUNNING")'
                 PROVE  (\E s \in Threads : pc[s] = "mark" /\ newCpu[s] = core[v])'
      OBVIOUS
    <3>1. CASE v = u
      BY <2>1, <2>2, <2>3, <3>1
    <3>2. CASE v # u
      BY <2>1, <2>2, <2>3, <3>2
    <3> QED
      BY <3>1, <3>2
  <2>6. SlotExclusive'
    BY <2>1, <2>2, <2>3
  <2>7. JoinedAlone' /\ NoneAtRestart'
    BY <2>1, <2>2, <2>3
  <2>8. StackIsCores'
    BY <2>1, <2>2, <2>3
  <2> QED
    BY <2>4, <2>5, <2>6, <2>7, <2>8
<1>5. CASE StartCreateFails(t)
  BY <1>5 DEF StartCreateFails, tableVars, mainVars
<1>6. CASE StartMark(t)
  BY <1>6 DEF StartMark, Marked, mainVars
<1> QED
  BY <1>1, <1>2, <1>3, <1>4, <1>5, <1>6 DEF Start

\* A new thread takes the stack of its core.
LEMMA SlotBoot ==
  ASSUME TypeOK, SlotInv, NEW t \in Threads, Boot(t)
  PROVE  SlotInv'
<1> USE DEF SlotInv, FirstOnZero, ChosenUnused, UnmarkedIsPending,
            SlotExclusive, JoinedAlone, NoneAtRestart, StackIsCores, Occupies,
            Occupying, Interpreting, TypeOK
<1>1. /\ pc[t] = "boot" /\ pc' = [pc EXCEPT ![t] = "run"]
      /\ region' = [region EXCEPT ![t] = core[t]]
      /\ UNCHANGED <<status, slot, core, newCpu, joined, hotReload, vm, first>>
  BY DEF Boot, tableVars, mainVars
<1> QED
  BY <1>1

\* A scan of join that finds nobody RUNNING leaves no thread but the joiner:
\* an unmarked child has its starter in the start, and the starter is here.
LEMMA JoinerAlone ==
  ASSUME TypeOK, SlotInv, NEW t \in Threads, JoinDone(t),
         NEW u \in Threads, Occupies(u)
  PROVE  u = t
<1> USE DEF SlotInv, FirstOnZero, UnmarkedIsPending, SlotExclusive, Occupies,
            Occupying, Interpreting, TypeOK
<1> SUFFICES ASSUME u # t PROVE FALSE
  OBVIOUS
<1>1. core[t] = 0 /\ core[u] # 0 /\ core[u] \in Cores
  BY DEF JoinDone
<1>2. status[core[u]] # "RUNNING"
  BY <1>1 DEF JoinDone, NoChildRunning
<1>3. PICK s \in Threads : pc[s] = "mark"
  BY <1>2
<1> QED
  BY <1>1, <1>3 DEF JoinDone

\* Only the last scan takes a thread from join back to its bytecode.
LEMMA JoinReturns ==
  ASSUME TypeOK, [Next]_vars, NEW t \in Threads, pc[t] = "join", pc'[t] = "run"
  PROVE  JoinDone(t)
<1> USE DEF TypeOK
<1>1. ASSUME NEW u \in Threads, Start(u) PROVE FALSE
  BY <1>1 DEF Start, StartFind, StartNoCore, StartFill, StartCreate, Fresh,
     StartCreateFails, StartMark, At
<1>2. ASSUME NEW u \in Threads, Boot(u) PROVE FALSE
  BY <1>2 DEF Boot
<1>3. ASSUME NEW u \in Threads, Sync(u) PROVE JoinDone(t)
  BY <1>3 DEF Sync, JoinBegin, JoinDone, Lock, Unlock, GlobalLock,
     GlobalUnlock, CountFree, RequestExit, CheckExit, At, threadVars
<1>4. ASSUME NEW u \in Threads, End(u) PROVE FALSE
  BY <1>4 DEF End, ExitSet, ExitStop, Fault, Leave, ReloadFree, ReloadLoad,
     ReloadFails, At
<1>5. ~Main
  BY DEF Main, MainSetup, MainCreate, MainJoin, HoldClean, CleanMemory,
     CleanTable, ProcessExit, Fresh, threadVars
<1>6. ~UNCHANGED vars
  BY DEF vars, threadVars
<1> QED
  BY <1>1, <1>2, <1>3, <1>4, <1>5, <1>6 DEF Next, Ended

\* join, the mutexes, the count and the exit requests keep the invariant.
LEMMA SlotSync ==
  ASSUME OneStarter, TypeOK, SlotInv, NEW t \in Threads, Sync(t)
  PROVE  SlotInv'
<1> USE DEF SlotInv, FirstOnZero, ChosenUnused, UnmarkedIsPending,
            SlotExclusive, JoinedAlone, NoneAtRestart, StackIsCores, Occupies,
            Occupying, Interpreting, TypeOK
<1>1. CASE JoinBegin(t)
  <2>1. core[t] = 0
    BY <1>1, OnlyZero DEF JoinBegin
  <2> QED
    BY <1>1, <2>1 DEF JoinBegin, At, tableVars, mainVars
<1>2. CASE JoinDone(t)
  <2>1. \A u \in Threads : Occupies(u) => u = t
    BY <1>2, JoinerAlone
  <2> QED
    BY <1>2, <2>1 DEF JoinDone, tableVars, mainVars
<1>3. CASE UNCHANGED <<status, slot, pc, core, region, newCpu, joined, mainVars>>
  BY <1>3 DEF mainVars
<1>4. (\E m \in Mutexes : GlobalLock(t, m) \/ GlobalUnlock(t, m)) =>
         UNCHANGED <<status, slot, pc, core, region, newCpu, joined, mainVars>>
  BY DEF GlobalLock, GlobalUnlock, tableVars, threadVars
<1> QED
  BY <1>1, <1>2, <1>3, <1>4 DEF Sync, Lock, Unlock, CountFree, RequestExit,
     CheckExit, tableVars, threadVars

\* Ending a thread keeps the invariant: nobody else is on the core it stops.
LEMMA SlotEnd ==
  ASSUME OneStarter, TypeOK, SlotInv, NEW t \in Threads, End(t)
  PROVE  SlotInv'
<1> USE DEF SlotInv, FirstOnZero, ChosenUnused, UnmarkedIsPending,
            SlotExclusive, JoinedAlone, NoneAtRestart, StackIsCores, Occupies,
            Occupying, Interpreting, TypeOK
<1>1. CASE ExitSet(t)
  BY <1>1 DEF ExitSet, At, tableVars, mainVars
<1>2. CASE ExitStop(t)
  BY <1>2 DEF ExitStop, Stopped, mainVars
<1>3. CASE Fault(t) \/ Leave(t)
  BY <1>3 DEF Fault, Leave, tableVars, mainVars
<1>4. CASE ReloadFails(t)
  BY <1>4 DEF ReloadFails, tableVars, mainVars
<1>5. CASE ReloadFree(t)
  <2>1. core[t] = 0
    BY <1>5, OnlyZero DEF ReloadFree
  <2>2. joined[t]
    BY <1>5 DEF ReloadFree, MayEnd, OneStarter
  <2> QED
    BY <1>5, <2>1, <2>2 DEF ReloadFree, At, tableVars, mainVars
<1>6. CASE ReloadLoad(t)
  BY <1>6 DEF ReloadLoad, tableVars
<1> QED
  BY <1>1, <1>2, <1>3, <1>4, <1>5, <1>6 DEF End

\* main() keeps the invariant: it begins again only when nobody runs.
LEMMA SlotMain ==
  ASSUME TypeOK, SlotInv, Main
  PROVE  SlotInv'
<1> USE DEF SlotInv, FirstOnZero, ChosenUnused, UnmarkedIsPending,
            SlotExclusive, JoinedAlone, NoneAtRestart, StackIsCores, Occupies,
            Occupying, Interpreting, TypeOK
<1>1. CASE MainSetup
  BY <1>1, CoreZero DEF MainSetup, threadVars
<1>2. CASE MainCreate
  <2>1. PICK t \in Threads :
           /\ pc' = [pc EXCEPT ![t] = "boot"]
           /\ first' = t
           /\ Begin(t, 0)
    BY <1>2 DEF MainCreate
  <2>2. /\ \A u \in Threads : ~Occupies(u)
        /\ status[0] = "RUNNING" /\ slot[0] = 0 /\ vm' = "wait"
        /\ core' = [core EXCEPT ![t] = 0]
        /\ joined' = [joined EXCEPT ![t] = TRUE]
        /\ UNCHANGED <<status, slot, region, newCpu, hotReload>>
    BY <1>2, <2>1 DEF MainCreate, Begin, tableVars
  <2>3. ~hotReload
    BY <1>2 DEF MainCreate
  <2>4. FirstOnZero' /\ ChosenUnused' /\ UnmarkedIsPending' /\ SlotExclusive'
    BY <2>1, <2>2, CoreZero
  <2>5. JoinedAlone'
    BY <2>1, <2>2
  <2>6. NoneAtRestart'
    BY <2>1, <2>2, <2>3
  <2>7. StackIsCores'
    BY <2>1, <2>2, CoreZero
  <2> QED
    BY <2>4, <2>5, <2>6, <2>7
<1>3. CASE MainJoin
  BY <1>3 DEF MainJoin, FirstEnded, tableVars, threadVars
<1>4. CASE HoldClean \/ CleanMemory \/ CleanTable
  BY <1>4 DEF HoldClean, CleanMemory, CleanTable, tableVars, threadVars
<1>5. CASE ProcessExit
  BY <1>5 DEF ProcessExit, tableVars
<1> QED
  BY <1>1, <1>2, <1>3, <1>4, <1>5 DEF Main

LEMMA SlotStep == OneStarter /\ TypeOK /\ SlotInv /\ [Next]_vars => SlotInv'
<1> SUFFICES ASSUME OneStarter, TypeOK, SlotInv, [Next]_vars PROVE SlotInv'
  OBVIOUS
<1>1. CASE UNCHANGED vars
  BY <1>1 DEF vars, tableVars, threadVars, mainVars, SlotInv, FirstOnZero,
     ChosenUnused, UnmarkedIsPending, SlotExclusive, JoinedAlone,
     NoneAtRestart, StackIsCores, Occupies
<1> QED
  BY <1>1, SlotStart, SlotBoot, SlotSync, SlotEnd, SlotMain DEF Next, Ended

LEMMA SlotCorrect ==
  ASSUME OneStarter PROVE Spec => [](TypeOK /\ SlotInv)
<1>1. Init => TypeOK /\ SlotInv
  BY TypeInit, SlotInit
<1>2. TypeOK /\ SlotInv /\ [Next]_vars => (TypeOK /\ SlotInv)'
  BY TypeStep, SlotStep
<1> QED
  BY <1>1, <1>2, PTL DEF Spec

\* A core is never given to a second thread, for any number of cores and any
\* bytecode of which only the main thread starts, joins and reloads.
THEOREM SlotsExclusive ==
  ASSUME OneStarter PROVE Spec => []SlotExclusive
<1>1. SlotInv => SlotExclusive
  BY DEF SlotInv
<1> QED
  BY <1>1, SlotCorrect, PTL

\* Under the same assumption every thread has a stack of its own inside the
\* stacks load_object reserves.
THEOREM StacksDisjoint ==
  ASSUME OneStarter PROVE Spec => []StackDisjoint
<1>1. TypeOK /\ SlotInv => StackDisjoint
  BY DEF TypeOK, SlotInv, SlotExclusive, StackIsCores, StackDisjoint
<1> QED
  BY <1>1, SlotCorrect, PTL

\* And when join returns, the joining thread is the only one.
THEOREM JoinIsSound ==
  ASSUME OneStarter PROVE Spec => JoinSound
<1>1. TypeOK /\ SlotInv /\ SlotInv' /\ [Next]_vars
        => [\A t \in Threads : pc[t] = "join" /\ pc'[t] = "run" =>
               \A u \in Threads \ {t} : ~Occupies(u)]_vars
  <2> SUFFICES ASSUME TypeOK, SlotInv, SlotInv', [Next]_vars,
                      NEW t \in Threads, pc[t] = "join", pc'[t] = "run",
                      NEW u \in Threads \ {t}, Occupies(u)
               PROVE  FALSE
    OBVIOUS
  <2>1. JoinDone(t)
    BY JoinReturns
  <2> QED
    BY <2>1, JoinerAlone
<1> QED
  BY <1>1, SlotCorrect, PTL DEF Spec, JoinSound

-----------------------------------------------------------------------------
\* Requests reach the thread they are made to.
LEMMA RequestInit == ASSUME Init PROVE RequestInv
  BY DEF Init, RequestInv, Occupies, Occupying, Interpreting

\* A start clears the request of its core, and the thread it creates there
\* finds none.
LEMMA RequestStart ==
  ASSUME TypeOK, SlotInv, RequestInv, NEW t \in Threads, Start(t)
  PROVE  RequestInv'
<1> USE DEF RequestInv, SlotInv, FirstOnZero, ChosenUnused, Occupies,
            Occupying, Interpreting, TypeOK
<1>1. CASE StartFind(t) \/ StartNoCore(t) \/ StartCreateFails(t)
  BY <1>1 DEF StartFind, StartNoCore, StartCreateFails, At, FreeCores,
     tableVars, mainVars
<1>2. CASE StartFill(t)
  BY <1>2 DEF StartFill, Unrequested, mainVars
<1>3. CASE StartCreate(t)
  <2>1. PICK u \in Threads :
           /\ Fresh(u)
           /\ pc' = [pc EXCEPT ![t] = "mark", ![u] = "boot"]
           /\ Begin(u, newCpu[t])
    BY <1>3 DEF StartCreate
  <2>2. /\ pc[t] = "create" /\ pc[u] = "none" /\ u # t
        /\ UNCHANGED <<exitRequest, newCpu, vm>>
    BY <1>3, <2>1 DEF StartCreate, Fresh, tableVars, mainVars
  <2>3. ~exitRequest[newCpu[t]] /\ newCpu[t] \in Cores
    BY <2>2
  <2> QED
    BY <2>1, <2>2, <2>3 DEF Begin
<1>4. CASE StartMark(t)
  BY <1>4 DEF StartMark, mainVars
<1> QED
  BY <1>1, <1>2, <1>3, <1>4 DEF Start

\* A request is made by the starter, who is then in no start of its own.
LEMMA RequestSync ==
  ASSUME OneAsker, TypeOK, SlotInv, RequestInv, NEW t \in Threads, Sync(t)
  PROVE  RequestInv'
<1> USE DEF RequestInv, Occupies, Occupying, Interpreting, TypeOK
<1>1. CASE JoinBegin(t) \/ JoinDone(t)
  BY <1>1 DEF JoinBegin, JoinDone, At, tableVars, mainVars
<1>2. CASE UNCHANGED <<exitRequest, pc, core, newCpu, told, asked, vm>>
  BY <1>2
<1>3. ASSUME NEW c \in Cores, RequestExit(t, c) PROVE RequestInv'
  <2>1. core[t] = 0 /\ pc[t] = "run"
    BY <1>3 DEF RequestExit, At, OneAsker
  <2>2. t = first /\ vm = "wait"
    BY <2>1 DEF SlotInv, FirstOnZero
  <2>3. \A u \in Threads : pc[u] # "create"
    BY <2>1, <2>2 DEF SlotInv, FirstOnZero
  <2> QED
    BY <1>3, <2>2, <2>3 DEF RequestExit, mainVars
<1>4. CASE CheckExit(t)
  BY <1>4 DEF CheckExit, At, tableVars, mainVars
<1>5. (\E m \in Mutexes : GlobalLock(t, m) \/ GlobalUnlock(t, m)) =>
         UNCHANGED <<exitRequest, pc, core, newCpu, told, asked, vm>>
  BY DEF GlobalLock, GlobalUnlock, tableVars, threadVars, mainVars
<1> QED
  BY <1>1, <1>2, <1>3, <1>4, <1>5 DEF Sync, Lock, Unlock, CountFree,
     tableVars, threadVars, mainVars

LEMMA RequestStep ==
  OneStarter /\ OneAsker /\ TypeOK /\ SlotInv /\ RequestInv /\ [Next]_vars
    => RequestInv'
<1> SUFFICES ASSUME OneStarter, OneAsker, TypeOK, SlotInv, RequestInv,
                    [Next]_vars
             PROVE  RequestInv'
  OBVIOUS
<1>1. ASSUME NEW t \in Threads, Boot(t) \/ End(t) PROVE RequestInv'
  <2>1. CASE Boot(t)
    BY <2>1 DEF Boot, RequestInv, Occupies, Occupying, Interpreting, TypeOK,
       tableVars, mainVars
  <2>2. CASE ExitSet(t) \/ ReloadFree(t)
    BY <2>2 DEF ExitSet, ReloadFree, At, RequestInv, Occupies, Occupying,
       Interpreting, TypeOK, tableVars, mainVars
  <2>3. CASE ExitStop(t) \/ Fault(t) \/ Leave(t) \/ ReloadLoad(t) \/ ReloadFails(t)
    BY <2>3 DEF ExitStop, Fault, Leave, ReloadLoad, ReloadFails, RequestInv,
       Occupies, Occupying, Interpreting, TypeOK, tableVars, mainVars
  <2> QED
    BY <1>1, <2>1, <2>2, <2>3 DEF End
<1>2. CASE Main
  <2> USE DEF RequestInv, Occupies, Occupying, Interpreting, TypeOK
  <2>1. CASE MainSetup
    BY <2>1, CoreZero DEF MainSetup, threadVars
  <2>2. CASE MainCreate
    BY <2>2, CoreZero DEF MainCreate, Begin, Fresh, tableVars
  <2>3. CASE MainJoin \/ HoldClean \/ CleanMemory \/ CleanTable
    BY <2>3 DEF MainJoin, HoldClean, CleanMemory, CleanTable, tableVars,
       threadVars
  <2>4. CASE ProcessExit
    BY <2>4 DEF ProcessExit, tableVars
  <2> QED
    BY <1>2, <2>1, <2>2, <2>3, <2>4 DEF Main
<1>3. CASE UNCHANGED vars
  BY <1>3 DEF vars, tableVars, threadVars, mainVars, RequestInv, Occupies
<1> QED
  BY <1>1, <1>2, <1>3, RequestStart, RequestSync DEF Next, Ended

\* A thread is told to exit only by a request made to it, for any number of
\* cores and any bytecode whose main thread alone starts and asks.
THEOREM ToldOnlyWhenAsked ==
  ASSUME OneStarter, OneAsker PROVE Spec => []ToldWhenAsked
<1>1. Init => TypeOK /\ SlotInv /\ RequestInv
  BY TypeInit, SlotInit, RequestInit
<1>2. TypeOK /\ SlotInv /\ RequestInv /\ [Next]_vars
        => (TypeOK /\ SlotInv /\ RequestInv)'
  BY TypeStep, SlotStep, RequestStep
<1>3. RequestInv => ToldWhenAsked
  BY DEF RequestInv, ToldWhenAsked
<1> QED
  BY <1>1, <1>2, <1>3, PTL DEF Spec

-----------------------------------------------------------------------------
\* No step of the VM moves a thread that owns a mutex out of its bytecode.
LEMMA OwnersStep ==
  LockersUnlock /\ TypeOK /\ OwnersRun /\ [Next]_vars => OwnersRun'
<1> SUFFICES ASSUME LockersUnlock, TypeOK, OwnersRun, [Next]_vars
             PROVE  OwnersRun'
  OBVIOUS
<1>1. ASSUME NEW t \in Threads, Start(t) PROVE OwnersRun'
  <2>1. CASE StartCreate(t)
    BY <2>1 DEF StartCreate, Begin, Fresh, HoldsNone, OwnersRun, At, TypeOK,
       tableVars, mutexVars, mainVars
  <2>2. CASE StartFind(t) \/ StartNoCore(t)
    BY <2>2 DEF StartFind, StartNoCore, Tidy, LockersUnlock, HoldsNone,
       OwnersRun, At, TypeOK, tableVars, mutexVars, mainVars
  <2>3. CASE StartFill(t) \/ StartCreateFails(t) \/ StartMark(t)
    BY <2>3 DEF StartFill, StartCreateFails, StartMark, OwnersRun, At, TypeOK,
       tableVars, mutexVars, mainVars
  <2> QED
    BY <1>1, <2>1, <2>2, <2>3 DEF Start
<1>2. ASSUME NEW t \in Threads, Boot(t) PROVE OwnersRun'
  BY <1>2 DEF Boot, OwnersRun, At, TypeOK, tableVars, mutexVars, mainVars
<1>3. ASSUME NEW t \in Threads, Sync(t) PROVE OwnersRun'
  <2>1. CASE JoinBegin(t) \/ JoinDone(t)
    BY <2>1 DEF JoinBegin, JoinDone, Tidy, LockersUnlock, HoldsNone, OwnersRun,
       At, TypeOK, tableVars, mutexVars, mainVars
  <2>2. CASE Lock(t) \/ Unlock(t)
    BY <2>2 DEF Lock, Unlock, OwnersRun, At, TypeOK, threadVars, mainVars
  <2>3. ASSUME NEW m \in Mutexes, GlobalLock(t, m) \/ GlobalUnlock(t, m)
        PROVE  OwnersRun'
    BY <2>3 DEF GlobalLock, GlobalUnlock, OwnersRun, At, TypeOK, threadVars,
       mainVars
  <2>4. CASE UNCHANGED <<mutexVars, pc, core, vm>>
    BY <2>4 DEF OwnersRun, At, mutexVars
  <2> QED
    BY <1>3, <2>1, <2>2, <2>3, <2>4 DEF Sync, CountFree, RequestExit,
       CheckExit, mainVars
<1>4. ASSUME NEW t \in Threads, End(t) PROVE OwnersRun'
  <2>1. CASE ExitSet(t) \/ ReloadFree(t)
    BY <2>1 DEF ExitSet, ReloadFree, MayEnd, Tidy, LockersUnlock, HoldsNone,
       OwnersRun, At, TypeOK, tableVars, mutexVars, mainVars
  <2>2. CASE Fault(t)
    <3>1. CASE vm = "exited"
      BY <2>2, <3>1 DEF Fault, OwnersRun, mainVars
    <3>2. ASSUME vm # "exited" PROVE HoldsNone(t)
      BY <2>2, <3>2, ConstantsAssumption DEF Fault, LockersUnlock, HoldsNone,
         OwnersRun, At, TypeOK
    <3>3. CASE vm # "exited"
      BY <2>2, <3>2, <3>3 DEF Fault, HoldsNone, OwnersRun, At, TypeOK,
         mutexVars, mainVars
    <3> QED
      BY <3>1, <3>3
  <2>3. CASE ExitStop(t) \/ Leave(t) \/ ReloadLoad(t) \/ ReloadFails(t)
    BY <2>3 DEF ExitStop, Leave, ReloadLoad, ReloadFails, OwnersRun, At,
       TypeOK, tableVars, mutexVars, mainVars
  <2> QED
    BY <1>4, <2>1, <2>2, <2>3 DEF End
<1>5. CASE Main
  <2>1. CASE MainCreate
    BY <2>1 DEF MainCreate, Begin, Fresh, HoldsNone, OwnersRun, At, TypeOK,
       mutexVars
  <2>2. CASE MainSetup \/ MainJoin \/ HoldClean \/ CleanMemory \/ CleanTable
    BY <2>2 DEF MainSetup, MainJoin, HoldClean, CleanMemory, CleanTable,
       OwnersRun, At, mutexVars, threadVars
  <2>3. CASE ProcessExit
    BY <2>3 DEF ProcessExit, OwnersRun
  <2> QED
    BY <1>5, <2>1, <2>2, <2>3 DEF Main
<1>6. CASE UNCHANGED vars
  BY <1>6 DEF vars, mutexVars, threadVars, mainVars, OwnersRun, At
<1> QED
  BY <1>1, <1>2, <1>3, <1>4, <1>5, <1>6 DEF Next, Ended

\* Every mutex is owned by a thread that is still in its bytecode, whatever the
\* starts, the joins and the exits do, as long as the bytecode unlocks what it
\* locks and meets no fatal error while it may hold a mutex.
THEOREM OwnersStayLive ==
  ASSUME LockersUnlock PROVE Spec => []OwnersLive
<1>1. Init => TypeOK /\ OwnersRun
  BY TypeInit DEF Init, OwnersRun
<1>2. TypeOK /\ OwnersRun /\ [Next]_vars => (TypeOK /\ OwnersRun)'
  BY TypeStep, OwnersStep
<1>3. OwnersRun => OwnersLive
  BY DEF OwnersRun, OwnersLive, At, Interprets, Interpreting
<1> QED
  BY <1>1, <1>2, <1>3, PTL DEF Spec

-----------------------------------------------------------------------------
\* When the first thread is the last, main() frees nothing too early.
LEMMA EndInit == ASSUME Init PROVE EndInv
  BY ConstantsAssumption DEF Init, EndInv, FirstIsLast, SeenFreeIsFree,
     MemoryThere, LastReturn, Occupies, Occupying, Interpreting

\* The start: the first thread leaves it with its child, because the core it
\* saw free is still free and the OS does not refuse it.
LEMMA EndStart ==
  ASSUME MainEndsLast, TypeOK, SlotInv, EndInv, NEW t \in Threads, Start(t)
  PROVE  EndInv'
<1> USE DEF EndInv, FirstIsLast, SeenFreeIsFree, MemoryThere, LastReturn,
            Occupies, Occupying, Interpreting, TypeOK
<1>0. /\ core[t] = 0 /\ t = first /\ vm = "wait"
      /\ pc[t] \in {"run", "fill", "create", "mark"}
  <2>1. pc[t] \in {"fill", "create", "mark"} \/ At(t, "start")
    BY DEF Start, StartFind, StartNoCore, StartFill, StartCreate,
       StartCreateFails, StartMark
  <2>2. At(t, "start") => core[t] = 0 /\ pc[t] = "run"
    BY OnlyZero DEF MainEndsLast, At
  <2> QED
    BY <2>1, <2>2 DEF SlotInv, FirstOnZero
<1>1. CASE StartFind(t)
  BY <1>0, <1>1 DEF StartFind, tableVars, mainVars, SlotInv, FirstOnZero
<1>2. CASE StartNoCore(t)
  BY <1>0, <1>2 DEF StartNoCore, MainEndsLast, SomeFree
<1>3. CASE StartFill(t)
  BY <1>0, <1>3 DEF StartFill, mainVars, SlotInv, FirstOnZero, SomeFree, FreeCores
<1>4. CASE StartCreate(t)
  BY <1>0, <1>4 DEF StartCreate, Fresh, Begin, tableVars, mainVars, SomeFree,
     FreeCores
<1>5. CASE StartCreateFails(t)
  BY <1>0, <1>5 DEF StartCreateFails, MainEndsLast
<1>6. CASE StartMark(t)
  BY <1>0, <1>6 DEF StartMark, mainVars, SlotInv, FirstOnZero
<1> QED
  BY <1>1, <1>2, <1>3, <1>4, <1>5, <1>6 DEF Start

LEMMA EndSync ==
  ASSUME MainEndsLast, TypeOK, SlotInv, EndInv, NEW t \in Threads,
         Boot(t) \/ Sync(t)
  PROVE  EndInv'
<1> USE DEF EndInv, FirstIsLast, SeenFreeIsFree, MemoryThere, LastReturn,
            Occupies, Occupying, Interpreting, TypeOK
<1>1. CASE Boot(t)
  BY <1>1 DEF Boot, tableVars, mainVars, SomeFree, FreeCores
<1>2. CASE JoinBegin(t) \/ JoinDone(t)
  BY <1>2 DEF JoinBegin, JoinDone, At, tableVars, mainVars, SomeFree, FreeCores
<1>3. CASE CountFree(t)
  BY <1>3 DEF CountFree, At, tableVars, mainVars, SomeFree, FreeCores
<1>4. CASE UNCHANGED <<status, pc, core, sawFree, joined, code, retcode, mainVars>>
  BY <1>4 DEF mainVars, SomeFree, FreeCores
<1>5. (\E m \in Mutexes : GlobalLock(t, m) \/ GlobalUnlock(t, m)) =>
         UNCHANGED <<status, pc, core, sawFree, joined, code, retcode, mainVars>>
  BY DEF GlobalLock, GlobalUnlock, tableVars, threadVars
<1>6. (\E c \in Cores : RequestExit(t, c)) =>
         UNCHANGED <<status, pc, core, sawFree, joined, code, retcode, mainVars>>
  BY DEF RequestExit
<1> QED
  BY <1>1, <1>2, <1>3, <1>4, <1>5, <1>6 DEF Sync, Lock, Unlock, CheckExit,
     tableVars, threadVars

\* The first thread ends after a join, so alone; a child's fatal error only
\* leaves its core RUNNING.
LEMMA EndEnd ==
  ASSUME MainEndsLast, TypeOK, SlotInv, EndInv, NEW t \in Threads, End(t)
  PROVE  EndInv'
<1> USE DEF EndInv, FirstIsLast, SeenFreeIsFree, MemoryThere, LastReturn,
            Occupies, Occupying, Interpreting, TypeOK
<1>1. CASE ExitSet(t)
  <2>1. joined[t]
    BY <1>1 DEF ExitSet, MayEnd, MainEndsLast, OneStarter
  <2>2. core[t] = 0 => \A u \in Threads : Occupies(u) => u = t
    BY <1>1, <2>1 DEF ExitSet, At, SlotInv, JoinedAlone
  <2>3. core[t] # 0 => pc[first] # "exit"
    BY <1>1 DEF ExitSet, At, SlotInv, JoinedAlone
  <2> QED
    BY <1>1, <2>1, <2>2, <2>3 DEF ExitSet, At, tableVars, mainVars, SomeFree,
       FreeCores
<1>2. CASE ExitStop(t)
  <2>1. core[t] = 0 => \A u \in Threads : Occupies(u) => u = t
    BY <1>2 DEF ExitStop, SlotInv, JoinedAlone
  <2> QED
    BY <1>2, <2>1 DEF ExitStop, Stopped, mainVars, SomeFree, FreeCores
<1>3. CASE Fault(t)
  BY <1>3 DEF Fault, MainEndsLast, tableVars, mainVars, SomeFree, FreeCores
<1>4. CASE Leave(t)
  BY <1>4 DEF Leave, tableVars, mainVars, SomeFree, FreeCores
<1>5. CASE ReloadFree(t)
  <2>1. core[t] = 0
    BY <1>5, OnlyZero DEF ReloadFree, MainEndsLast
  <2> QED
    BY <1>5, <2>1 DEF ReloadFree, At, tableVars, mainVars, SomeFree, FreeCores,
       SlotInv, FirstOnZero
<1>6. CASE ReloadLoad(t)
  BY <1>6 DEF ReloadLoad, tableVars, SomeFree, FreeCores, SlotInv,
     FirstOnZero, JoinedAlone
<1>7. CASE ReloadFails(t)
  BY <1>7 DEF ReloadFails, MainEndsLast, SlotInv, FirstOnZero
<1> QED
  BY <1>1, <1>2, <1>3, <1>4, <1>5, <1>6, <1>7 DEF End

\* main() goes on when the first thread is gone, hence all threads.
LEMMA EndMain ==
  ASSUME TypeOK, SlotInv, EndInv, Main
  PROVE  EndInv'
<1> USE DEF EndInv, FirstIsLast, SeenFreeIsFree, MemoryThere, LastReturn,
            Occupies, Occupying, Interpreting, TypeOK
<1>1. CASE MainSetup
  BY <1>1 DEF MainSetup, threadVars
<1>2. CASE MainCreate
  BY <1>2, CoreZero DEF MainCreate, Begin, Fresh, tableVars, SlotInv, NoneAtRestart
<1>3. CASE MainJoin
  BY <1>3 DEF MainJoin, FirstEnded, tableVars, threadVars
<1>4. CASE HoldClean \/ CleanMemory \/ CleanTable
  BY <1>4 DEF HoldClean, CleanMemory, CleanTable, tableVars, threadVars
<1>5. CASE ProcessExit
  BY <1>5 DEF ProcessExit, tableVars
<1> QED
  BY <1>1, <1>2, <1>3, <1>4, <1>5 DEF Main

LEMMA EndStep ==
  MainEndsLast /\ TypeOK /\ SlotInv /\ EndInv /\ [Next]_vars => EndInv'
<1> SUFFICES ASSUME MainEndsLast, TypeOK, SlotInv, EndInv, [Next]_vars
             PROVE  EndInv'
  OBVIOUS
<1>1. CASE UNCHANGED vars
  BY <1>1 DEF vars, tableVars, threadVars, mainVars, EndInv, FirstIsLast,
     SeenFreeIsFree, MemoryThere, LastReturn, Occupies, SomeFree, FreeCores
<1> QED
  BY <1>1, EndStart, EndSync, EndEnd, EndMain DEF Next, Ended

LEMMA EndCorrect ==
  ASSUME MainEndsLast PROVE Spec => [](TypeOK /\ SlotInv /\ EndInv)
<1>1. Init => TypeOK /\ SlotInv /\ EndInv
  BY TypeInit, SlotInit, EndInit
<1>2. TypeOK /\ SlotInv /\ EndInv /\ [Next]_vars
        => (TypeOK /\ SlotInv /\ EndInv)'
  BY TypeStep, SlotStep, EndStep DEF MainEndsLast
<1> QED
  BY <1>1, <1>2, PTL DEF Spec

\* No thread touches code, data, modules or table after they are freed, for
\* any bytecode whose first thread ends by EXIT or reload after joining.
THEOREM MemoryIsSafe ==
  ASSUME MainEndsLast PROVE Spec => []MemorySafe
<1>1. TypeOK /\ SlotInv /\ EndInv => MemorySafe
  <2> SUFFICES ASSUME TypeOK, SlotInv, EndInv, NEW t \in Threads, Occupies(t)
               PROVE  /\ Interprets(t) => code = "live" /\ data = "live"
                      /\ table = "live"
    BY DEF MemorySafe, Occupies, Occupying, Interprets
  <2>1. vm = "wait"
    BY DEF EndInv, FirstIsLast
  <2>2. pc[first] = "load" => t = first
    BY <2>1 DEF EndInv, FirstIsLast, SlotInv, JoinedAlone, Occupies, Occupying
  <2> QED
    BY <2>1, <2>2 DEF EndInv, MemoryThere, TypeOK, Interprets, Interpreting
<1> QED
  BY <1>1, EndCorrect, PTL

\* The process ends with the return code of the main thread.
THEOREM ReturnIsMains ==
  ASSUME MainEndsLast PROVE Spec => []ExitCodeIsMains
<1>1. EndInv => ExitCodeIsMains
  BY DEF EndInv, LastReturn, ExitCodeIsMains
<1> QED
  BY <1>1, EndCorrect, PTL

-----------------------------------------------------------------------------
(***************************************************************************)
(* The threads implement the core table, step by step.  What a step does   *)
(* to the table follows from what it does to the threads that occupy a     *)
(* core: none changes, one begins on an unused core, or one stops.         *)
(***************************************************************************)
\* A step that moves no thread in or out of a core or of join is a stutter.
LEMMA TableSame ==
  ASSUME \A u \in Threads :
            /\ Occupies(u)' <=> Occupies(u)
            /\ Occupies(u) => core'[u] = core[u]
            /\ pc'[u] = "join" <=> pc[u] = "join",
         (vm' = "wait") <=> (vm = "wait")
  PROVE  UNCHANGED Table!vars
<1>1. Users' = Users
  <2>1. ASSUME NEW c \in Cores
        PROVE  {u \in Threads : Occupies(u) /\ core[u] = c}'
                 = {u \in Threads : Occupies(u) /\ core[u] = c}
    OBVIOUS
  <2> QED
    BY <2>1 DEF Users
<1> QED
  BY <1>1 DEF Table!vars

\* A thread that begins on a core.
LEMMA TableBegins ==
  ASSUME TypeOK, NEW t \in Threads, NEW c \in Cores,
         ~Occupies(t), Occupies(t)', core'[t] = c,
         \A u \in Threads : Occupies(u) => core[u] # c,
         \A u \in Threads \ {t} :
            /\ Occupies(u)' <=> Occupies(u)
            /\ Occupies(u) => core'[u] = core[u]
  PROVE  /\ Users[c] = {}
         /\ Users' = [Users EXCEPT ![c] = {t}]
<1>1. Users[c] = {}
  BY DEF Users
<1>2. ASSUME NEW d \in Cores
      PROVE  {u \in Threads : Occupies(u) /\ core[u] = d}'
               = IF d = c THEN {t} ELSE {u \in Threads : Occupies(u) /\ core[u] = d}
  OBVIOUS
<1> QED
  BY <1>1, <1>2 DEF Users

\* A thread that stops.
LEMMA TableStops ==
  ASSUME TypeOK, NEW t \in Threads,
         Occupies(t), ~Occupies(t)', pc[t] # "join", pc'[t] # "join",
         \A u \in Threads \ {t} : pc'[u] = pc[u] /\ core'[u] = core[u],
         UNCHANGED vm
  PROVE  \E c \in Cores : Table!Stop(c)
<1> DEFINE c == core[t]
<1>1. c \in Cores
  BY DEF TypeOK
<1>2. t \in Users[c] \ {u \in Threads : pc[u] = "join"}
  BY <1>1 DEF Users
<1>3. ASSUME NEW d \in Cores
      PROVE  {u \in Threads : Occupies(u) /\ core[u] = d}'
               = IF d = c THEN {u \in Threads : Occupies(u) /\ core[u] = d} \ {t}
                          ELSE {u \in Threads : Occupies(u) /\ core[u] = d}
  BY DEF Occupies
<1>4. Users' = [Users EXCEPT ![c] = @ \ {t}]
  BY <1>1, <1>3 DEF Users
<1>5. {u \in Threads : pc[u] = "join"}' = {u \in Threads : pc[u] = "join"}
  OBVIOUS
<1>6. Table!Stop(c)
  BY <1>2, <1>4, <1>5 DEF Table!Stop
<1> QED
  BY <1>1, <1>6

LEMMA TableStart ==
  ASSUME MainEndsLast, TypeOK, SlotInv, EndInv, NEW t \in Threads, Start(t)
  PROVE  [Table!Next]_(Table!vars)
<1> USE DEF TypeOK
<1>1. CASE StartCreate(t)
  <2>1. PICK u \in Threads :
           /\ Fresh(u)
           /\ pc' = [pc EXCEPT ![t] = "mark", ![u] = "boot"]
           /\ Begin(u, newCpu[t])
    BY <1>1 DEF StartCreate
  <2>2. /\ newCpu[t] \in Cores /\ pc[t] = "create" /\ pc[u] = "none" /\ u # t
        /\ UNCHANGED <<newCpu, vm>>
    BY <1>1, <2>1 DEF StartCreate, Fresh, mainVars
  <2>3. \A v \in Threads : Occupies(v) => core[v] # newCpu[t]
    BY <2>2 DEF SlotInv, ChosenUnused
  <2>4. vm = "wait"
    BY <2>2 DEF EndInv, FirstIsLast, Occupies, Occupying, Interpreting
  <2>5. Users[newCpu[t]] = {} /\ Users' = [Users EXCEPT ![newCpu[t]] = {u}]
    BY <2>1, <2>2, <2>3, TableBegins
       DEF Begin, Occupies, Occupying, Interpreting
  <2>6. {v \in Threads : pc[v] = "join"}' = {v \in Threads : pc[v] = "join"}
    BY <2>1, <2>2
  <2>7. Table!Start(newCpu[t])
    BY <2>2, <2>4, <2>5, <2>6 DEF Table!Start
  <2> QED
    BY <2>2, <2>7 DEF Table!Next
<1>2. CASE StartNoCore(t) \/ StartCreateFails(t)
  <2>1. \E c \in Cores : Table!Stop(c)
    BY <1>2, TableStops DEF StartNoCore, StartCreateFails, At, Occupies,
       Occupying, Interpreting, mainVars
  <2> QED
    BY <2>1 DEF Table!Next
<1>3. CASE StartFind(t) \/ StartFill(t) \/ StartMark(t)
  <2>1. UNCHANGED Table!vars
    BY <1>3, TableSame DEF StartFind, StartFill, StartMark, At, Occupies,
       Occupying, Interpreting, mainVars
  <2> QED
    BY <2>1
<1> QED
  BY <1>1, <1>2, <1>3 DEF Start

LEMMA TableSync ==
  ASSUME TypeOK, SlotInv, NEW t \in Threads, Boot(t) \/ Sync(t)
  PROVE  [Table!Next]_(Table!vars)
<1> USE DEF TypeOK
<1>1. CASE JoinBegin(t)
  <2>1. /\ pc[t] = "run" /\ pc' = [pc EXCEPT ![t] = "join"]
        /\ UNCHANGED <<core, vm>>
    BY <1>1 DEF JoinBegin, At, mainVars
  <2>2. {u \in Threads : pc[u] = "join"}' = {u \in Threads : pc[u] = "join"} \cup {t}
    BY <2>1
  <2>3. \A u \in Threads : Occupies(u)' <=> Occupies(u)
    BY <2>1 DEF Occupies, Occupying, Interpreting
  <2>4. Users' = Users
    BY <2>1, <2>3 DEF Users
  <2>5. Table!Join(t)
    BY <2>1, <2>2, <2>4 DEF Table!Join
  <2> QED
    BY <2>5 DEF Table!Next
<1>2. CASE JoinDone(t)
  <2>1. /\ pc[t] = "join" /\ pc' = [pc EXCEPT ![t] = "run"]
        /\ UNCHANGED <<core, vm>>
    BY <1>2 DEF JoinDone, mainVars
  <2>2. {u \in Threads : pc[u] = "join"}' = {u \in Threads : pc[u] = "join"} \ {t}
    BY <2>1
  <2>3. \A u \in Threads : Occupies(u)' <=> Occupies(u)
    BY <2>1 DEF Occupies, Occupying, Interpreting
  <2>4. Users' = Users
    BY <2>1, <2>3 DEF Users
  <2>5. \A u \in Threads : Occupies(u) => u = t
    BY <1>2, JoinerAlone
  <2>6. Table!Alone(t)
    BY <2>5 DEF Table!Alone, Users
  <2>7. Table!JoinReturn(t)
    BY <2>1, <2>2, <2>4, <2>6 DEF Table!JoinReturn
  <2> QED
    BY <2>7 DEF Table!Next
<1>3. CASE Boot(t)
  <2>1. UNCHANGED Table!vars
    BY <1>3, TableSame DEF Boot, Occupies, Occupying, Interpreting, mainVars
  <2> QED
    BY <2>1
<1>4. CASE UNCHANGED <<pc, core, vm>>
  <2>1. UNCHANGED Table!vars
    BY <1>4, TableSame DEF Occupies
  <2> QED
    BY <2>1
<1>5. (\E m \in Mutexes : GlobalLock(t, m) \/ GlobalUnlock(t, m)) =>
         UNCHANGED <<pc, core, vm>>
  BY DEF GlobalLock, GlobalUnlock, threadVars, mainVars
<1>6. (\E c \in Cores : RequestExit(t, c)) => UNCHANGED <<pc, core, vm>>
  BY DEF RequestExit, mainVars
<1> QED
  BY <1>1, <1>2, <1>3, <1>4, <1>5, <1>6 DEF Sync, Lock, Unlock, CountFree,
     CheckExit, threadVars, mainVars

LEMMA TableEnd ==
  ASSUME TypeOK, NEW t \in Threads, End(t)
  PROVE  [Table!Next]_(Table!vars)
<1> USE DEF TypeOK
<1>1. CASE ExitStop(t) \/ Fault(t) \/ ReloadFails(t)
  <2>1. \E c \in Cores : Table!Stop(c)
    BY <1>1, TableStops DEF ExitStop, Fault, ReloadFails, Occupies, Occupying,
       Interpreting, mainVars
  <2> QED
    BY <2>1 DEF Table!Next
<1>2. CASE ExitSet(t) \/ ReloadFree(t) \/ ReloadLoad(t) \/ Leave(t)
  <2>1. UNCHANGED Table!vars
    BY <1>2, TableSame DEF ExitSet, ReloadFree, ReloadLoad, Leave, At,
       Occupies, Occupying, Interpreting, mainVars
  <2> QED
    BY <2>1
<1> QED
  BY <1>1, <1>2 DEF End

LEMMA TableMain ==
  ASSUME TypeOK, SlotInv, EndInv, Main
  PROVE  [Table!Next]_(Table!vars)
<1> USE DEF TypeOK
<1>1. CASE MainCreate
  <2>1. PICK t \in Threads :
           /\ Fresh(t)
           /\ pc' = [pc EXCEPT ![t] = "boot"]
           /\ Begin(t, 0)
    BY <1>1 DEF MainCreate
  <2>2. /\ vm = "create" /\ vm' = "wait" /\ pc[t] = "none"
        /\ \A u \in Threads : ~Occupies(u)
    BY <1>1, <2>1 DEF MainCreate, Fresh, SlotInv, NoneAtRestart
  <2>3. \A c \in Cores : Users[c] = {}
    BY <2>2 DEF Users
  <2>4. Users' = [Users EXCEPT ![0] = {t}]
    BY <2>1, <2>2, CoreZero, TableBegins
       DEF Begin, Occupies, Occupying, Interpreting
  <2>5. {u \in Threads : pc[u] = "join"}' = {u \in Threads : pc[u] = "join"}
    BY <2>1, <2>2
  <2>6. Table!Begin
    BY <2>2, <2>3, <2>4, <2>5 DEF Table!Begin
  <2> QED
    BY <2>6 DEF Table!Next
<1>2. CASE MainJoin
  <2>1. /\ vm = "wait" /\ vm' # "wait" /\ UNCHANGED <<pc, core>>
        /\ \A u \in Threads : ~Occupies(u)
    BY <1>2 DEF MainJoin, FirstEnded, threadVars, EndInv, FirstIsLast,
       Occupies, Occupying, Interpreting
  <2>2. Users' = Users /\ \A c \in Cores : Users[c] = {}
    BY <2>1 DEF Users, Occupies
  <2>3. Table!Finish
    BY <2>1, <2>2 DEF Table!Finish
  <2> QED
    BY <2>3 DEF Table!Next
<1>3. CASE MainSetup \/ HoldClean \/ CleanMemory \/ CleanTable
  <2>1. UNCHANGED Table!vars
    BY <1>3, TableSame DEF MainSetup, HoldClean, CleanMemory, CleanTable,
       threadVars, Occupies
  <2> QED
    BY <2>1
<1>4. CASE ProcessExit
  <2>1. \A u \in Threads : ~Occupies(u)
    BY <1>4 DEF ProcessExit, EndInv, FirstIsLast
  <2>2. UNCHANGED Table!vars
    BY <1>4, <2>1, TableSame DEF ProcessExit, Occupies, Occupying, Interpreting
  <2> QED
    BY <2>2
<1> QED
  BY <1>1, <1>2, <1>3, <1>4 DEF Main

\* The three-step start, the scan of join and the cleanup of main() implement
\* the core table, for any number of cores and threads: a core has one thread
\* at a time, join returns alone and the memory goes after everybody.
THEOREM ImplementsTable ==
  ASSUME MainEndsLast PROVE Spec => ImplementsCoreTable
<1>1. Init => Table!Init
  BY DEF Init, Table!Init, Users, Occupies, Occupying, Interpreting
<1>2. TypeOK /\ SlotInv /\ EndInv /\ [Next]_vars => [Table!Next]_(Table!vars)
  <2> SUFFICES ASSUME TypeOK, SlotInv, EndInv, [Next]_vars
               PROVE  [Table!Next]_(Table!vars)
    OBVIOUS
  <2>1. CASE UNCHANGED vars
    <3>1. UNCHANGED Table!vars
      BY <2>1, TableSame DEF vars, threadVars, mainVars, Occupies
    <3> QED
      BY <3>1
  <2> QED
    BY <2>1, TableStart, TableSync, TableEnd, TableMain DEF Next, Ended
<1> QED
  BY <1>1, <1>2, EndCorrect, PTL DEF Spec, ImplementsCoreTable, Table!Spec

=============================================================================
