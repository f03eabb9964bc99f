----------------------------- MODULE VmThreads -----------------------------
(***************************************************************************)
(* The POSIX threads of the standard VM (vm/main.c): the table of CPU      *)
(* cores, the three-step start protocol of INTR1 0, join, the mutexes the  *)
(* bytecode can take, the ways a thread ends (EXIT, threadexit, a fatal    *)
(* error, hot reload) and main(), which waits for the first thread and     *)
(* then frees the memory every thread runs on.                             *)
(*                                                                         *)
(* A thread interprets bytecode.  What the bytecode on core c may do is    *)
(* Program[c], a set of operations it may execute at any time; Discipline  *)
(* names the promises the bytecode keeps:                                  *)
(*   "joins"   a thread ends or reloads only after joining what it started *)
(*   "waits"   a child ends only once the start instruction that made it   *)
(*             has returned (the flag in data memory the examples use)     *)
(*   "unlocks" a thread starts, joins, ends only while it holds no mutex   *)
(*             and unlocks only what it holds                              *)
(*   "asks"    a thread starts another only after INTR1 5 said a core is   *)
(*             free                                                        *)
(***************************************************************************)
EXTENDS Naturals, FiniteSets

CONSTANTS
    MaxCpu,      \* max_cpu: cores in threaddata
    Threads,     \* identities pthread_create can hand out
    Mutexes,     \* indices of global_mutex the bytecode uses
    Program,     \* [Cores -> SUBSET Ops]
    Discipline,  \* promises of the bytecode
    None         \* nobody

Cores == 0 .. MaxCpu - 1

\* "fault": the bytecode runs into a fatal error.  "refused": the OS creates no
\* thread, or load_object loads no object.
Ops == {"start", "free", "join", "lock", "glock", "request", "check",
        "exit", "reload", "fault", "refused"}

Promises == {"joins", "waits", "unlocks", "asks"}

ASSUME ConstantsAssumption ==
    /\ MaxCpu \in Nat \ {0}
    /\ None \notin Threads
    /\ Program \in [Cores -> SUBSET Ops]
    /\ Discipline \subseteq Promises

VARIABLES
    status,      \* threaddata[].status
    slot,        \* threaddata[].sp_top_thread, in stacks above that of core 0
    exitRequest, \* threaddata[].exit_request
    dataMutex,   \* owner of data_mutex
    globalMutex, \* owners of global_mutex[]
    pc,          \* where each thread is inside run()
    core,        \* its cpu_core
    region,      \* its sp_top, in the unit of slot
    newCpu,      \* its new_cpu
    sawFree,     \* the register INTR1 5 wrote, as "a core was free"
    told,        \* the register INTR1 17 wrote
    joined,      \* history: nothing started since its last join
    asked,       \* history: threads somebody asked to exit
    code,        \* the code block: "live" or "freed"
    data,        \* modules and data_global
    table,       \* threaddata itself
    retcode,     \* the core that wrote retcode last
    hotReload,   \* bytecode_hot_reload
    vm,          \* where main() is
    first        \* id: the thread main() joins

tableVars  == <<status, slot, exitRequest>>
mutexVars  == <<dataMutex, globalMutex>>
threadVars == <<pc, core, region, newCpu, sawFree, told, joined, asked>>
mainVars   == <<data, table, hotReload, vm, first>>
vars == <<tableVars, mutexVars, threadVars, code, retcode, mainVars>>

ThreadPC == {"none", "boot", "run", "fill", "create", "mark", "join",
             "load", "exit", "leave"}
MainPC == {"setup", "create", "wait", "hold", "clean", "free", "exit",
           "exited"}

(***************************************************************************)
(* A thread fetches instructions and touches its stack in the pcs of       *)
(* Interpreting, and its entry of threaddata in those of Occupying.        *)
(***************************************************************************)
Interpreting == {"boot", "run", "fill", "create", "mark", "join"}
Occupying == Interpreting \cup {"load", "exit"}

Interprets(t) == pc[t] \in Interpreting
Occupies(t) == pc[t] \in Occupying

HoldsNone(t) == dataMutex # t /\ \A m \in Mutexes : globalMutex[m] # t

Tidy(t) == "unlocks" \in Discipline => HoldsNone(t)

MayEnd(t) ==
    /\ Tidy(t)
    /\ "joins" \in Discipline => joined[t]
    /\ "waits" \in Discipline =>
          \A u \in Threads : pc[u] = "mark" => newCpu[u] # core[t]

At(t, op) == pc[t] = "run" /\ op \in Program[core[t]]

FreeCores == {c \in Cores : status[c] = "STOP"}

\* The definitions named Bad... are slips in the code the properties catch:
\* here the core is never marked; the exit never stops it.
BadMarked(c) == status
BadStopped(c) == status

Marked(c) == [status EXCEPT ![c] = "RUNNING"]
Stopped(c) == [status EXCEPT ![c] = "STOP"]

\* Bad: the stacks count from 1; a request outlives the thread it was made to.
BadStackOf(t) == region[t] + newCpu[t] + 1
BadUnrequested(c) == exitRequest

\* The stack INTR1 0 gives the thread t starts; its cleared request.
StackOf(t) == region[t] + newCpu[t]
Unrequested(c) == [exitRequest EXCEPT ![c] = FALSE]

SomeFree == FreeCores # {}

\* A thread identity is handed out again once its thread has ended; that of
\* the thread main() waits for is kept, and so is that of a mutex owner.
Fresh(t) == pc[t] = "none" /\ t # first /\ HoldsNone(t)

\* Registers and histories of a thread that begins on core c.
Begin(t, c) ==
    /\ core' = [core EXCEPT ![t] = c]
    /\ sawFree' = [sawFree EXCEPT ![t] = FALSE]
    /\ told' = [told EXCEPT ![t] = FALSE]
    /\ joined' = [joined EXCEPT ![t] = TRUE]
    /\ asked' = asked \ {t}

Init ==
    /\ status = [c \in Cores |-> "STOP"]
    /\ slot = [c \in Cores |-> 0]
    /\ exitRequest = [c \in Cores |-> FALSE]
    /\ dataMutex = None
    /\ globalMutex = [m \in Mutexes |-> None]
    /\ pc = [t \in Threads |-> "none"]
    /\ core = [t \in Threads |-> 0]
    /\ region = [t \in Threads |-> 0]
    /\ newCpu = [t \in Threads |-> 0]
    /\ sawFree = [t \in Threads |-> FALSE]
    /\ told = [t \in Threads |-> FALSE]
    /\ joined = [t \in Threads |-> TRUE]
    /\ asked = {}
    /\ code = "live"
    /\ data = "live"
    /\ table = "freed"
    /\ retcode = None
    /\ hotReload = FALSE
    /\ vm = "setup"
    /\ first = None

(***************************************************************************)
(* INTR1 0: find a free core, fill in its entry, create the thread, mark   *)
(* the core RUNNING.  Each step but the creation is a critical section of  *)
(* data_mutex; the core stays STOP until the last.                         *)
(***************************************************************************)
StartFind(t) ==
    /\ At(t, "start")
    /\ Tidy(t)
    /\ "asks" \in Discipline => sawFree[t]
    /\ dataMutex = None
    /\ \E c \in FreeCores :
          /\ \A d \in FreeCores : c <= d
          /\ newCpu' = [newCpu EXCEPT ![t] = c]
    /\ pc' = [pc EXCEPT ![t] = "fill"]
    /\ sawFree' = [sawFree EXCEPT ![t] = FALSE]
    /\ joined' = [joined EXCEPT ![t] = FALSE]
    /\ UNCHANGED <<tableVars, mutexVars, core, region, told, asked, code,
                   retcode, mainVars>>

\* No free core: the thread ends, and its own core stays RUNNING.
StartNoCore(t) ==
    /\ At(t, "start")
    /\ Tidy(t)
    /\ "asks" \in Discipline => sawFree[t]
    /\ dataMutex = None
    /\ FreeCores = {}
    /\ pc' = [pc EXCEPT ![t] = "leave"]
    /\ UNCHANGED <<tableVars, mutexVars, core, region, newCpu, sawFree, told,
                   joined, asked, code, retcode, mainVars>>

StartFill(t) ==
    /\ pc[t] = "fill"
    /\ dataMutex = None
    /\ slot' = [slot EXCEPT ![newCpu[t]] = StackOf(t)]
    /\ exitRequest' = Unrequested(newCpu[t])
    /\ pc' = [pc EXCEPT ![t] = "create"]
    /\ UNCHANGED <<status, mutexVars, core, region, newCpu, sawFree, told,
                   joined, asked, code, retcode, mainVars>>

StartCreate(t) ==
    /\ pc[t] = "create"
    /\ \E u \in Threads :
          /\ Fresh(u)
          /\ pc' = [pc EXCEPT ![t] = "mark", ![u] = "boot"]
          /\ Begin(u, newCpu[t])
    /\ UNCHANGED <<tableVars, mutexVars, region, newCpu, code, retcode,
                   mainVars>>

StartCreateFails(t) ==
    /\ pc[t] = "create"
    /\ "refused" \in Program[core[t]]
    /\ pc' = [pc EXCEPT ![t] = "leave"]
    /\ UNCHANGED <<tableVars, mutexVars, core, region, newCpu, sawFree, told,
                   joined, asked, code, retcode, mainVars>>

StartMark(t) ==
    /\ pc[t] = "mark"
    /\ dataMutex = None
    /\ status' = Marked(newCpu[t])
    /\ pc' = [pc EXCEPT ![t] = "run"]
    /\ UNCHANGED <<slot, exitRequest, mutexVars, core, region, newCpu,
                   sawFree, told, joined, asked, code, retcode, mainVars>>

\* The prologue of run(): the new thread takes its stack from its entry.
Boot(t) ==
    /\ pc[t] = "boot"
    /\ region' = [region EXCEPT ![t] = slot[core[t]]]
    /\ pc' = [pc EXCEPT ![t] = "run"]
    /\ UNCHANGED <<tableVars, mutexVars, core, newCpu, sawFree, told, joined,
                   asked, code, retcode, mainVars>>

(***************************************************************************)
(* INTR1 1: wait until no core but 0 is RUNNING.  A scan that finds one    *)
(* changes nothing, so only the last scan is a step.                       *)
(***************************************************************************)
JoinBegin(t) ==
    /\ At(t, "join")
    /\ Tidy(t)
    /\ pc' = [pc EXCEPT ![t] = "join"]
    /\ UNCHANGED <<tableVars, mutexVars, core, region, newCpu, sawFree, told,
                   joined, asked, code, retcode, mainVars>>

\* Bad: the scan begins at core 2.
BadNoChildRunning == \A c \in Cores \ {0, 1} : status[c] # "RUNNING"

NoChildRunning == \A c \in Cores \ {0} : status[c] # "RUNNING"

JoinDone(t) ==
    /\ pc[t] = "join"
    /\ dataMutex = None
    /\ NoChildRunning
    /\ pc' = [pc EXCEPT ![t] = "run"]
    /\ joined' = [joined EXCEPT ![t] = TRUE]
    /\ UNCHANGED <<tableVars, mutexVars, core, region, newCpu, sawFree, told,
                   asked, code, retcode, mainVars>>

(***************************************************************************)
(* INTR1 2, 3, 6, 7: the mutexes.  Unlocking does not check the owner.     *)
(***************************************************************************)
Lock(t) ==
    /\ At(t, "lock")
    /\ dataMutex = None
    /\ dataMutex' = t
    /\ UNCHANGED <<tableVars, globalMutex, threadVars, code, retcode,
                   mainVars>>

Unlock(t) ==
    /\ At(t, "lock")
    /\ "unlocks" \in Discipline => dataMutex = t
    /\ dataMutex' = None
    /\ UNCHANGED <<tableVars, globalMutex, threadVars, code, retcode,
                   mainVars>>

GlobalLock(t, m) ==
    /\ At(t, "glock")
    /\ globalMutex[m] = None
    /\ globalMutex' = [globalMutex EXCEPT ![m] = t]
    /\ UNCHANGED <<tableVars, dataMutex, threadVars, code, retcode, mainVars>>

GlobalUnlock(t, m) ==
    /\ At(t, "glock")
    /\ "unlocks" \in Discipline => globalMutex[m] = t
    /\ globalMutex' = [globalMutex EXCEPT ![m] = None]
    /\ UNCHANGED <<tableVars, dataMutex, threadVars, code, retcode, mainVars>>

\* INTR1 5: count the free cores under the mutex.
CountFree(t) ==
    /\ At(t, "free")
    /\ dataMutex = None
    /\ sawFree' = [sawFree EXCEPT ![t] = SomeFree]
    /\ UNCHANGED <<tableVars, mutexVars, pc, core, region, newCpu, told,
                   joined, asked, code, retcode, mainVars>>

\* INTR1 16 and 17: no mutex is taken.
RequestExit(t, c) ==
    /\ At(t, "request")
    /\ exitRequest' = [exitRequest EXCEPT ![c] = TRUE]
    /\ asked' = asked \cup {u \in Threads : Occupies(u) /\ core[u] = c}
    /\ UNCHANGED <<status, slot, mutexVars, pc, core, region, newCpu, sawFree,
                   told, joined, code, retcode, mainVars>>

CheckExit(t) ==
    /\ At(t, "check")
    /\ told' = [told EXCEPT ![t] = exitRequest[core[t]]]
    /\ UNCHANGED <<tableVars, mutexVars, pc, core, region, newCpu, sawFree,
                   joined, asked, code, retcode, mainVars>>

(***************************************************************************)
(* How a thread ends.  EXIT and threadexit write retcode, then stop the    *)
(* core under the mutex, then leave.  A fatal error only leaves.           *)
(***************************************************************************)
ExitSet(t) ==
    /\ At(t, "exit")
    /\ MayEnd(t)
    /\ retcode' = core[t]
    /\ pc' = [pc EXCEPT ![t] = "exit"]
    /\ UNCHANGED <<tableVars, mutexVars, core, region, newCpu, sawFree, told,
                   joined, asked, code, mainVars>>

\* Bad: the mutex is not given back.
BadExitStop(t) ==
    /\ pc[t] = "exit"
    /\ dataMutex = None
    /\ dataMutex' = t
    /\ status' = Stopped(core[t])
    /\ pc' = [pc EXCEPT ![t] = "leave"]
    /\ UNCHANGED <<slot, exitRequest, globalMutex, core, region, newCpu,
                   sawFree, told, joined, asked, code, retcode, mainVars>>

ExitStop(t) ==
    /\ pc[t] = "exit"
    /\ dataMutex = None
    /\ status' = Stopped(core[t])
    /\ pc' = [pc EXCEPT ![t] = "leave"]
    /\ UNCHANGED <<slot, exitRequest, mutexVars, core, region, newCpu,
                   sawFree, told, joined, asked, code, retcode, mainVars>>

Fault(t) ==
    /\ pc[t] \in {"boot", "run"}
    /\ "fault" \in Program[core[t]]
    /\ pc' = [pc EXCEPT ![t] = "leave"]
    /\ UNCHANGED <<tableVars, mutexVars, core, region, newCpu, sawFree, told,
                   joined, asked, code, retcode, mainVars>>

Leave(t) ==
    /\ pc[t] = "leave"
    /\ pc' = [pc EXCEPT ![t] = "none"]
    /\ UNCHANGED <<tableVars, mutexVars, core, region, newCpu, sawFree, told,
                   joined, asked, code, retcode, mainVars>>

(***************************************************************************)
(* INTR1 15: free the code, load another, ask main() to begin again.       *)
(***************************************************************************)
ReloadFree(t) ==
    /\ At(t, "reload")
    /\ MayEnd(t)
    /\ code' = "freed"
    /\ pc' = [pc EXCEPT ![t] = "load"]
    /\ UNCHANGED <<tableVars, mutexVars, core, region, newCpu, sawFree, told,
                   joined, asked, retcode, mainVars>>

ReloadLoad(t) ==
    /\ pc[t] = "load"
    /\ code' = "live"
    /\ hotReload' = TRUE
    /\ pc' = [pc EXCEPT ![t] = "exit"]
    /\ UNCHANGED <<tableVars, mutexVars, core, region, newCpu, sawFree, told,
                   joined, asked, retcode, data, table, vm, first>>

\* load_object may fail before it has allocated the new code block (code still
\* points at the freed one) or after it.
ReloadFails(t) ==
    /\ pc[t] = "load"
    /\ "refused" \in Program[core[t]]
    /\ code' \in {code, "live"}
    /\ pc' = [pc EXCEPT ![t] = "leave"]
    /\ UNCHANGED <<tableVars, mutexVars, core, region, newCpu, sawFree, told,
                   joined, asked, retcode, mainVars>>

(***************************************************************************)
(* main(): set the table up, create the first thread, wait for it, then    *)
(* begin again (hot reload) or clean up and end the process.               *)
(***************************************************************************)
MainSetup ==
    /\ vm = "setup"
    /\ status' = [c \in Cores |-> IF c = 0 THEN "RUNNING" ELSE "STOP"]
    /\ slot' = [c \in Cores |-> 0]
    /\ exitRequest' = [c \in Cores |-> FALSE]
    /\ table' = "live"
    /\ vm' = "create"
    /\ UNCHANGED <<mutexVars, threadVars, code, retcode, data, hotReload,
                   first>>

MainCreate ==
    /\ vm = "create"
    /\ \E t \in Threads :
          /\ Fresh(t)
          /\ pc' = [pc EXCEPT ![t] = "boot"]
          /\ first' = t
          /\ Begin(t, 0)
    /\ vm' = "wait"
    /\ UNCHANGED <<tableVars, mutexVars, region, newCpu, code, retcode, data,
                   table, hotReload>>

\* Bad: main() does not wait for the first thread.
BadFirstEnded == TRUE

FirstEnded == pc[first] = "none"

MainJoin ==
    /\ vm = "wait"
    /\ FirstEnded
    /\ hotReload' = FALSE
    /\ vm' = IF hotReload THEN "hold" ELSE "clean"
    /\ UNCHANGED <<tableVars, mutexVars, threadVars, code, retcode, data,
                   table, first>>

\* cleanup_hold_data: the modules and the table go, code and data stay.
HoldClean ==
    /\ vm = "hold"
    /\ dataMutex = None
    /\ table' = "freed"
    /\ vm' = "setup"
    /\ UNCHANGED <<tableVars, mutexVars, threadVars, code, retcode, data,
                   hotReload, first>>

\* cleanup: modules, data and code go without the mutex, the table under it.
CleanMemory ==
    /\ vm = "clean"
    /\ data' = "freed"
    /\ code' = "freed"
    /\ vm' = "free"
    /\ UNCHANGED <<tableVars, mutexVars, threadVars, retcode, table,
                   hotReload, first>>

CleanTable ==
    /\ vm = "free"
    /\ dataMutex = None
    /\ table' = "freed"
    /\ vm' = "exit"
    /\ UNCHANGED <<tableVars, mutexVars, threadVars, code, retcode, data,
                   hotReload, first>>

\* exit (retcode) ends every thread of the process.
ProcessExit ==
    /\ vm = "exit"
    /\ vm' = "exited"
    /\ pc' = [t \in Threads |-> "none"]
    /\ UNCHANGED <<tableVars, mutexVars, core, region, newCpu, sawFree, told,
                   joined, asked, code, retcode, data, table, hotReload,
                   first>>

Ended == vm = "exited" /\ UNCHANGED vars

Start(t) ==
    \/ StartFind(t) \/ StartNoCore(t) \/ StartFill(t)
    \/ StartCreate(t) \/ StartCreateFails(t) \/ StartMark(t)

Sync(t) ==
    \/ JoinBegin(t) \/ JoinDone(t)
    \/ Lock(t) \/ Unlock(t)
    \/ \E m \in Mutexes : GlobalLock(t, m) \/ GlobalUnlock(t, m)
    \/ CountFree(t)
    \/ \E c \in Cores : RequestExit(t, c)
    \/ CheckExit(t)

End(t) ==
    \/ ExitSet(t) \/ ExitStop(t) \/ Fault(t) \/ Leave(t)
    \/ ReloadFree(t) \/ ReloadLoad(t) \/ ReloadFails(t)

Main ==
    \/ MainSetup \/ MainCreate \/ MainJoin \/ HoldClean
    \/ CleanMemory \/ CleanTable \/ ProcessExit

Next ==
    \/ \E t \in Threads : Start(t) \/ Boot(t) \/ Sync(t) \/ End(t)
    \/ Main
    \/ Ended

Spec == Init /\ [][Next]_vars

-----------------------------------------------------------------------------
(***************************************************************************)
(* Fairness.  Threads and main() are scheduled by the OS, so each of them  *)
(* takes the step it is at once that stays possible.  Of the bytecode only *)
(* this is assumed: a child that can end does not run for ever.            *)
(***************************************************************************)
ThreadStep(t) ==
    \/ StartFill(t) \/ StartCreate(t) \/ StartMark(t) \/ Boot(t)
    \/ JoinDone(t) \/ ExitStop(t) \/ Leave(t) \/ ReloadLoad(t)

ChildEnds(t) == core[t] # 0 /\ ExitSet(t)

FairSpec ==
    /\ Spec
    /\ \A t \in Threads : WF_vars(ThreadStep(t)) /\ WF_vars(ChildEnds(t))
    /\ WF_vars(Main)

-----------------------------------------------------------------------------
\* Every variable has its type.
TypeOK ==
    /\ status \in [Cores -> {"STOP", "RUNNING"}]
    /\ slot \in [Cores -> Nat]
    /\ exitRequest \in [Cores -> BOOLEAN]
    /\ dataMutex \in Threads \cup {None}
    /\ globalMutex \in [Mutexes -> Threads \cup {None}]
    /\ pc \in [Threads -> ThreadPC]
    /\ core \in [Threads -> Cores]
    /\ region \in [Threads -> Nat]
    /\ newCpu \in [Threads -> Cores]
    /\ sawFree \in [Threads -> BOOLEAN]
    /\ told \in [Threads -> BOOLEAN]
    /\ joined \in [Threads -> BOOLEAN]
    /\ asked \subseteq Threads
    /\ code \in {"live", "freed"}
    /\ data \in {"live", "freed"}
    /\ table \in {"live", "freed"}
    /\ retcode \in Cores \cup {None}
    /\ hotReload \in BOOLEAN
    /\ vm \in MainPC
    /\ first \in Threads \cup {None}

\* The search for a free core hands a core to one thread only: no two threads
\* that still use their entry of threaddata have the same core.
SlotExclusive ==
    \A t, u \in Threads :
        Occupies(t) /\ Occupies(u) /\ core[t] = core[u] => t = u

\* The bytecode of most programs: the main thread alone starts and joins
\* threads and reloads, and it joins before it ends or reloads.
OneStarter ==
    /\ "joins" \in Discipline
    /\ \A c \in Cores \ {0} : {"start", "join", "reload"} \cap Program[c] = {}

(***************************************************************************)
(* Why SlotExclusive holds for OneStarter.  A thread on core 0 is the one  *)
(* main() waits for, and it alone is ever inside a start; a core it chose  *)
(* has no thread; a thread whose core is not RUNNING is the child it is    *)
(* about to mark; once it has joined it is alone; it has joined when       *)
(* main() begins again; and the stack of a thread is that of its core.     *)
(***************************************************************************)
FirstOnZero ==
    \A t \in Threads :
        /\ Occupies(t) /\ core[t] = 0 => t = first /\ vm = "wait"
        /\ pc[t] \in {"fill", "create", "mark", "join", "load"} => core[t] = 0

ChosenUnused ==
    \A t \in Threads : pc[t] \in {"fill", "create", "mark"} =>
        /\ newCpu[t] # 0
        /\ ~joined[t]
        /\ pc[t] # "mark" =>
              \A u \in Threads : Occupies(u) => core[u] # newCpu[t]

UnmarkedIsPending ==
    \A t \in Threads : Occupies(t) /\ status[core[t]] # "RUNNING" =>
        \E s \in Threads : pc[s] = "mark" /\ newCpu[s] = core[t]

JoinedAlone ==
    \A t \in Threads :
        /\ pc[t] = "load" => joined[t]
        /\ Occupies(t) /\ core[t] = 0 /\ joined[t] =>
              \A u \in Threads : Occupies(u) => u = t

StackIsCores ==
    /\ vm = "create" => slot[0] = 0
    /\ \A t \in Threads :
          /\ pc[t] = "boot" => slot[core[t]] = core[t]
          /\ pc[t] = "create" => slot[newCpu[t]] = newCpu[t]
          /\ Occupies(t) /\ pc[t] # "boot" => region[t] = core[t]

NoneAtRestart ==
    /\ vm \in {"setup", "create", "hold"} =>
          ~hotReload /\ \A t \in Threads : ~Occupies(t)
    /\ vm = "create" => status[0] = "RUNNING"
    /\ hotReload =>
          \A t \in Threads : Occupies(t) => pc[t] = "exit" /\ t = first

\* The inductive invariant behind SlotExclusive, StackDisjoint and JoinSound.
SlotInv ==
    /\ FirstOnZero
    /\ ChosenUnused
    /\ UnmarkedIsPending
    /\ SlotExclusive
    /\ JoinedAlone
    /\ NoneAtRestart
    /\ StackIsCores

(***************************************************************************)
(* Why ToldWhenAsked holds when the starter alone asks threads to exit: a  *)
(* request stands only on a core whose thread was asked, so none can come  *)
(* between the step that clears it and the creation of the new thread.     *)
(***************************************************************************)
OneAsker == \A c \in Cores \ {0} : "request" \notin Program[c]

RequestInv ==
    /\ \A t \in Threads :
          /\ told[t] => t \in asked
          /\ Occupies(t) /\ exitRequest[core[t]] => t \in asked
          /\ pc[t] = "create" => ~exitRequest[newCpu[t]]
    /\ vm = "create" => ~exitRequest[0]

(***************************************************************************)
(* Why OwnersLive holds for bytecode that unlocks what it locks and meets  *)
(* no fatal error on a core that locks: an owner is in its bytecode, and   *)
(* the bytecode is one that locks.                                         *)
(***************************************************************************)
LockersUnlock ==
    /\ "unlocks" \in Discipline
    /\ \A c \in Cores : {"lock", "glock"} \cap Program[c] # {} =>
                           "fault" \notin Program[c]

OwnersRun == vm # "exited" =>
    /\ dataMutex # None => At(dataMutex, "lock")
    /\ \A m \in Mutexes : globalMutex[m] # None => At(globalMutex[m], "glock")

(***************************************************************************)
(* Why the memory outlives the threads when the first thread ends only by  *)
(* EXIT or a reload, after joining: the first thread is the last, as a     *)
(* fatal error of a child only keeps join waiting; the core it saw free is *)
(* still free; main() frees nothing while it waits; and the last to write  *)
(* retcode before the cleanup was the first thread.                        *)
(***************************************************************************)
MainEndsLast ==
    /\ OneStarter
    /\ "asks" \in Discipline
    /\ {"fault", "refused"} \cap Program[0] = {}

FirstIsLast ==
    /\ vm = "wait" => first \in Threads /\ core[first] = 0
    /\ \A t \in Threads :
          /\ Occupies(t) => vm = "wait" /\ Occupies(first)
          /\ pc[t] = "exit" /\ core[t] = 0 => joined[t]

SeenFreeIsFree ==
    \A t \in Threads : Occupies(t) /\ core[t] = 0 /\ sawFree[t] =>
        pc[t] \notin {"fill", "create", "mark"} /\ SomeFree

MemoryThere ==
    /\ vm \notin {"free", "exit", "exited"} => data = "live"
    /\ code = "freed" => \/ vm \in {"free", "exit", "exited"}
                         \/ vm = "wait" /\ pc[first] = "load"
    /\ vm \in {"create", "wait"} => table = "live"

LastReturn ==
    /\ vm = "wait" /\ ~hotReload =>
          (Occupies(first) /\ pc[first] # "exit") \/ retcode = 0
    /\ vm \in {"clean", "free", "exit", "exited"} => retcode = 0

\* With SlotInv, the inductive invariant behind MemorySafe, ExitCodeIsMains
\* and ImplementsCoreTable.
EndInv ==
    /\ FirstIsLast
    /\ SeenFreeIsFree
    /\ MemoryThere
    /\ LastReturn

\* Past its prologue every thread has a stack of its own, inside the
\* max_cpu stacks load_object reserves at the end of the data.
StackDisjoint ==
    \A t \in Threads : Occupies(t) /\ pc[t] # "boot" =>
        /\ region[t] \in Cores
        /\ \A u \in Threads :
              Occupies(u) /\ pc[u] # "boot" /\ region[u] = region[t] => u = t

\* join "waits for all threads to finish": when it returns, no other thread
\* executes bytecode or is still on its way to stop its core.
JoinSound ==
    [][\A t \in Threads : pc[t] = "join" /\ pc'[t] = "run" =>
          \A u \in Threads \ {t} : ~Occupies(u)]_vars

\* No thread fetches code, uses the data or the modules, or reads its entry of
\* threaddata after main() or a hot reload has freed it.
MemorySafe ==
    \A t \in Threads :
        /\ Interprets(t) => code = "live" /\ data = "live"
        /\ Occupies(t) => table = "live"

\* The process ends with what the bytecode of the main thread passed to EXIT:
\* retcode is the "return code of main thread".
ExitCodeIsMains == vm = "exited" => retcode = 0

\* A thread is told to exit only by a request made to it: a request meant for
\* the thread that had the core before is not seen.
ToldWhenAsked == \A t \in Threads : told[t] => t \in asked

\* A thread that is gone, or on its way out, owns no mutex: whoever waits for
\* one waits for a thread that can still unlock it.
OwnersLive == vm # "exited" =>
    /\ dataMutex # None => Interprets(dataMutex)
    /\ \A m \in Mutexes : globalMutex[m] # None => Interprets(globalMutex[m])

\* join returns once the children it waits for end: "wait for all threads to
\* finish" is a wait that finishes.
JoinTerminates ==
    \A t \in Threads : pc[t] = "join" ~> pc[t] # "join"

\* When the main thread ends, main() gets through its cleanup and the process
\* ends or runs the reloaded code.
Shutdown ==
    (vm = "wait" /\ pc[first] = "exit") ~> vm \in {"exited", "setup"}

-----------------------------------------------------------------------------
(***************************************************************************)
(* The refinement mapping: a core is used by the threads between their     *)
(* creation and the step that stops it, the memory is there while main()   *)
(* waits.                                                                  *)
(***************************************************************************)
Users == [c \in Cores |-> {t \in Threads : Occupies(t) /\ core[t] = c}]

Table == INSTANCE CoreTable WITH
    users <- Users,
    joining <- {t \in Threads : pc[t] = "join"},
    up <- vm = "wait"

\* The three-step start, the scan of join and the cleanup of main() implement
\* the core table the bytecode relies on.
ImplementsCoreTable == Table!Spec

=============================================================================
