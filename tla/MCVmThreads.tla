---------------------------- MODULE MCVmThreads ----------------------------
(***************************************************************************)
(* Small instances of VmThreads: three cores, bytecode that keeps one      *)
(* discipline or another.                                                  *)
(***************************************************************************)
EXTENDS VmThreads, TLC

Symmetry == Permutations(Threads)

\* Only core 0 starts threads and reloads; the OS refuses a thread, the loader
\* an object.  One child uses the mutexes, the other may die of an error.
ProgramMain ==
    [c \in Cores |-> CASE c = 0 -> {"start", "join", "request", "exit", "reload", "refused"}
                       [] c = 1 -> {"lock", "glock", "exit"}
                       [] OTHER -> {"check", "exit", "fault"}]

\* The main thread reloads its code, any number of times.
ProgramReload ==
    [c \in Cores |-> IF c = 0 THEN {"start", "free", "join", "exit", "reload"}
                              ELSE {"exit"}]

\* Threads that start, join and end and do nothing else.
ProgramPlain ==
    [c \in Cores |-> IF c = 0 THEN {"start", "join", "exit"} ELSE {"exit"}]

\* The bytecode of each run keeps the promises the theorems about it assume.
ASSUME PromisesKept ==
    OneStarter /\ (MainEndsLast \/ (OneAsker /\ LockersUnlock))

=============================================================================
