------------------------------- MODULE Blocks -------------------------------
(***************************************************************************)
(* What a function of a Brackets program means: statements in their order, *)
(* nested blocks, variables in memory.  A statement is a record of its     *)
(* operator, its arguments, the variable it assigns to, and for a call     *)
(* whether the function returns a value.                                   *)
(***************************************************************************)
EXTENDS Integers, Sequences, FiniteSets

CONSTANTS
    Vars,
    Shared,   \* the variables a called function may change
    Values,
    Sum,      \* what an expression computes from two values
    Programs

VARIABLES
    source,
    pc,     \* the next statement, 0 before the start
    mem,
    passed  \* arguments, or what the last function returned, not popped yet

vars == <<source, pc, mem, passed>>

Opening == {"if", "if+", "?", "do", "for-loop"}
Closing == {"endif", "break", "while", "next"}
Pairs == {<<"if", "endif">>, <<"if+", "endif">>, <<"?", "break">>,
          <<"do", "while">>, <<"for-loop", "next">>}

\* How many blocks are open behind statement j that are not in front of i.
Depth(p, i, j) ==
    Cardinality({k \in i .. j : p[k].op \in Opening})
        - Cardinality({k \in i .. j : p[k].op \in Closing})

\* The block that i opens ends at j.
Ends(p, i, j) ==
    /\ i < j /\ p[i].op \in Opening
    /\ Depth(p, i, j) = 0
    /\ \A k \in i .. j - 1 : Depth(p, i, k) > 0

End(p, i) == CHOOSE j \in 1 .. Len(p) : Ends(p, i, j)

Begin(p, j) == CHOOSE i \in 1 .. Len(p) : Ends(p, i, j)

\* j is in the block of i, and in no block inside of it.
Parts(p, i) == {j \in i + 1 .. End(p, i) - 1 : Depth(p, i, j) = 1}

Around(p, j) == CHOOSE i \in 1 .. j : p[i].op \in Opening /\ j \in Parts(p, i)

\* The one statement of a block that has to be there: else, for.
Middle(p, i, op) == {j \in Parts(p, i) : p[j].op = op}

\* The first statements pop the arguments; behind them begins the body.
Body(p) ==
    CHOOSE b \in 1 .. Len(p) + 1 :
        /\ \A j \in 1 .. b - 1 : p[j].op = "pop"
        /\ b <= Len(p) => p[b].op # "pop"

Nested(p) ==
    /\ \A i \in 1 .. Len(p) : p[i].op \in Opening =>
           \E j \in 1 .. Len(p) : Ends(p, i, j) /\ <<p[i].op, p[j].op>> \in Pairs
    /\ \A j \in 1 .. Len(p) : p[j].op \in Closing => \E i \in 1 .. j : Ends(p, i, j)
    /\ \A i \in 1 .. Len(p) : p[i].op \in Opening =>
           /\ Cardinality(Middle(p, i, "else")) = IF p[i].op = "if+" THEN 1 ELSE 0
           /\ Cardinality(Middle(p, i, "for")) = IF p[i].op = "for-loop" THEN 1 ELSE 0
    /\ \A j \in 1 .. Len(p) : p[j].op \in {"else", "for"} =>
           \E i \in 1 .. j : p[i].op \in Opening /\ j \in Parts(p, i)
    \* Arguments are popped, what a function returns is popped at once, and
    \* nothing else is.
    /\ \A j \in 0 .. Len(p) :
           (j + 1 < Body(p) \/ (j > 0 /\ p[j].op = "call" /\ p[j].ret))
               <=> (j < Len(p) /\ p[j + 1].op = "pop")

Init ==
    /\ source \in Programs
    /\ pc = 0
    /\ mem \in [Vars -> Values]
    /\ passed \in [1 .. Body(source) - 1 -> Values]

S == source[pc]

At(ops) == pc \in 1 .. Len(source) /\ S.op \in ops

\* Where an if or a case goes on when its condition does not hold.
Otherwise ==
    IF S.op = "if+" THEN (CHOOSE j \in Middle(source, pc, "else") : TRUE) + 1
    ELSE End(source, pc) + 1

Condition ==
    IF S.op = "?" THEN mem[S.args[1]] = mem[S.args[2]] ELSE mem[S.args[1]] # 0

Start ==
    /\ pc = 0 /\ Nested(source)
    /\ pc' = 1
    /\ UNCHANGED <<source, mem, passed>>

Assign ==
    /\ At({"set", "copy"})
    /\ mem' = [mem EXCEPT ![S.to] =
           IF S.op = "set" THEN Sum[mem[S.args[1]], mem[S.args[2]]] ELSE mem[S.args[1]]]
    /\ pc' = pc + 1
    /\ UNCHANGED <<source, passed>>

Call ==
    /\ At({"call"})
    /\ mem' \in {m \in [Vars -> Values] : \A v \in Vars \ Shared : m[v] = mem[v]}
    /\ IF S.ret THEN \E v \in Values : passed' = Append(passed, v) ELSE UNCHANGED passed
    /\ pc' = pc + 1
    /\ UNCHANGED source

Pop ==
    /\ At({"pop"})
    /\ passed # <<>>
    /\ mem' = [mem EXCEPT ![S.to] = passed[Len(passed)]]
    /\ passed' = SubSeq(passed, 1, Len(passed) - 1)
    /\ pc' = pc + 1
    /\ UNCHANGED source

Goto(i) == pc' = i /\ UNCHANGED <<source, mem, passed>>

Branch == At({"if", "if+", "?"}) /\ Goto(IF Condition THEN pc + 1 ELSE Otherwise)

SkipElse == At({"else"}) /\ Goto(End(source, Around(source, pc)) + 1)

Again == At({"while"}) /\ Goto(IF Condition THEN Begin(source, pc) + 1 ELSE pc + 1)

For ==
    /\ At({"for"})
    /\ Goto(IF Condition THEN pc + 1 ELSE End(source, Around(source, pc)) + 1)

Repeat == At({"next"}) /\ Goto(Begin(source, pc) + 1)

PassBy == At({"endif", "break", "do", "for-loop", "switch", "switchend"}) /\ Goto(pc + 1)

Next ==
    \/ Start \/ Assign \/ Call \/ Pop
    \/ Branch \/ SkipElse \/ Again \/ For \/ Repeat \/ PassBy

Spec == Init /\ [][Next]_vars
=============================================================================
