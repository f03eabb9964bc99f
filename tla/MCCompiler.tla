----------------------------- MODULE MCCompiler -----------------------------
(***************************************************************************)
(* Three variables of one bit, of which a called function changes c, and   *)
(* func loads b.  Sources: every program of two statements; arguments      *)
(* that are popped, and then read, stored or saved by a call; blocks of    *)
(* each kind around and between assignments, copies and calls; blocks in   *)
(* blocks; more blocks than a table holds, and more assignments than there *)
(* are registers.                                                          *)
(***************************************************************************)
EXTENDS Compiler

CONSTANTS a, b, c

Xor == [p \in Values \X Values |-> (p[1] + p[2]) % 2]

Do(op, args, to, ret) == [op |-> op, args |-> args, to |-> to, ret |-> ret]
Plain(op) == Do(op, <<>>, None, FALSE)
With1(op, v) == Do(op, <<v>>, None, FALSE)
Case(x, y) == Do("?", <<x, y>>, None, FALSE)
Set(x, y, z) == Do("set", <<x, y>>, z, FALSE)
Copy(x, y) == Do("copy", <<x>>, y, FALSE)
Send(x) == Do("call", <<x>>, None, FALSE)
Ask == Do("call", <<>>, None, TRUE)
Take(z) == Do("pop", <<>>, z, FALSE)

Every == {Set(a, b, c), Copy(a, b), Send(a), Ask, Take(a), With1("if", a), With1("if+", a),
          Plain("else"), Plain("endif"), Case(a, b), Plain("break"), Plain("do"), With1("while", a),
          Plain("for-loop"), With1("for", a), Plain("next"), Plain("switch"), Plain("switchend")}

Pairs == {<<s, t>> : s, t \in Every}

\* What there is to do between the ends of blocks.
Steps == {<<Set(a, b, a)>>, <<Set(c, c, b)>>, <<Copy(a, c)>>, <<Send(a)>>,
          <<Set(a, c, b), Ask, Take(a)>>}

\* A function with arguments.
Functions ==
    {x \o s \o t : x \in {<<Take(a)>>, <<Take(b), Take(a)>>, <<Take(c), Take(b), Take(c)>>},
                    s \in Steps \cup {<<Ask, Take(c)>>, <<Copy(b, c)>>, <<Set(a, b, c)>>},
                    t \in Steps \cup {<<With1("if", a), Set(b, b, a), Plain("endif")>>}}

Blocks1 ==
    {s \o <<With1("if", a)>> \o t \o <<Plain("endif")>> \o u : s, t, u \in Steps}
    \cup {s \o <<With1("if+", a)>> \o t \o <<Plain("else")>> \o u \o <<Plain("endif"), Set(b, c, a)>> :
            s, t, u \in Steps}
    \cup {s \o <<Plain("do")>> \o t \o <<With1("while", a)>> \o u : s, t, u \in Steps}
    \cup {<<Plain("for-loop")>> \o s \o <<With1("for", a)>> \o t \o <<Plain("next"), Set(b, c, a)>> :
            s, t \in Steps}
    \cup {<<Plain("switch"), Case(a, b)>> \o s \o <<Plain("break"), Case(a, c)>> \o t
              \o <<Plain("break"), Plain("switchend"), Copy(a, c)>> : s, t \in Steps}

\* The parts of a block around something.
Around(x) ==
    {<<With1("if", b)>> \o x \o <<Plain("endif")>>,
     <<With1("if+", b)>> \o x \o <<Plain("else"), Copy(c, b), Plain("endif")>>,
     <<With1("if+", b), Set(a, b, b), Plain("else")>> \o x \o <<Plain("endif")>>,
     <<Case(b, c)>> \o x \o <<Plain("break")>>,
     <<Plain("do")>> \o x \o <<With1("while", b)>>,
     <<Plain("for-loop")>> \o x \o <<With1("for", b), Copy(c, b), Plain("next")>>,
     <<Plain("for-loop"), Set(a, b, c), With1("for", b)>> \o x \o <<Plain("next")>>}

Blocks2 == UNION {Around(s \o x \o <<Send(b)>>) : s \in {<<Set(a, b, a)>>, <<Copy(a, c)>>, <<Send(a)>>},
                                                  x \in UNION {Around(t) : t \in Steps}}

If(x) == <<With1("if", a)>> \o x \o <<Plain("endif")>>

Full ==
    {If(If(If(If(<<>>)))), If(<<>>) \o If(<<>>) \o If(<<>>) \o <<Case(a, b), Plain("break")>>,
     <<Set(a, b, c), Set(a, b, c), Set(a, b, c), Set(a, b, c)>>,
     <<Set(a, b, c), Set(a, b, a), Ask, Take(b), Set(a, c, b), Set(b, c, a), Copy(c, a)>>}

Any == Pairs \cup Functions \cup Blocks1 \cup Blocks2 \cup Full
=============================================================================
