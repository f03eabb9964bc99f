---------------------------- MODULE MCObjectCode ----------------------------
(***************************************************************************)
(* Short sources: every opcode next to every other, then longer programs   *)
(* of the opcodes whose order matters, with the labels anywhere.           *)
(***************************************************************************)
EXTENDS ObjectCode

Instrs(ops, labels) ==
    LET using == {op \in ops : UsesLabel(op)}
    IN  [op : using, label : labels] \cup [op : ops \ using, label : {0}]

\* Label 0 is defined any number of times, label 1 in front of the first
\* instruction or not at all, label 2 as told.
Places(n, last) ==
    {[l \in Labels |-> CASE l = 0 -> p [] l = 1 -> q [] l = 2 -> last] :
        p \in SUBSET (1 .. n + 1), q \in {{}, {1}}}

Sources(codes, places) == [code : codes, place : places]

Any ==
    Sources([1 .. 0 -> {}], Places(0, {}))
       \cup Sources([1 .. 1 -> Instrs(Ops, {0, 1, 2})], Places(1, {2}))
       \cup Sources([1 .. 2 -> Instrs(Ops, {0, 1})], Places(2, {}))
       \cup Sources([1 .. 3 -> Instrs({"jsr", "rts", "exit"}, {0})], Places(3, {}))
       \cup Sources([1 .. 3 -> Instrs({"loadl", "jsra", "jmpa", "rts"}, {0})], Places(3, {}))
       \cup Sources([1 .. 4 -> Instrs({"jsr", "rts"}, {0})], Places(4, {}))
=============================================================================
