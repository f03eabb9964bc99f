--------------------------- MODULE MCMessageQueue ---------------------------
(***************************************************************************)
(* Two producers and a consumer on a small table.                          *)
(***************************************************************************)
EXTENDS MessageQueue, TLC

\* Numbers of both kinds that differ in their payload, and one message that
\* may be a number or a string.
SomeMail ==
    {[kind |-> "int64",  id |-> 1, val |-> 1], [kind |-> "double", id |-> 2, val |-> 2],
     [kind |-> "int64",  id |-> 3, val |-> 2], [kind |-> "double", id |-> 4, val |-> 1],
     [kind |-> "string", id |-> 4, val |-> 0]}

Producers == Permutations(Threads \ {Consumer})
=============================================================================
