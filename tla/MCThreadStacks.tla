--------------------------- MODULE MCThreadStacks ---------------------------
(***************************************************************************)
(* Two stacks of a few bytes, words of two bytes.                          *)
(***************************************************************************)
EXTENDS ThreadStacks

\* A register whose bytes differ, so that an order shows, and are tags.
OneWord == {<<0, 1>>}

\* Bound: once a stack is harmed, the threads are followed until one of them
\* has taken from it what no thread ever loaded.
Followed == broken # {} => \A c \in Cores : reg[c] \in Loads
=============================================================================
