---------------------------- MODULE MCTextIndex ----------------------------
(***************************************************************************)
(* Three slots and three terms in a table that starts with four cells: the *)
(* probes of ta and tb meet in the first table, of ta and tc in both.      *)
(***************************************************************************)
EXTENDS TextIndex

CONSTANTS ta, tb, tc

HomeOf == ta :> 3 @@ tb :> 7 @@ tc :> 11

SomeTexts == {<<>>, <<ta>>, <<tb, ta, tb>>, <<tc, ta>>}
=============================================================================
