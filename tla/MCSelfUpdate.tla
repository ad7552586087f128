---------------------------- MODULE MCSelfUpdate ----------------------------
(* A small instance of SelfUpdate: two versions differ from the one shipped*)
(* in their parts, a third only in how it is written.                      *)
EXTENDS SelfUpdate

Versions == {<<1, 1, 0>>, <<1, 2>>, <<2>>}
FirstVersion == <<1, 1>>
=============================================================================
