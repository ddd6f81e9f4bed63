----------------------------- MODULE MCObjectTables -----------------------------
(***************************************************************************)
(* Keys of every kind the order tells apart: ASCII, U+1F600 (which UTF-16  *)
(* puts before U+E000 and UTF-8 behind it), and two that tie, a byte that  *)
(* is no UTF-8 and U+FFFD.                                                 *)
(***************************************************************************)
EXTENDS ObjectTables, Integers

Order == INSTANCE KeyOrder

MCKey == { <<97>>, <<128512>>, <<57344>>, <<65533>>, << -1 >> }
MCBefore == {p \in MCKey \X MCKey : Order!StringLess(p[1], p[2])}
MCByte == {1, 2}
MCText == {<<1>>, <<2, 1>>}
================================================================================
