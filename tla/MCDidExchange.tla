---------------------------- MODULE MCDidExchange ----------------------------
(* Instances of DidExchange with two or three agents for TLC.              *)
EXTENDS DidExchange
CONSTANTS a1, a2, a3
Two == {a1, a2}
None == {}
Chain == {<<a1, a2>>, <<a2, a3>>, <<a1, a3>>}
One == {<<a1, a2>>}
Others == {<<a2, a3>>, <<a1, a3>>}
Mutual == {<<a1, a2>>, <<a2, a1>>}
=============================================================================
