------------------------------ MODULE MCServer ------------------------------
(* Sets of clients for checking Server with TLC.                            *)
EXTENDS Server

CONSTANTS s1, t1, e1, r1

OneStarter  == {s1}
MainAndStop == {main, t1}
OneEditor   == {e1}
ForeignQueue == {"OpenBTS", "smqueue"}
=============================================================================
