---------------------------- MODULE MCCellStatus ----------------------------
(* Sets of clients for checking CellStatus with TLC.                        *)
EXTENDS CellStatus

CONSTANTS s1, t1, e1, q1, q2

OneStarter == {s1}
OneStopper == {t1}
OneEditor  == {e1}
OneProbe   == {q1}
TwoProbes  == {q1, q2}
=============================================================================
