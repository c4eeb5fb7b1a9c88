------------------------------- MODULE MCCell -------------------------------
(* Sets of clients and process names for checking Cell with TLC.            *)
EXTENDS Cell, TLC

CONSTANTS s1, t1, e1, r1, r2

OneStarter  == {s1}
OneStopper  == {t1}
OneEditor   == {e1}
TwoRadios   == {r1, r2}

\* No action or property tells one radio configuration from another.
RadioSymmetry == Permutations(TwoRadios)

ForeignRadio == {"OpenBTS", "smqueue"}
=============================================================================
