------------------------------ MODULE MCSmsLog ------------------------------
(* Inode numbers for checking SmsLog with TLC.                              *)
EXTENDS SmsLog, TLC

CONSTANTS i1, i2, i3, i4

FourInodes  == {i1, i2, i3, i4}
ThreeInodes == {i1, i2, i3}

\* No action or property tells one inode number from another.
FourSymmetry == Permutations(FourInodes)
ThreeSymmetry == Permutations(ThreeInodes)
=============================================================================
