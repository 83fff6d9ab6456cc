------------------------------ MODULE MCSemaph ------------------------------
(* Instances of Semaph for TLC.                                            *)
EXTENDS Semaph, TLC

CONSTANTS p1, p2, p3

Two == {p1, p2}
Three == {p1, p2, p3}
OnlyOne == {p1}
NoProcs == {}

WaitAndSignal == {-1, 1}
SignalFirst == -1
ProcSymmetry == Permutations({p1, p2, p3})
=============================================================================
