------------------------------- MODULE MCCalld -------------------------------
(* Instances of Calld for TLC.                                             *)
EXTENDS Calld, TLC

CONSTANTS c1, c2, c3

Two == {c1, c2}
Three == {c1, c2, c3}
NoClients == {}
FirstOnly == {c1}

Entry(n, s, l) == [name |-> n, class |-> s, line |-> l]

(* Two lines; hosta can be reached over both, hostb over the first.        *)
TwoLines == << Entry("hosta", "fast", "l1"), Entry("hostb", "slow", "l1"),
               Entry("hosta", "slow", "l2") >>
(* As well an entry of another speed and one that no device serves.        *)
Mixed == << Entry("hosta", "fast", "l1"), Entry("hostb", "fast", "l2"),
            Entry("hostb", "slow", "l1"), Entry("hosta", "slow", "l2"),
            Entry("hosta", "slow", "none") >>
BothLines == {"l1", "l2"}

Ask_(n, s) == [name |-> n, speed |-> s]
WantSame == [c \in Two |-> Ask_("hosta", "any")]
WantMixed == [c \in Two |-> IF c = c1 THEN Ask_("hosta", "any") ELSE Ask_("hostb", "slow")]

(* One line for whoever comes.                                             *)
OneLine == << Entry("hostb", "slow", "l1") >>
WantUnknown == [c \in Three |-> Ask_(IF c = c2 THEN "hostx" ELSE "hostb", "any")]

CleanHeap == {0}
=============================================================================
