---------------------------- MODULE MCPollStream ----------------------------
(* Instances of PollStream for TLC: the sets the configurations choose from. *)
EXTENDS PollStreamInv

CONSTANTS s1, s2

OneSlot  == {s1}
TwoSlots == {s1, s2}

GoodOnly    == {"good"}
UntimedOnly == {"untimed"}
Damaged     == {"good", "notdict"}
AnyKind     == AllKinds
=============================================================================
