------------------------- MODULE MCSparseMerkleTree -------------------------
(* Records that differ in owner, encumbrance, licence and expiry, over a   *)
(* small tree and the field of 37 elements.                                *)
EXTENDS TreeCircuit, TLC

CONSTANTS p1, p2, p3, p4, ali, mona, house

MCThreeProperties == {p1, p2, p3}
MCFourProperties == {p1, p2, p3, p4}
MCSecrets == {ali, mona}
MCPropertyIds == {house}
MCOwners == {ownerCommitment(ali, house)}   \* mona owns nothing
MCFlags == {0, 1}
MCStatuses == {0, 1}
MCExpiries == {5, 8}
MCPurposes == {1}
MCNonces == {0}
MCTimestamps == {4, 5, 36}   \* around the expiries, and the last field element
MCSymmetry == Permutations(MCFourProperties)
=============================================================================
