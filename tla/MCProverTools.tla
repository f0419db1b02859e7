--------------------------- MODULE MCProverTools ----------------------------
(* Two terminals; the curve of 39 points and its twist of 1417; points on   *)
(* the wire from a field of 7, whose curve has 3 and whose twist has 63.    *)
EXTENDS ProverTools, TLC

CONSTANTS t1, t2

MCTerminals == {t1, t2}
MCOwner == [secret |-> "999", id |-> "1001", expiry |-> 6]
MCOwner0 == [secret |-> "555666", id |-> "777888", expiry |-> 7]
MCOwner1 == [secret |-> "222333", id |-> "444555", expiry |-> 7]
MCChallenge == [purpose |-> 1, requestNonce |-> 2, currentTimestamp |-> 5]
MCValues == {0, 1, 7}
MCCurveB == <<3, 0>>
MCTwistB == <<0, 3>>
MCBeta == <<26, 0>>
MCPsiX == <<11, 0>>
MCPsiY == <<6, 0>>
MCRescalings == {<<5, 0>>, <<3, 7>>}
MCSymmetry == Permutations(MCTerminals)
=============================================================================
