-------------------------- MODULE MCChallengeStore --------------------------
(* Two callers who race for three challenges, on a short clock.            *)
EXTENDS ChallengeStore, TLC

CONSTANTS alice, bob, anonymous, r1, r2, n1, n2, rent

MCPrincipals == {alice, bob, anonymous}
MCRoots == {r1, r2}
MCNullifiers == {n1, n2}
MCPurposes == {rent}
\* For the sweep: one caller, one root and one nullifier, more challenges.
MCOneCaller == {alice, anonymous}
MCOneRoot == {r1}
MCOneNullifier == {n1}

MCSymmetry == Permutations({alice, bob}) \cup Permutations({r1, r2})
                \cup Permutations({n1, n2})
=============================================================================
