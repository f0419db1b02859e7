------------------------ MODULE MCThrottledEndpoint -------------------------
(* Two principals and the anonymous one, on a clock of seven ticks.        *)
EXTENDS ThrottledEndpoint, TLC

CONSTANTS alice, bob, anonymous

MCPrincipals == {alice, bob, anonymous}
MCSymmetry == Permutations({alice, bob})
=============================================================================
