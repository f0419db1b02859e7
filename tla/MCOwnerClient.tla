--------------------------- MODULE MCOwnerClient ----------------------------
(* The two identities of prove_live; the clerk files, and calls as well.   *)
(* The first licence runs out while challenges are still issued.           *)
EXTENDS OwnerClient, TLC

CONSTANTS clerk, tenant, anonymous, h0, h1, s0, s1, k1, odd

MCPrincipals == {clerk, tenant, anonymous}
MCOfficials == {clerk}
MCProperties == {h0, h1}
MCSecrets == {s0, s1}
MCOwner0 == [secret |-> s0, id |-> h0, expiry |-> 1]
MCOwner1 == [secret |-> s1, id |-> h1, expiry |-> 7]
MCKeys == {k1}
MCOddKeys == {odd}
MCNone == {}
MCMethods == {"prove", "prove2", "wallet"}

Filing(owner) == [secret |-> owner.secret, encumbranceFlag |-> 0,
                  licenseStatus |-> 1, licenseExpiry |-> owner.expiry]
MCFilings == {Filing(MCOwner0), Filing(MCOwner1)}
\* The second purpose is the first modulo r.
MCPurposes == {1, 38}
=============================================================================
