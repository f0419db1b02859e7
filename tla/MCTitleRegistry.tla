-------------------------- MODULE MCTitleRegistry ---------------------------
(* One property, one caller who is also the admin, two challenges.         *)
EXTENDS TitleRegistry, TLC

CONSTANTS clerk, anonymous, house, sOwner, sBuyer, rent, k1, garbage

MCPrincipals == {clerk, anonymous}
MCProperties == {house}
MCSecrets == {sOwner, sBuyer}
MCPurposes == {rent}
MCOneKey == {k1}
MCOfficials == {clerk}
MCBadKeys == {garbage}
MCNoKeys == {}

Filing(secret, flag, expiry) == [secret |-> secret, encumbranceFlag |-> flag,
                         licenseStatus |-> 1, licenseExpiry |-> expiry]
MCFilings == {Filing(sOwner, 0, 9), Filing(sOwner, 1, 9),
               Filing(sOwner, 0, 1), Filing(sBuyer, 0, 9)}
=============================================================================
