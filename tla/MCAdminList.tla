---------------------------- MODULE MCAdminList -----------------------------
(* Three principals, one of them the controller that deployed the canister. *)
EXTENDS AdminList, TLC

CONSTANTS deployer, alice, bob

MCPrincipals == {deployer, alice, bob}
MCControllers == {deployer}
MCSymmetry == Permutations(MCPrincipals)

\* The bootstrap is a controller's call ("bootstrap is controller-gated",
\* SECURITY.md:39).  bootstrapAdmin reads no caller, so anyone's call succeeds.
ControllerBootstraps ==
  \A i \in DOMAIN grants :
    grants[i].by = "bootstrapAdmin" => grants[i].caller \in MCControllers
=============================================================================
