---------------------------- MODULE TitleHashes -----------------------------
(***************************************************************************)
(* The domain-separated hashes that canister, circuit and prover programs  *)
(* share.  A hash is the term that was hashed: two hashes are equal        *)
(* exactly when their inputs are (collision resistance, the domain tags    *)
(* keeping leaves, inner nodes, commitments, nullifiers and the empty leaf *)
(* apart).                                                                 *)
(***************************************************************************)
EXTENDS Integers

CONSTANTS registryId, treeDepth

ASSUME TreeAssumption == treeDepth \in Nat

ownerCommitment(secret, id) == <<"owner", secret, id>>

\* The hash of a record; the property's id is not an input of its own.
leafHash(r) == <<"leaf", registryId, r.ownerCommitment, r.encumbranceFlag,
                 r.licenseStatus, r.licenseExpiry>>

nodeHash(l, r) == <<"node", l, r>>

nullifierHash(secret, id, purpose, nonce) == <<"nullifier", secret, id, purpose, nonce>>

zeroHashes[level \in 0..treeDepth] ==
  IF level = 0 THEN <<"empty">>
  ELSE nodeHash(zeroHashes[level - 1], zeroHashes[level - 1])

\* A leaf folded along a path of siblings, on the side each bit says.
Fold(leaf, siblings, pathBits) ==
  LET cur[level \in 0..treeDepth] ==
        IF level = 0 THEN leaf
        ELSE IF pathBits[level - 1] THEN nodeHash(siblings[level - 1], cur[level - 1])
                                    ELSE nodeHash(cur[level - 1], siblings[level - 1])
  IN cur[treeDepth]
=============================================================================
