---------------------------- MODULE ProverWitness ---------------------------
(***************************************************************************)
(* What the prover programs (circuit/src/bin) compute before they prove:   *)
(* an owner's leaf, the path of the first or the second leaf of an         *)
(* otherwise empty tree, the root they expect, and the six public inputs.  *)
(* An owner is [secret, id, expiry]; every program files a clean record.   *)
(***************************************************************************)
EXTENDS TitleCircuit

Levels == 0..(treeDepth - 1)

leaf_of(owner) ==
  leafHash([ownerCommitment |-> ownerCommitment(owner.secret, owner.id),
            encumbranceFlag |-> 0, licenseStatus |-> 1, licenseExpiry |-> owner.expiry])

\* Mutant: nonce and purpose in each other's place.
public_inputs_Swapped(owner, root, challenge) ==
  <<registryId, root, challenge.requestNonce, challenge.purpose,
    challenge.currentTimestamp,
    nullifierHash(owner.secret, owner.id, challenge.purpose, challenge.requestNonce)>>

public_inputs(owner, root, challenge) ==
  <<registryId, root, challenge.purpose, challenge.requestNonce,
    challenge.currentTimestamp,
    nullifierHash(owner.secret, owner.id, challenge.purpose, challenge.requestNonce)>>

circuit_of(owner, path, bits) ==
  [owner_secret |-> owner.secret, property_id |-> owner.id, encumbrance_flag |-> 0,
   license_status |-> 1, license_expiry |-> owner.expiry,
   merkle_path |-> path, merkle_path_bits |-> bits]

\* Leaf 0: the chain of zero hashes, each pushed before it is advanced.
first_path == [level \in Levels |-> zeroHashes[level]]
first_bits == [level \in Levels |-> FALSE]

first_root(owner) == Fold(leaf_of(owner), first_path, first_bits)

\* Mutant: the chain is advanced after pushing, as for leaf 0 (the bug that
\* prove_live.rs:288-299 tells of).
second_path_PushesFirst(owner0) ==
  [level \in Levels |-> IF level = 0 THEN leaf_of(owner0) ELSE zeroHashes[level - 1]]

\* Leaf 1: the real leaf 0, then the chain, advanced before it is pushed.
second_path(owner0) ==
  [level \in Levels |-> IF level = 0 THEN leaf_of(owner0) ELSE zeroHashes[level]]
second_bits == [level \in Levels |-> level = 0]

\* The root that prove2, verify_prove2 and predict-root compute on their own.
second_root(leaf0, leaf1) ==
  LET cur[level \in 1..treeDepth] ==
        IF level = 1 THEN nodeHash(leaf0, leaf1)
                     ELSE nodeHash(cur[level - 1], zeroHashes[level - 1])
  IN cur[treeDepth]
=============================================================================
