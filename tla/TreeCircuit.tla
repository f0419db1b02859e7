----------------------------- MODULE TreeCircuit ----------------------------
(***************************************************************************)
(* The circuit over the tree that the canister keeps: what can be proved   *)
(* of the current root, against what the records on file say.              *)
(***************************************************************************)
EXTENDS SparseMerkleTree, TitleCircuit

CONSTANTS Secrets, PropertyIds,   \* owner_secret, property_id
          Purposes, Nonces,
          Timestamps              \* the current_timestamps worth trying

\* Numbers are elements of the field.
ASSUME CircuitAssumption == /\ Expiries \subseteq Fr
                            /\ Timestamps \subseteq Fr
                            /\ registryId \in Nat

\* The hashes found so many levels below a root, at whatever place.
TermsUnder(root, depth) ==
  LET at[d \in 0..depth] ==
        IF d = 0 THEN {root}
        ELSE UNION {IF t[1] = "node" THEN {t[2], t[3]} ELSE {} : t \in at[d - 1]}
  IN at[depth]

\* The paths worth trying against a root: no other hash can fold to it.
Paths(root) ==
  {path \in [0..(treeDepth - 1) -> UNION {TermsUnder(root, d) : d \in 1..treeDepth}] :
     \A level \in 0..(treeDepth - 1) : path[level] \in TermsUnder(root, treeDepth - level)}

\* A prover's assignments for the private part, honest or not.
Witnesses(root) ==
  [owner_secret : Secrets, property_id : PropertyIds, encumbrance_flag : Flags,
   license_status : Statuses, license_expiry : Expiries,
   merkle_path : Paths(root), merkle_path_bits : [0..(treeDepth - 1) -> BOOLEAN]]

\* Public inputs for the tree as it stands: another registry, a timestamp in
\* range or out of it, the nullifier of any owner.
Statements ==
  {[registry_id |-> registry, merkle_root |-> currentRoot, purpose |-> purpose,
    request_nonce |-> nonce, current_timestamp |-> ts,
    nullifier |-> nullifierHash(secret, id, purpose, nonce)] :
      registry \in {registryId, registryId + 1}, purpose \in Purposes,
      nonce \in Nonces, ts \in Timestamps, secret \in Secrets, id \in PropertyIds}

\* The public inputs can be satisfied exactly when the registry has on file an
\* unencumbered, licensed record of the owner the nullifier is made from, that
\* expires later than the timestamp, both within n bits (the statement at the
\* head of circuit/src/lib.rs:4-14).  It fails if a witness that no record
\* backs is accepted, as well as if an honest owner has none.
CircuitStatesTheClaim ==
  LET witnesses == Witnesses(currentRoot)
  IN \A pub \in Statements :
    (\E w \in witnesses : generate_constraints(PublicInputs(pub), w))
      <=> /\ pub.registry_id = registryId
          /\ \E p \in DOMAIN records, secret \in Secrets, id \in PropertyIds :
               /\ records[p].ownerCommitment = ownerCommitment(secret, id)
               /\ pub.nullifier = nullifierHash(secret, id, pub.purpose, pub.request_nonce)
               /\ records[p].encumbranceFlag = 0
               /\ records[p].licenseStatus = 1
               /\ records[p].licenseExpiry < TwoN
               /\ pub.current_timestamp < records[p].licenseExpiry
=============================================================================
