---------------------------- MODULE TitleCircuit ----------------------------
(***************************************************************************)
(* The circuit TitleVerificationCircuit (circuit/src/lib.rs): what the     *)
(* public inputs and the private witness must satisfy, constraint by       *)
(* constraint.  Numbers are elements of a prime field.                     *)
(***************************************************************************)
EXTENDS TitleHashes, CircuitGadgets

\* The six public inputs, in the order the circuit allocates them.
PublicInputs(pub) == <<pub.registry_id, pub.merkle_root, pub.purpose,
                       pub.request_nonce, pub.current_timestamp, pub.nullifier>>

\* The constraints on the six public inputs and the private witness w.
generate_constraints(inputs, w) ==
  LET leaf == <<"leaf", inputs[1], ownerCommitment(w.owner_secret, w.property_id),
                w.encumbrance_flag, w.license_status, w.license_expiry>>
  IN /\ w.encumbrance_flag = 0
     /\ w.license_status = 1
     /\ not_expired(w.license_expiry, inputs[5])
     /\ inputs[6] = nullifierHash(w.owner_secret, w.property_id, inputs[3], inputs[4])
     /\ Fold(leaf, w.merkle_path, w.merkle_path_bits) = inputs[2]
=============================================================================
