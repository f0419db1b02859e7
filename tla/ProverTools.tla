----------------------------- MODULE ProverTools ----------------------------
(***************************************************************************)
(* The command-line programs of circuit/src/bin on the directory they      *)
(* share: who reads and writes which file in what order, what is proved    *)
(* with what was read, and what is printed.  Programs run in terminals,    *)
(* may overlap, and may die at any step; writing a file truncates it and   *)
(* then fills it.  Groth16 is ideal: a proof verifies under the key of the *)
(* setup it was made with, for its own inputs, if the witness satisfied    *)
(* the circuit.  A key is the number of the setup or ceremony it is from.  *)
(***************************************************************************)
EXTENDS ProverWitness, SubgroupCheck, FlatField, PointDecode, PoseidonSponge,
        PairingForms, FiniteSets

CONSTANTS Terminals,
          Owner, Owner0, Owner1,        \* the identities written in the programs
          Challenge,                    \* the challenge written in the programs
          Missing, Torn,
          Values,                       \* field elements tried as hash inputs
          MaxKeys, MaxRuns              \* bounds

\* The records that the programs prove from are in force at the challenge, and
\* numbers of the field; the tree has at least one level; a file that is not
\* there, or not whole, is no key.
ASSUME IdentityAssumption ==
  \A owner \in {Owner, Owner0, Owner1} :
    /\ owner.expiry \in Fr /\ Challenge.currentTimestamp \in Fr
    /\ owner.expiry < TwoN /\ Challenge.currentTimestamp < owner.expiry
ASSUME DepthAssumption == treeDepth # 0
ASSUME KeyFileAssumption == /\ MaxKeys \in Nat
                            /\ {Missing, Torn} \cap (1..MaxKeys) = {}

VARIABLES
  files,      \* the directory
  run,        \* what each terminal is running
  keys,       \* how many keys have been generated
  runs,       \* how many programs have been started
  printed,    \* what the last program to finish printed
  clean       \* observer: the last program to write a key did so from start
              \* to end, with no other such program beside it

vars == <<files, run, keys, runs, printed, clean>>

PK == "proving_key.bin"
VK == "verifying_key.bin"
WIRE == "wire_export.json"
LIVE == "prove_live_output.json"
PARAMS == "poseidon_params.json"
LIVE2 == "prove_live2_output.json"
Files == {PK, VK, WIRE, LIVE, LIVE2, PARAMS}

\* What each program reads, in order, before it computes anything, and what it
\* then writes, in order.
Steps(reads, writes) == [reads |-> reads, writes |-> writes]

setup == Steps(<<>>, <<PK, VK>>)
install_key == Steps(<<>>, <<PK>>)         \* a ceremony's final key put in place

\* Mutant: it extracts the key from the file it is to write.
extract_vk_Rewrites == Steps(<<VK>>, <<VK>>)

extract_vk == Steps(<<PK>>, <<VK>>)
prove == Steps(<<PK>>, <<>>)
prove_live == Steps(<<PK, VK>>, <<LIVE>>)
prove_live_2 == Steps(<<PK, VK>>, <<LIVE2>>)
wire_export == Steps(<<PK, VK>>, <<WIRE>>)
verify_smoke == Steps(<<PK, VK>>, <<>>)
verify_prove2 == Steps(<<PK, VK>>, <<>>)
oracle_pin_fixture == Steps(<<WIRE>>, <<>>)
oracle_in_memory == Steps(<<>>, <<>>)      \* oracle_alphabeta, oracle_subgroup_jacobian
export_poseidon_params == Steps(<<>>, <<PARAMS>>)

Programs == [setup |-> setup, install_key |-> install_key, extract_vk |-> extract_vk,
             prove |-> prove, prove_live |-> prove_live,
             prove_live_2 |-> prove_live_2, wire_export |-> wire_export,
             verify_smoke |-> verify_smoke, verify_prove2 |-> verify_prove2,
             oracle_pin_fixture |-> oracle_pin_fixture,
             oracle_alphabeta |-> oracle_in_memory,
             oracle_subgroup_jacobian |-> oracle_in_memory,
             export_poseidon_params |-> export_poseidon_params]

KeyWriters == {"setup", "install_key", "extract_vk"}
KeyMakers == {"setup", "install_key"}

\* A terminal that runs nothing, and an output that says nothing.
Idle == [prog |-> "none"]
Silent == [prog |-> "none"]
-----------------------------------------------------------------------------
\* Groth16::prove and verify.
Prove(pk, inputs, circuit) ==
  [key |-> pk, inputs |-> inputs, sound |-> generate_constraints(inputs, circuit)]

Verifies(vk, inputs, proof) ==
  proof.key = vk /\ proof.inputs = inputs /\ proof.sound

Forged(inputs) == [inputs EXCEPT ![6] = <<"number", "123456789">>]

\* prove, wire_export and the honest case of verify_smoke prove the same.
demo_inputs == public_inputs(Owner, first_root(Owner), Challenge)
demo_proof(pk) == Prove(pk, demo_inputs, circuit_of(Owner, first_path, first_bits))

Verdict(case, ok, expect) == [case |-> case, ok |-> ok, expect |-> expect]

\* Root, nullifier and siblings of the inconsistent witness are all 0, the
\* value of the empty leaf.
verify_smoke_verdicts(pk, vk) ==
  LET nought == zeroHashes[0]
      bad_inputs == [demo_inputs EXCEPT ![2] = nought, ![6] = nought]
      bad_proof == Prove(pk, bad_inputs,
                         circuit_of(Owner, [level \in Levels |-> nought], first_bits))
  IN {Verdict("inconsistent", Verifies(vk, bad_inputs, bad_proof), FALSE),
      Verdict("consistent", Verifies(vk, demo_inputs, demo_proof(pk)), TRUE),
      Verdict("tampered", Verifies(vk, Forged(demo_inputs), demo_proof(pk)), FALSE)}

\* prove_live prove2 and verify_prove2 prove the same of the second leaf.
prove2_inputs ==
  public_inputs(Owner1, second_root(leaf_of(Owner0), leaf_of(Owner1)), Challenge)
prove2_proof(pk) ==
  Prove(pk, prove2_inputs, circuit_of(Owner1, second_path(Owner0), second_bits))

verify_prove2_verdicts(pk, vk) ==
  {Verdict("prove2", Verifies(vk, prove2_inputs, prove2_proof(pk)), TRUE),
   Verdict("forged", Verifies(vk, Forged(prove2_inputs), prove2_proof(pk)), FALSE)}

oracle_pin_fixture_verdicts(wire) ==
  {Verdict("valid", Verifies(wire.vk, wire.inputs, wire.proof), TRUE),
   Verdict("forged", Verifies(wire.vk, wire.forged, wire.proof), FALSE)}

Verdicts(r) ==
  CASE r.prog = "verify_smoke" -> verify_smoke_verdicts(r.read[1], r.read[2])
    [] r.prog = "verify_prove2" -> verify_prove2_verdicts(r.read[1], r.read[2])
    [] r.prog = "oracle_pin_fixture" -> oracle_pin_fixture_verdicts(r.read[1])
    [] r.prog = "oracle_alphabeta" -> {Verdict("all cases", oracle_alphabeta, TRUE)}
    [] r.prog = "oracle_subgroup_jacobian" -> {Verdict("all_pass", all_pass, TRUE)}
    [] OTHER -> {}

\* What is written to f; steady is no part of the file, but recalls whether
\* the keys it was made with were read while nothing was writing them.
Content(r, f) ==
  CASE f = PK -> r.key
    [] f = VK -> IF r.prog = "setup" THEN r.key ELSE r.read[1]
    [] f = WIRE -> [vk |-> r.read[2], proof |-> demo_proof(r.read[1]),
                    inputs |-> demo_inputs, forged |-> Forged(demo_inputs),
                    steady |-> r.steady]
    [] f = LIVE -> LET inputs == public_inputs(Owner0, first_root(Owner0), Challenge)
                   IN [vk |-> r.read[2], inputs |-> inputs,
                       proof |-> Prove(r.read[1], inputs,
                                       circuit_of(Owner0, first_path, first_bits)),
                       steady |-> r.steady]
    [] f = LIVE2 -> [vk |-> r.read[2], inputs |-> prove2_inputs,
                     proof |-> prove2_proof(r.read[1]), steady |-> r.steady]
    [] f = PARAMS -> "params"
-----------------------------------------------------------------------------
Init == /\ files = [f \in Files |-> Missing]
        /\ run = [t \in Terminals |-> Idle]
        /\ keys = 0
        /\ runs = 0
        /\ printed = Silent
        /\ clean = FALSE

Reading(r) == Len(r.read) < Len(Programs[r.prog].reads)
Writing(r) == ~Reading(r) /\ r.written < Len(Programs[r.prog].writes)
NextRead(r) == Programs[r.prog].reads[Len(r.read) + 1]
NextWrite(r) == Programs[r.prog].writes[r.written + 1]

\* A program that starts to write keys disturbs every program that is writing
\* keys or has yet to read them.
Disturbs(prog, r) == prog \in KeyWriters /\ (r.prog \in KeyWriters \/ Reading(r))

FreshKey(prog) == IF prog \in KeyMakers THEN keys + 1 ELSE 0

Start(t, prog) ==
  /\ run[t] = Idle
  /\ runs < MaxRuns
  /\ prog \in KeyMakers => keys < MaxKeys
  /\ keys' = IF prog \in KeyMakers THEN keys + 1 ELSE keys
  /\ LET alone == \A u \in Terminals : run[u] # Idle => run[u].prog \notin KeyWriters
     IN run' = [u \in Terminals |->
          CASE u = t -> [prog |-> prog, read |-> <<>>, written |-> 0, opened |-> FALSE,
                         key |-> FreshKey(prog),
                         steady |-> IF prog \in KeyWriters THEN alone ELSE clean]
            [] u # t /\ run[u] # Idle -> [run[u] EXCEPT !.steady = @ /\ ~Disturbs(prog, run[u])]
            [] OTHER -> Idle]
  /\ runs' = runs + 1
  /\ clean' = (clean /\ prog \notin KeyWriters)
  /\ UNCHANGED <<files, printed>>

Exits(t) == run' = [run EXCEPT ![t] = Idle]

\* A missing file, or one that does not parse, ends the program.  prove_live
\* copies the bytes of the verifying key without parsing them.
Read(t) ==
  /\ run[t] # Idle
  /\ Reading(run[t])
  /\ LET f == NextRead(run[t])
         unusable == \/ files[f] = Missing
                     \/ files[f] = Torn /\ ~(run[t].prog \in {"prove_live", "prove_live_2"} /\ f = VK)
     IN IF unusable THEN Exits(t)
        ELSE run' = [run EXCEPT ![t].read = Append(@, files[f])]
  /\ UNCHANGED <<files, keys, runs, printed, clean>>

\* std::fs::write: the file is truncated, then filled.
Open(t) ==
  /\ run[t] # Idle
  /\ Writing(run[t])
  /\ ~run[t].opened
  /\ files' = [files EXCEPT ![NextWrite(run[t])] = Torn]
  /\ run' = [run EXCEPT ![t].opened = TRUE]
  /\ UNCHANGED <<keys, runs, printed, clean>>

Fill(t) ==
  /\ run[t] # Idle
  /\ run[t].opened
  /\ files' = [files EXCEPT ![NextWrite(run[t])] = Content(run[t], NextWrite(run[t]))]
  /\ run' = [run EXCEPT ![t].opened = FALSE, ![t].written = @ + 1]
  /\ UNCHANGED <<keys, runs, printed, clean>>

Finish(t) ==
  /\ run[t] # Idle
  /\ ~Reading(run[t])
  /\ ~Writing(run[t])
  /\ printed' = [prog |-> run[t].prog, read |-> run[t].read, steady |-> run[t].steady,
                 verdicts |-> Verdicts(run[t])]
  /\ clean' = IF run[t].prog \in {"setup", "extract_vk"} THEN run[t].steady ELSE clean
  /\ Exits(t)
  /\ UNCHANGED <<files, keys, runs>>

\* Killed, or a panic: a debug build of arkworks also panics on proving what
\* the witness does not satisfy, as verify_smoke does first.
Crash(t) ==
  /\ run[t] # Idle
  /\ Exits(t)
  /\ UNCHANGED <<files, keys, runs, printed, clean>>

Next == \E t \in Terminals : \/ \E prog \in DOMAIN Programs : Start(t, prog)
                             \/ Read(t)
                             \/ Open(t)
                             \/ Fill(t)
                             \/ Finish(t)
                             \/ Crash(t)

Spec == Init /\ [][Next]_vars
-----------------------------------------------------------------------------
Whole(f) == files[f] # Missing /\ files[f] # Torn

\* Whatever died or overlapped before, one undisturbed setup, or one
\* undisturbed extract_vk on whatever proving key is there, leaves two key
\* files of one setup (setup.rs:22-28, extract_vk.rs:12-19).
KeysMatchWhenClean ==
  clean => /\ Whole(PK)
           /\ files[VK] = files[PK]

\* A check that read its keys undisturbed prints what it says to expect
\* ("expect true", "expect false", verify_smoke.rs and verify_prove2.rs).  One
\* that prints nothing unexpected has read two keys of one setup, even if setups
\* died or overlapped while it read; and nothing forged is ever accepted.
ChecksTell ==
  printed # Silent =>
    (printed.prog \in {"verify_smoke", "verify_prove2"} =>
       LET as_expected == \A v \in printed.verdicts : v.ok = v.expect
       IN /\ printed.steady => as_expected
          /\ as_expected => printed.read[1] = printed.read[2]
          /\ \A v \in printed.verdicts : v.ok => v.expect)

\* An export made undisturbed verifies under the key it carries, and its
\* forged variant never does, for whoever reads the file at any later time.
ExportsVerify ==
  /\ \A f \in {WIRE, LIVE, LIVE2} : Whole(f) =>
       (files[f].steady => Verifies(files[f].vk, files[f].inputs, files[f].proof))
  /\ Whole(WIRE) => ~Verifies(files[WIRE].vk, files[WIRE].forged, files[WIRE].proof)

OraclePasses(prog) ==
  printed # Silent => (printed.prog = prog => \A v \in printed.verdicts : v.ok)

\* The oracles pass on all of a small instance and not on samples only: the fast
\* subgroup checks answer as the definition [r]P = O does, for every point of the
\* curve and of its twist, in every representation tried; and three pairings
\* against the prepared e(alpha, beta) decide as four against 1.
OraclesAgree == OraclePasses("oracle_subgroup_jacobian") /\ OraclePasses("oracle_alphabeta")

\* The verifier's arithmetic is exact: operations on limbs leave the canonical
\* residue of what they compute, wherever the operands lie in the arena and
\* whichever of them share a place, and touch nothing else (FpFlat.mo:22-25);
\* the Jacobian formulas add as chord and tangent do, any two points, equal,
\* opposite or infinity among them, in any representation (CurveFlat.mo:142).
ArithmeticExact == printed # Silent => field_exact /\ group_law_exact

\* The canister decodes every point that an export can hold to that point, and
\* accepts no other encoding of any (Decode.mo:12-13: duplicate encodings, the
\* wrong root).
DecodingExact == Whole(WIRE) => decode_exact
-----------------------------------------------------------------------------
Calls == UNION {{shape[1]} \X [1..shape[2] -> Values] :
                  shape \in {<<1, 5>>, <<2, 2>>, <<3, 4>>, <<4, 2>>}}

sponges_agree ==
  \A n \in 0..5 : \A inputs \in [1..n -> Values] :
    /\ hash(1, inputs) = poseidon_hash(<<1>> \o inputs)
    /\ hash(1, inputs) = poseidon(1, inputs)

\* Once the parameters are exported, the canister hashes as the circuit and as
\* the prover programs do, whichever way they absorb, at every length.
SpongesAgree == Whole(PARAMS) => sponges_agree

hashes_apart ==
  LET hashes == {hash(c[1], c[2]) : c \in Calls}
  IN Cardinality(hashes) = Cardinality(Calls) /\ EmptyBag \notin hashes

\* No two calls of the four shapes in use (leaf, commitment, nullifier, node)
\* hash the same sponge states, zeros and values equal to a tag included: what
\* TitleHashes takes for granted of a permutation without collisions.
HashesApart == Whole(PARAMS) => hashes_apart
=============================================================================
