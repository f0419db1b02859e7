----------------------------- MODULE OwnerClient ----------------------------
(***************************************************************************)
(* An owner before the registry: asks for a challenge, builds the witness, *)
(* proves, and presents the proof, while officials file records and        *)
(* replace the key, others call, time passes and the canister is upgraded. *)
(* The witness comes from prove_live prove (the owner of the first of one  *)
(* record), from prove_live prove2 (of the second of two), or, in a wallet *)
(* such as main.mo describes, from getMerkleProof.                         *)
(***************************************************************************)
EXTENDS TitleRegistry, ProverWitness

CONSTANTS ClientPrincipal,   \* the principal that calls for the owners
          Owner0, Owner1,    \* the identities of prove_live
          Methods            \* of "prove", "prove2", "wallet"

\* What is filed, and the registry's number, are elements of the field.
ASSUME ClientAssumption == /\ registryId \in Nat
                           /\ \A f \in Filings : f.licenseExpiry \in Fr

\* The two identities own two properties, under licences whose expiry the circuit
\* can compare (2^64 and above it cannot); two properties need two leaves.
ASSUME OwnersAssumption ==
  /\ ClientPrincipal \in Principals
  /\ Methods \subseteq {"prove", "prove2", "wallet"}
  /\ Owner0.id \in Properties /\ Owner1.id \in Properties /\ Owner0.id # Owner1.id
  /\ Owner0.expiry \in 0..(TwoN - 1) /\ Owner1.expiry \in 0..(TwoN - 1)
  /\ treeDepth # 0

VARIABLE client

allVars == <<vars, client>>

Idle == [pc |-> "idle"]

Challenged(method, id) == [pc |-> "challenged", method |-> method, id |-> id]

Proved(method, id, proof) ==
  [pc |-> "proved", method |-> method, id |-> id, proof |-> proof, madeFor |-> vkHex]

ClientInit == Init /\ client = Idle

ProverOf(method) == IF method = "prove2" THEN Owner1 ELSE Owner0

\* The reply of requestChallenge.
Reply(id) == issued[id + 1].challenge

\* A proof can carry the residue of a number only (fr_from_dec_str), and says
\* it in its own public inputs (dec).
fr_from_dec_str(n) == n % FrModulus

AsProved(c) == [c EXCEPT !.purpose = fr_from_dec_str(c.purpose)]

Witness(root, path, bits) == [root |-> root, path |-> path, bits |-> bits]

WitnessBy(method) ==
  CASE method = "prove" -> Witness(first_root(Owner0), first_path, first_bits)
    [] method = "prove2" ->
         Witness(second_root(leaf_of(Owner0), leaf_of(Owner1)),
                 second_path(Owner0), second_bits)
    [] method = "wallet" ->
         LET reply == Tree!getMerkleProof(Owner0.id)
         IN Witness(reply.root, reply.siblings, reply.pathBits)

\* prove_live files what is written in it; a wallet reads getRecord first.
OnFile(owner) ==
  /\ owner.id \in DOMAIN records
  /\ leafHash(records[owner.id]) = leaf_of(owner)

\* The proving key is the one that belongs to the key now in force.
MakeProof(owner, witness, c) ==
  LET inputs == public_inputs(owner, witness.root, AsProved(c))
      sound == generate_constraints(inputs, circuit_of(owner, witness.path, witness.bits))
  IN [key |-> IF sound THEN vkHex ELSE NoKey,
      inputs |-> SubSeq(inputs, 1, 5), element |-> inputs[6]]
-----------------------------------------------------------------------------
\* A wallet hands the challenge's own numbers to its prover.
ClientRequests(method, purpose) ==
  /\ client = Idle
  /\ method = "wallet" => purpose \in Fr
  /\ RequestChallenge(ClientPrincipal, purpose)
  /\ client' = Challenged(method, nextChallengeId)

\* The programs need no canister to prove; the wallet's query needs it running.
CanProve(method) == method = "wallet" => phase = "running"

CrossCheck(method, id) ==
  /\ vkHex \in Keys
  /\ method = "wallet" => OnFile(Owner0)
  /\ WitnessBy(method).root = Reply(id).merkleRoot

\* Mutant: a witness for another root is fetched again, for the same challenge.
ClientProves_Waits ==
  /\ client.pc = "challenged"
  /\ CanProve(client.method)
  /\ CrossCheck(client.method, client.id)
  /\ client' = Proved(client.method, client.id,
                      MakeProof(ProverOf(client.method), WitnessBy(client.method),
                                Reply(client.id)))
  /\ UNCHANGED vars

\* The root that was pinned must be the witness's, or the attempt is over.
ClientProves ==
  /\ client.pc = "challenged"
  /\ CanProve(client.method)
  /\ client' = IF CrossCheck(client.method, client.id)
                 THEN Proved(client.method, client.id,
                             MakeProof(ProverOf(client.method),
                                       WitnessBy(client.method), Reply(client.id)))
                 ELSE Idle
  /\ UNCHANGED vars

\* One presentation; what is refused is not presented again.
ClientPresents ==
  /\ client.pc = "proved"
  /\ Verify(ClientPrincipal, client.id, client.proof.inputs,
            [element |-> client.proof.element, lift |-> 0], client.proof)
  /\ client' = IF Len(receipts') > Len(receipts) THEN [client EXCEPT !.pc = "accepted"]
                                                 ELSE Idle
-----------------------------------------------------------------------------
\* Each of the two owners' records is filed by itself, in any order, again.
FileRecord ==
  \E caller \in Officials, owner \in {Owner0, Owner1}, f \in Filings :
    /\ f.secret = owner.secret
    /\ SubmitRecord(caller, owner.id, RecordOf(owner.id, f))

\* Others present garbage for the owner's challenges.  Their own challenges are
\* left out: they would only move the counters on.
OthersCall ==
  \E caller \in Principals \ {ClientPrincipal}, id \in 0..(MaxChallenges - 1), i \in DOMAIN issued :
    PresentNoProof(caller, id, issued[i].challenge)

\* Once the owner is accepted the story is over.
Meanwhile == client.pc # "accepted" /\ UNCHANGED client

World ==
  /\ Meanwhile
  /\ \/ ManageAdmins
     \/ FileRecord
     \/ \E caller \in Officials, hex \in Keys \cup OddKeys : SetVerifyingKey(caller, hex)
     \/ OthersCall
     \/ Heartbeat
     \/ PreUpgrade
     \/ PostUpgrade
     \/ UpgradeTraps
     \/ TimePasses

ClientNext ==
  \/ \E method \in Methods, purpose \in Purposes : ClientRequests(method, purpose)
  \/ ClientProves
  \/ ClientPresents
  \/ World

ClientSpec == ClientInit /\ [][ClientNext]_allVars

\* The owner goes on, however often upgrades and the throttle make it wait; the
\* clock and an upgrade under way go on too.
ClientFairness ==
  /\ SF_allVars(ClientProves)
  /\ SF_allVars(ClientPresents)
  /\ SF_allVars(Meanwhile /\ TimePasses)
  /\ WF_allVars(Meanwhile /\ (PostUpgrade \/ UpgradeTraps))

FairClientSpec == ClientSpec /\ ClientFairness
-----------------------------------------------------------------------------
\* What the usage of prove_live asks for (prove_live.rs:16-33), in terms of
\* the records on file when the challenge was issued.
Filed(onFile, owner) ==
  owner.id \in DOMAIN onFile /\ leafHash(onFile[owner.id]) = leaf_of(owner)

LayoutFits(method, onFile) ==
  CASE method = "prove" -> DOMAIN onFile = {Owner0.id} /\ Filed(onFile, Owner0)
    [] method = "prove2" -> /\ DOMAIN onFile = {Owner0.id, Owner1.id}
                            /\ Filed(onFile, Owner0)
                            /\ Filed(onFile, Owner1)
                            /\ leafIndexByProperty[Owner0.id] = 0
    [] method = "wallet" -> Filed(onFile, Owner0) /\ records = onFile

\* Why an honest attempt may fail.  Once the proof is made, records filed
\* since are no reason.
Excused ==
  \/ /\ client.pc = "challenged"
     /\ \/ vkHex \notin Keys
        \/ ~LayoutFits(client.method, filedAtIssue[client.id + 1])
  \/ /\ client.pc = "proved"
     /\ \/ now > Reply(client.id).expiresAt
        \/ vkHex # client.madeFor
        \/ Reply(client.id).purpose \notin Fr
        \/ Reply(client.id).currentTimestamp >= ProverOf(client.method).expiry

\* An owner whose record is clean is turned away only for a reason outside of
\* the protocol: the tree was not what the program is for, or was written to
\* between challenge and witness; the key was replaced; the challenge expired;
\* the licence had run out when it was issued; or the purpose is no field element.
\* Records filed, challenges issued and pruned, garbage presented and upgrades in
\* between are no reasons; nor is a root cross-check that passes and a circuit
\* that cannot be satisfied ("fails loudly instead of silently producing an
\* unprovable circuit", prove_live.rs:24-26, and the bug told of at
\* prove_live.rs:288-299).
HonestAttemptHonoured ==
  [][client.pc # "idle" /\ client'.pc = "idle" => Excused]_allVars

\* An attempt ends, whatever upgrades and throttles put in its way.
AttemptEnds == client.pc = "challenged" ~> client.pc \in {"idle", "accepted"}
=============================================================================
