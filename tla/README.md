# A TLA+ model of the yaqeen title registry

yaqeen-icp lets a property owner prove, without naming the property, that the
registry holds a clean record of it. A canister (`src/motoko/src/main.mo`)
keeps the records in a sparse Merkle tree, issues challenges, and verifies
Groth16 proofs; a circuit (`src/circuit`) defines what a proof says; a ceremony
(`src/ceremony`) produces the keys, and command-line programs
make and check proofs (`src/circuit/src/bin`). This directory holds TLA+ models of that
system, the TLC configurations that check them, and TLAPS proofs about them.

Run from this directory: `tlc -config X.cfg M` for a row of *Runs*, `tlapm
P.tla` for a module of *Theorems*. `PROJECT.json` maps every definition to the
lines it models and lists, for every property, a mutation of the code's model
that breaks it.

## Inventory

| component | state | operations | what makes it hard | what makes it correct |
|---|---|---|---|---|
| admin allow-list, `main.mo:56-81` | `admins`, its array | `bootstrapAdmin`, `addAdmin`, `removeAdmin` | long sequences of legal calls; a guard that reads the size of a heap map | never empty again, bootstrapped once, membership by grants only |
| records and Merkle tree, `main.mo:83-258` | `records`, `leafIndexByProperty`, `nodes`, `currentRoot`, `nextLeafIndex`, three arrays | `submitRecord` (`insertLeaf`), `getRecord`, `getMerkleProof` | index arithmetic, updates in place, half of the state stable and half rebuilt | every witness folds to the root; no superseded leaf is provable |
| call throttle, `main.mo:281-314` | one map per endpoint, arrays | `checkAndUpdateThrottle` | stamped before later errors; survives upgrades | spacing; only the last admitted call counts |
| challenge and nullifier store, `main.mo:260-481` | `challenges`, counters, sweep cursor, `nullifiers`, arrays | `requestChallenge`, `verify`, `heartbeat` | retries, expiry against sweep, upgrades between two calls, numbers that must never recur | single use, inputs as issued, nothing lost before expiry, everything pruned after |
| verifying key, `main.mo:356-396` | `vkHex`, `preparedVkCache` | `setVerifyingKey`, `getPreparedVk` | a lazily filled cache that upgrades drop | a proof counts under the key in force only |
| upgrade hooks, `main.mo:485-505` | the eight arrays | `preupgrade`, `postupgrade` | eight maps copied by hand; a trap rolls back | an upgrade is invisible |
| circuit, `circuit/src/lib.rs` | none | constraints | 64-bit comparison in a field, input order, witnessed path bits | can be satisfied exactly for the clean, owned, unexpired records on file |
| Groth16 adapter and wire format, `TitleGroth16.mo`, `Groth16Wire.mo`, `Decode*.mo` | none | parse, prepare, verify | canonical encodings, the choice of a root | decodes exactly what arkworks writes, nothing else |
| Groth16 verifier, pairing, tower, fields, curves, `vendor/` | none | pure functions | limb carries, operands that share a place, special cases of the group law | equal to their textbook definitions |
| Poseidon, `poseidon/Poseidon.mo` | none | `hash` | sponge schedule must equal arkworks' | same digest as the circuit |
| ceremony, `ceremony/src` | files: parameters per round, transcript | init, contribute, verify | crash between two writes, concurrent contributors, a hash chain | what verifies is the product of every published contribution |
| provers and oracles, `circuit/src/bin` | the files of a directory | `setup`, `extract_vk`, `prove`, `prove_live`, `wire_export`, `verify_smoke`, `verify_prove2`, the oracles | files replaced while others read them, crashes between two writes, a path and a root computed apart | keys that match, verdicts as printed, proofs the registry accepts |
| an owner with `prove_live` or a wallet | the challenge, the witness, the proof | request, prove, present | the tree, the key and the clock move on between the three | every attempt ends, and fails only for a reason outside the protocol |
| test canisters, scripts | none | run once and print | - | - |

Interactions: everything in the canister shares one heap and runs one message
at a time, so an operation is atomic and the interleavings are those of whole
messages, heartbeats, upgrades and time. `submitRecord`, `setVerifyingKey` ask
the admin list. `requestChallenge` reads the tree's root. `verify` asks the
throttle, the challenge store, the nullifier store and the prepared key, in
that order, and the verifier last. The circuit and the canister meet only in
the hash functions, in the order of the public inputs, and in the encoding of
keys and proofs. An owner's program meets the canister in three messages, any
number of others in between. The ceremony meets the canister only in the key it produces;
its programs, like those of `circuit/src/bin`, meet one another only in the
files of a directory, which they read and write one at a time without a lock.

## Modules

`Canister` and `StableMap` are the platform: the clock, the two phases of an
upgrade, and a map that is rebuilt from the array of its entries. A message is
an action guarded by `Running`. An upgrade is `PreUpgrade` (the hook fills the
arrays) followed by `PostUpgrade` (the maps are rebuilt *from the arrays*, the
arrays emptied) or by `UpgradeTraps` (the platform's rollback), so a map that a
hook forgets is lost in the model as it would be in the program.

| module | models | remarks |
|---|---|---|
| `Throttle` | `checkAndUpdateThrottle` | two operators, used by both endpoints |
| `ThrottledEndpoint` | one gated endpoint | also the abstract specification `requestChallenge` refines |
| `AdminList` | the allow-list | `grants` is an observer: the log of successful grants |
| `TitleHashes` | the hashes of canister, circuit and programs | a hash is the term that was hashed; `Fold` is the circuit's loop over a path |
| `SparseMerkleTree` | records, tree, witnesses | |
| `CircuitGadgets` | `enforce_fits_in_bits`, `enforce_greater_than` | bits of field elements over a prime field |
| `TitleCircuit` | `generate_constraints` | one conjunct per constraint; used by every module that proves something |
| `TreeCircuit` | the circuit over the canister's tree | all witnesses a prover could try against the current root |
| `ChallengeStore` | challenges, nullifiers, sweep | the verifier's verdict and the root are left open; `issued` and `receipts` are observers: the `#ok` replies |
| `SingleUseChallenge` | the promise to a client | abstract: unissued, open, accepted or lapsed |
| `TitleRegistry` | the whole canister | instances of `AdminList`, `SparseMerkleTree` and `ChallengeStore` over one state, plus the key, the ideal verifier and the provers |
| `ProverWitness` | what the programs compute before they prove | the path, root and inputs of the first and the second leaf |
| `OwnerClient` | an owner before the registry | composes `TitleRegistry` and `ProverWitness`; `client` is the owner's program |
| `ProverTools` | the programs on their directory | one action per file read, truncated or filled; `clean`, `steady` are observers |
| `FlatField` | `FpFlat.mo` | limbs and Montgomery form at a reduced size |
| `JacobianCurve`, `SubgroupCheck` | `CurveFlat.mo`, `oracle_subgroup_jacobian.rs` | a BLS12 curve small enough to go through every point |
| `PointDecode` | `Decode.mo`, `DecodeG2.mo` | the bits of an encoding over a small field |
| `PairingForms` | `oracle_alphabeta.rs` | group elements are their logarithms |
| `PoseidonSponge` | `Poseidon.mo`'s `hash`, arkworks' sponge | the permutation is a free function of the state |
| `DeltaChain` | keys, round records, `verify_chain` | pure; group elements are their logarithms |
| `Ceremony` | the ceremony's programs on one directory | one action per file read or written; `announced`, `orderly` are observers |
| `DataProofs`, `ThrottledEndpointProofs`, `AdminListProofs`, `ChallengeStoreProofs`, `SparseMerkleTreeProofs`, `TitleRegistryProofs`, `CeremonyProofs`, `ProverToolsProofs` | - | theorems, see below |
| `MC*` | - | instances for TLC |

How the state corresponds to the code: a variable has the name it has in
`main.mo`. Admins are the key set of the map. `Record` drops `propertyId`,
which is the key it is stored under and is not hashed. A challenge keeps all of
its fields. A text key `"level:index"` is the pair. `verify`'s six inputs are a
tuple of the five pinned ones and the nullifier; what a caller may present
ranges over the pinned inputs of any issued challenge, under any root, or a
tuple of another length, with any nullifier, so that each early return of
`verify` is taken by some call. Calls that are refused before they change
anything (throttled, unauthorised, malformed key) are no steps; a `verify` that
is refused after the throttle is one, because its stamp stays.

`TitleRegistry` idealises Groth16: a proof verifies under the key it was made
for and for the inputs it was made for, modulo the field order, and can be made
by anybody who has a witness. `Satisfies` says what a witness exists for, with
the Merkle path read off the root's term. That this is what the constraints
say is not taken for granted: `TreeCircuit` sets `generate_constraints` against
the records on file (`CircuitStatesTheClaim`), tree by tree in a run and for
every tree in `CircuitClaimsAreTrue`, with the comparison settled for every
width by `ComparisonIsExact`. The provers there make
every proof that can be made for a challenge's inputs, also under a one-leaf
tree of their own, present it for any challenge, under both names of the
nullifier's residue, or present bytes that are no proof.

`DeltaChain` writes a group element as the product of the secrets in its
logarithm, a function from secrets to exponents; a pairing check compares such
products, and `l_query` and `h_query`, which are divided by the secrets, are
kept as the product they are divided by. A hash is the term that was hashed.
In `Ceremony` each program is a record of where it is and what it has read.
`ceremony_init` and `ceremony_contribute` share their four write steps: the
parameters file is truncated, then filled, then the transcript likewise, and a
program may die before any of them. The repository asks for a procedure
(`ceremony_contribute.rs:4-5`): no two programs at once, and init run once. No
program enforces it, so the model does not either; `orderly` records whether
people kept to it so far, and the properties that depend on it say so.
`OutsideRound` is a round made by other software, with up to two mistakes in
it, and `Alteration` a published file changed: what `verify_chain` is there to
tell apart.

`ProverTools` treats `circuit/src/bin` in the same way. A program is the list
of files it reads and the list it writes; `Read` takes one, `Open` truncates
one, `Fill` writes it, `Finish` prints, `Crash` ends it anywhere. A debug build
of arkworks panics on proving what the witness does not satisfy, as
`verify_smoke` does on purpose; that too is `Crash`. `steady` recalls whether a
program read its keys while nothing was writing them. Groth16 is ideal here as
well, over the real constraints. The two oracles compare two computations on
samples; the model compares them on every value of a small instance.

In `OwnerClient` an owner asks for a challenge (`ClientRequests`), proves
(`ClientProves`) and presents the proof once (`ClientPresents`), while officials
file records and replace the key, others present garbage for the owner's
challenges, time passes and the canister is upgraded. The witness comes from
`prove_live prove` (the first of one record), `prove_live prove2` (the second
of two), or from a wallet. The wallet is not in the repository: it is modelled
from what `main.mo` offers it, `getRecord` and `getMerkleProof`. Challenges that
others request are left out: they only move the counters on, and
`title_registry` and `challenge_store` have them.

The arithmetic modules are definitions with a property, evaluated completely
over a small instance. `FlatField` has the carries, the borrow, the single
conditional subtraction and the multiply-and-reduce loop of `FpFlat.mo` limb by
limb, on an arena where operands and result may share a place. `JacobianCurve`
has the doubling, addition and scalar multiplication of `CurveFlat.mo` with
their early returns. `PointDecode` works on the number that the bytes make:
flags, canonicity, the complex-method square root, and the choice of the root.
`PoseidonSponge` keeps the order of absorbing and permuting.

## Runs

| run | module, configuration | shows |
|---|---|---|
| throttled_endpoint | `MCThrottledEndpoint` | spacing and stamps across upgrades |
| admin_list | `MCAdminList` | never bricked, one bootstrap, lineage, one removal at a time |
| admin_bootstrap | `MCAdminList`, `MCAdminBootstrap.cfg` | violation, see *Findings* |
| merkle_tree | `MCSparseMerkleTree` | witnesses and leaves agree with the records, and the circuit can be satisfied exactly for the clean ones |
| tree_overflow | `MCSparseMerkleTree`, `MCTreeOverflow.cfg` | violation, see *Findings* |
| challenge_store | `MCChallengeStore` | single use, inputs as issued, the promise to clients |
| challenge_sweep | `MCChallengeStore`, `MCChallengeSweep.cfg` | exact sweep, fresh nonces, throttling refined, every challenge pruned in the end |
| title_registry | `MCTitleRegistry` | an accepted proof speaks of a record that was on file and clean; one nullifier, one acceptance, modulo the field order too |
| owner_client | `MCOwnerClient` | an honest attempt ends, and fails only for a reason outside the protocol; the cached key is the one in force |
| ceremony | `MCCeremony` | what verifies is the product of all the rounds it lists and its last hash pins all of it; while people keep to the procedure, no crash loses a completed round |
| ceremony_report | `MCCeremony`, `MCCeremonyReport.cfg` | violation, see *Findings* |
| prover_tools | `MCProverTools` | which keys end up together and what the smoke tests notice, exports that verify, oracles and sponges that agree, exact decoding, field and group arithmetic |

### Bounds, and why they are enough

* Time: `MaxTime` is at most 7 ticks, `CHALLENGE_TTL` and `MIN_CALL_INTERVAL` 1
  or 2. A challenge is requested only if the clock can outlive it
  (`InBounds`), so each one is seen before, at and after its expiry.
  `SECOND` is 2 in the store's runs, so that `currentTimestamp` truncates.
* Challenges: two suffice for every property that relates two acceptances; the
  sweep has three and `MAX_PRUNE` 1 or 2, so that the bound, a live head and a
  backlog all stop it.
* Principals: one or two ordinary callers and the anonymous one, two where the
  throttle or the interleaving of presentations is the subject; the admin list has three, because a removal that
  must not be the last one needs two and a stranger.
* Tree: depth 2, four properties: every leaf, the last one included, left and
  right at each level. The overflow needs only depth 1.
* `MaxGrants`, `MaxFilings`, `MaxChallenges` bound the observers' length. The
  number of upgrades is not bounded.
* Circuit: a field of 37 and a comparison of 3 bits (`TwoN` is 8), so that a
  difference wraps round the field and a number has bits above the width.
  Timestamps go up to the width and beyond. In `owner_client` a purpose of 38 is
  1 modulo the field.
* Owner: two records in a tree of depth 2, two challenges, three ticks: a
  witness that is out of date, a key replaced after the proof, a challenge that
  expires in the owner's hands, and a second attempt. One licence runs out while
  challenges are still issued, so that an owner also proves what the circuit
  denies.
* Ceremony: two participants, two runs of init, two rounds, and one outside
  round or change of a published file: overlap at every write, a round on a
  mixture, a round after a crash. `CHECK_DEADLOCK` is off here, in
  `owner_client` and in `prover_tools`: the programs end and may not be started
  again.
* Provers: two terminals, four programs in all, two keys: a reader beside a
  writer, a writer that dies after one of its two files, a check afterwards.
* `SubgroupCheck`: the BLS12 curve with parameter -2, field 37, subgroup order
  13, 39 points and a twist of 1417, each in three representations. On so small
  a curve the guard `x_P = P` of `g1_fast_check` never bites.
* `FlatField`: three limbs of two bits, modulus 29 of 64, which is as tight as
  the scalar field in 256 bits; all pairs of residues, all 27 placings.
* `PointDecode`: field 7, three flags above three bits, 64 encodings on the
  curve and 4096 on its twist. Both halves of the trace, roots on either axis,
  non-canonical coordinates and non-residues all occur. A field must be 3 modulo
  4 here and the two groups of odd order, as they are in BLS12-381: a point with
  y = 0 would have two encodings.
* `PairingForms`: group order 3, every proof and key.
* Sponge: up to five inputs of three values, zero and a tag among them, rate 2.
* Symmetry is used for safety runs only, over values the specification treats
  alike.

### Fairness

`challenge_sweep` is checked under `FairSpec`: the clock advances and the
subnet calls the heartbeat, both with strong fairness because upgrades may
interrupt them for ever, and an upgrade that has begun ends one way or the
other (weak). The heartbeat is the platform's call in every round the canister
runs; nothing is assumed of clients.

`owner_client` is checked under `FairClientSpec`: the owner who has a challenge
goes on to prove and to present, with strong fairness because an upgrade or
the throttle may disable the step again and again; the clock and the end of an
upgrade as above. Nothing is assumed of the other callers, the officials or
the heartbeat.

## Theorems

Every theorem is of a module's full specification, for all values of the
constants under the modules' named assumptions. A bound such as `MaxChallenges`
is a constant like any other. The assumptions say of the constants what the code
says of them: finite sets of principals, positive interval, sweep bound and
second, a field of more than 2^(n+1) elements, numbers that are elements of that
field (`CircuitAssumption`), owners among those who have a secret
(`FilingAssumption`), the two identities of `prove_live` those of two properties
with licences that the circuit can compare, in a tree with a level
(`OwnersAssumption`); or they keep two model values apart: `null` is neither a
prepared key nor a key's text (`KeyAssumption`), a truncated file is neither a key nor an empty
transcript (`FileAssumption`, `KeyFileAssumption`), a genesis key and a sample are drawn once
(`CeremonyAssumption`). Of the programs they say that the two demo owners are
two (`IdentityAssumption`), that a path has a level (`DepthAssumption`), and
that a sponge takes in at least one element at a time (`SpongeAssumption`).

Each safety invariant is proved from an inductive one, named `IInv` or as given
below, with a lemma for each action. Induction over the naturals (the levels of
a tree, the rounds of a chain) is done with a *set* of naturals in place of a
predicate (`SetInduction`, `BoundedInduction` of `DataProofs`): the library's
theorems take an operator as a parameter, which the provers cannot instantiate.
`Recursion` there gives a recursive function its defining equations.

* `DataProofs`: `FromIterEntries`, a map rebuilt from its entries is the
  map. Each "an upgrade changes nothing" argument ends there.
* `ThrottledEndpointProofs`: `EndpointTypes`, `EndpointStamps`,
  `EndpointSpacing`. `Spacing` is not inductive: a new call is compared only
  with the stamp, so the invariant adds that the stamp is the latest call
  (`StampsLatest`), that no stamp or log entry lies in the future (`TypeOK`),
  and that during an upgrade the array determines the map (`Restorable`).
* `AdminListProofs`: `AdminsTypes`, `AdminsNeverBricked`, `AdminsBootstrappedOnce`,
  `AdminsLineage`, `AdminsLeaveOneByOne`. The middle three carry one another (an
  empty list and an empty log of grants go together, and `Lineage` says who may
  grant), with types and `Restorable`.
* `ChallengeStoreProofs`: `StoreTypes`, `StoreSingleUse`,
  `StoreAcceptsAsIssued`, `StoreSpentIsAccepted`, `StoreKeepsUntilExpiry`,
  `StoreSweepWindow`, `StoreNoncesDistinct`, `StoreRefusalConsumesNothing`,
  `StoreSweepIsExact`. Single use of a challenge cannot
  be seen from the store once the challenge is pruned. The invariant therefore
  ties the store to the log: `IssuedInOrder` (entry `i` of `issued` is
  challenge `i - 1`, nonces and expiries follow ids), `OnFile` (what is on file
  is the window from the cursor to the newest id, each entry as issued and
  consumed exactly when accepted, everything before the cursor expired), and
  `Restorable` as above. That a sweep leaves nothing expired behind needs
  the order of expiry along that window, and its bound is a cardinality. Two refinements:
  `RequestsRefineEndpoint` (`ThrottledEndpoint`, the issued challenges seen as
  calls served) and `StoreKeepsPromise` (`SingleUseChallenge`: a status is
  computed from the log and the clock, so no step of the sweep shows).
* `SparseMerkleTreeProofs`: `TreeWitnessReachesRoot`, `TreeNoStaleLeaf`. Both
  speak of `treeDepth` levels at once, and the invariant of one: `Hashed`, a
  node that `nodeAt` reads is the hash of the two below it, for every level and
  index, stored or not. `insertLeaf` breaks it on one path only and repairs it
  there (`InsertKeepsHashed`). With it, `RootOnTop`, `LeavesOnFile` (one leaf per
  record, no other leaf that is not empty) and `Restorable`. The two hold while
  `nextLeafIndex <= Capacity`, 2^treeDepth: the code has no such check, and
  `tree_overflow` shows what happens beyond. `FittingTreeIsSound` replaces the
  condition by one on the constants: no more properties than leaves.
  The same module proves the circuit over this tree. `ComparisonIsExact`: the
  bit of weight 2^n of 2^n + a - b - 1, with the bits above it clear, says a > b exactly when both
  sides have n bits; the range checks of the two sides are needed.
  `CircuitIsSound`: whatever path and sides a prover picks, what folds to the
  root is a leaf of the tree (`FoldedIsLeaf`), so a witness that satisfies the
  constraints is that of a record on file. This needs no condition on the
  capacity: an overflow costs owners their witnesses, it backs no false claim.
  `CircuitClaimsAreTrue` adds the converse, for which `HonestPath` shows that
  the path `getMerkleProof` hands out is among those `TreeCircuit` tries.
  For the owners' programs it proves that a root is a function of the records
  and of the order they were first filed in (`RootOfRecords`, `RootIsUnique`), the
  same one however often a record was filed again, and that what a root pinned
  stays pinned (`Pins`, `PinsStay`); that `prove_live` computes that root from one
  record or from two (`PinnedIsFirst`, `PinnedIsSecond`); and that the witnesses it
  builds satisfy the constraints (`HonestIsSound`).
* `TitleRegistryProofs`: first, the whole canister implements its components
  (`RegistryImplementsAdminList`, `RegistryImplementsRecordTree`,
  `RegistryImplementsChallengeStore`): each of its steps is theirs or a stutter, so their
  theorems, instantiated over its state, hold of it. The store is instantiated
  with the roots the tree can have and the nullifiers a caller can write. Then what
  no component can say: `RegistryAcceptedWasClean`, `RegistryElementSpentOnce`,
  `RegistryOpenIsUnspent`, from `Linked`: at each issue only the records then on
  file have leaves under the root the challenge names, each receipt was for a
  witness under such a root, and the values in the nullifier map are `true`.
  `RegistryKeyInForce` needs only that the cache, when there is one, is prepared
  from `vkHex`.
  Then the owners (`OwnersHonestAttemptHonoured`, `OwnersKeyInForce`), for a tree
  that has a leaf for each property. That an attempt is honoured is decided at its last
  step by what was true at its first, so `ClientIInv` carries it along:
  `AttemptStands`, a proof in hand has the numbers of a challenge that was issued
  and, unless the licence had run out, was made for the key then in force;
  `NothingAccepted`, nobody else has a proof, so neither the challenge nor the
  nullifier is spent; `PinnedRoots`, the root in each challenge is that of the
  records on file at its issue, so a program that knows only the records
  computes the root it was sent (`FittingLayoutChecks`). The store's `OnFile` and
  `CacheFollows` above do the rest: until it expires the challenge is on file, and
  what verifies it is the key.
* `CeremonyProofs`: `CeremonyVerifiedIsWhole`, `CeremonyOneHonestSuffices`,
  `CeremonyAnnouncedIsPinned` are facts of `verify_chain`, by induction along the
  chain, for whatever keys and records lie in the directory; of the announced
  runs they need that each chain was hashed link by link and ended in its key
  (`WellMade`). A hash pins the chain before it because it holds the hash before. `CeremonyNoRoundLost` and
  `CeremonyPublishedCopyRestores` need the position of every program: while
  people keep to the procedure, one program writes at a time (`OneAtATime`),
  what it is about to write continues what is there (`OnCourse`), and what was
  announced is on disk (`AnnouncedPlaced`, `NothingLost`); together `InOrder`.

* `ProverToolsProofs`: `KeysMatch`, `ChecksAreTelling`, `ExportsDoVerify`. None
  of the three is inductive, because a program acts on what it read earlier and a
  check may come long after. The invariant ties the observers to what each
  program has done so far: one that writes keys undisturbed is the only one
  (`Alone`); what it has written, and what `extract_vk` has read, is still on disk
  (`InPlace`); and one that reads two keys undisturbed has read two of one setup
  (`ReadsAlike`). So a clean directory holds a whole pair that nobody is writing
  (`CleanMatches`), and each file was made from the keys its program read
  (`FilesTyped`). What a check prints then follows from what the circuit says of
  the programs' own inputs: their paths satisfy the constraints
  (`HonestProofsAreSound`, where `SecondRootIsFold` shows that the root computed
  for the second leaf is the fold of its path), the inconsistent ones satisfy them
  with no witness (`InconsistentIsUnsound`).
  `HashesAgree`: the canister's `hash`, which absorbs block by block, the
  circuit's and the programs' calls of arkworks' sponge are one function, for any
  domain tag, any permutation, any rate and any number of inputs. Both sides are
  folds over the same chunks, so the proof is an induction over chunks in which
  the sponge that takes its inputs one by one has, after each, the state of the
  last full chunk and a position in the next. `SpongesDoAgree` is the instance
  that the run checks.

Model-checked only: liveness (`EveryChallengePruned`, `AttemptEnds`), which with
`ENABLED` is outside the prover's reach; and what is evaluated over a small
instance and true of that instance's numbers only: the arithmetic of one field
and one curve (`ArithmeticExact`, `DecodingExact`, `OraclesAgree`), whose
recursive definitions would need induction over data, and `HashesApart`, which
holds of the free permutation but not of every one.

## Findings

* `admin_bootstrap`: `SECURITY.md` calls the bootstrap controller-gated.
  `bootstrapAdmin` reads no caller, so the first caller, whoever it is, names
  the admin. `main.mo:47-55` describes this and asks the operator to be first.
* `tree_overflow`: `insertLeaf` does not check that the index fits the tree.
  The property after the last leaf makes `currentRoot` forget the earlier
  leaves, and `getMerkleProof` returns a path that does not fold to the root it
  returns. At depth 25 this takes 2^25 properties.
* `ceremony_report`: `ceremony_verify` prints the last record's `new_delta_g1`
  and `new_delta_g2` as the final delta. `verify_chain` compares neither with
  the parameters, though `lib.rs:56-57` defines them by the parameters and
  `ceremony_verify.rs:3-5` says every check is derived again. Records that
  `ceremony_contribute` writes have the right values.

## Not modelled

Nothing in the source bounds the throttle's maps, which keep an entry for every
principal that ever called, or the nullifier store, which must not be pruned
(`SpentIsAccepted`): no property is about their size.

Texts of errors, `getRecord` and other reads that change nothing (except
`getMerkleProof`), cycles and memory limits, and the width of `Nat` and `Int`
(unbounded in Motoko). Hash collisions, forged proofs, repeated samples and
the negligible error of `check_query_vector_invariant`'s random combination are
excluded by the idealisation. `verify_chain` reads the parameters files one
after the other and is one step here; that a contributor reads one of them
again afterwards is a step of its own. `ceremony_init`'s entropy, command lines
and attestations are left out, and so are the subcommands of `prove_live` that
only print a commitment, a root or a nullifier.

What `PROJECT.json` lists as `partly` or `not_modelled`:

* Wire format: the hex digits, the offsets of the points in a key and a proof
  and the verdict strings are fixed slices and texts.
* Verifier and pairing: the Miller loop and the final exponentiation are
  algebra over a 381-bit tower; a small instance of them is not this code. The
  equation they serve is in `PairingForms`.
* The cubic and dodecic towers, and the slower layers of field and curve kept
  as anchors (`Fp.mo` beyond decoding, `FpMont.mo`, `TowerMont.mo`, `CurveJac.mo`):
  values, no behaviour.
* Poseidon's rounds and constants: the permutation is a free function.
* The test canisters, the cost estimates and the build flags: no logic of the
  program.

## Plan

Done: the canister, in the order `Canister`, `Throttle`, `AdminList`,
`SparseMerkleTree`, `ChallengeStore`, `TitleRegistry`; the ceremony,
`DeltaChain` and `Ceremony`; the circuit, `CircuitGadgets`, `TitleCircuit`,
`TreeCircuit`; the programs, `ProverWitness`, `OwnerClient`, `ProverTools`; the
arithmetic they and the verifier rest on; and the theorems above.

What remains: that an owner's program is one of the callers `TitleRegistry`
allows, which would carry `AcceptedWasClean` over to `OwnerClient`. It needs
`Satisfies` of the registry derived from `generate_constraints`, by
`CircuitIsSound`, at the root a challenge pinned rather than at the current one.
