------------------------- MODULE TitleRegistryProofs -------------------------
(***************************************************************************)
(* The composed canister, for any number of properties, owners, callers,   *)
(* challenges and filings.  First, what main.mo puts together does not     *)
(* disturb its parts: every step of the registry is a step of the admin    *)
(* list, of the record tree and of the challenge store, or a stutter, so   *)
(* what was proved of each holds of the whole.  Then what no part can say: *)
(* what a verified proof says of the records on file.                      *)
(***************************************************************************)
EXTENDS OwnerClient, DataProofs, TLAPS

\* The terms that can be nodes of the tree, by level, and its possible roots.
LeafTerms == {zeroHashes[0]} \cup {leafHash(RecordOf(p, f)) : p \in Properties, f \in Filings}

NodeTerms[level \in 0..treeDepth] ==
  IF level = 0 THEN LeafTerms
  ELSE {nodeHash(l, r) : l, r \in NodeTerms[level - 1]}

Roots == NodeTerms[treeDepth]

\* The components, with their proofs, over the state of the registry.
List == INSTANCE AdminListProofs

Records == INSTANCE SparseMerkleTreeProofs
             WITH Owners <- {ownerCommitment(s, p) : s \in Secrets, p \in Properties},
                  Flags <- {f.encumbranceFlag : f \in Filings},
                  Statuses <- {f.licenseStatus : f \in Filings},
                  Expiries <- {f.licenseExpiry : f \in Filings},
                  PropertyIds <- Properties,
                  Nonces <- 0..(MaxChallenges - 1),
                  Timestamps <- {second \in 0..(MaxTime \div SECOND) : second \in Fr}

\* Every nullifier that a caller of verify may write, whether or not it is one
\* that a proof can carry; the last are those of the owners' proofs.
WrittenNullifiers ==
  NullifierTexts \cup
  {[element |-> nullifierHash("nobody", "nothing", purpose, nonce), lift |-> 0] :
     purpose \in Purposes, nonce \in 0..(MaxChallenges - 1)} \cup
  {[element |-> nullifierHash(owner.secret, owner.id, fr_from_dec_str(purpose), nonce),
    lift |-> 0] :
     owner \in {Owner0, Owner1}, purpose \in Purposes, nonce \in 0..(MaxChallenges - 1)}

Challenges == INSTANCE ChallengeStoreProofs WITH Nullifiers <- WrittenNullifiers

\* What the components assume of their constants.
LEMMA ComponentAssumptions ==
  /\ List!MaxTimeAssumption /\ List!AdminAssumption
  /\ Records!MaxTimeAssumption /\ Records!TreeAssumption
  /\ Records!GadgetAssumption /\ Records!CircuitAssumption
  /\ Challenges!MaxTimeAssumption /\ Challenges!ThrottleAssumption
  /\ Challenges!ChallengeAssumption
<1>1. List!AdminAssumption
  BY RegistryAssumption DEF List!AdminAssumption, IsFiniteSet, List!IsFiniteSet
<1>2. List!MaxTimeAssumption /\ Records!MaxTimeAssumption /\ Challenges!MaxTimeAssumption
  BY RegistryAssumption
     DEF List!MaxTimeAssumption, Records!MaxTimeAssumption, Challenges!MaxTimeAssumption
<1>3. Records!TreeAssumption
  BY TreeAssumption DEF Records!TreeAssumption
<1>4. Challenges!ThrottleAssumption /\ Challenges!ChallengeAssumption
  BY RegistryAssumption DEF Challenges!ThrottleAssumption, Challenges!ChallengeAssumption
<1>5. Records!GadgetAssumption
  BY GadgetAssumption DEF Records!GadgetAssumption
<1>6. Records!CircuitAssumption
  BY ClientAssumption DEF Records!CircuitAssumption, Records!Fr, Fr
<1> QED BY <1>1, <1>2, <1>3, <1>4, <1>5, <1>6

\* What the store's types say of the challenges issued.
LEMMA IssuedAre ==
  ASSUME Challenges!TypeOK
  PROVE  /\ Len(issued) \in Nat
         /\ DOMAIN issued = 1..Len(issued)
         /\ \A i \in DOMAIN issued : issued[i].challenge \in Challenges!Challenge
  BY ComponentAssumptions, Challenges!IssuedTypes

\* The registry keeps the admin list the way its component says.
THEOREM RegistryImplementsAdminList == Spec => List!Spec
<1>1. Init => List!Init
  BY DEF Init, Admin!Init, List!Init, Admin!CanisterInit, List!CanisterInit
<1>2. ASSUME [Next]_vars
      PROVE  [List!Next]_List!vars
  <2> USE DEF List!vars, List!canisterVars, List!adminVars, canisterVars, adminVars
  <2>1. CASE ManageAdmins
    <3>1. PICK caller \in Principals, p \in Principals :
            \/ Admin!bootstrapAdmin(caller, p)
            \/ Admin!addAdmin(caller, p)
            \/ Admin!removeAdmin(caller, p)
      BY <2>1, RegistryAssumption DEF ManageAdmins
    <3>2. \/ List!bootstrapAdmin(caller, p)
          \/ List!addAdmin(caller, p)
          \/ List!removeAdmin(caller, p)
      BY <3>1 DEF Admin!bootstrapAdmin, List!bootstrapAdmin, Admin!addAdmin, List!addAdmin,
                  Admin!removeAdmin, List!removeAdmin, Admin!Admit, List!Admit,
                  Admin!isAdmin, List!isAdmin, Admin!Running, List!Running,
                  Admin!canisterVars, Admin!Cardinality, List!Cardinality
    <3> QED BY <3>2 DEF List!Next
  <2>2. CASE PreUpgrade
    BY <2>2 DEF PreUpgrade, Admin!PreUpgrade, Admin!UpgradeStarts, List!PreUpgrade,
                List!UpgradeStarts, List!Next
  <2>3. CASE PostUpgrade
    BY <2>3 DEF PostUpgrade, Admin!PostUpgrade, Admin!UpgradeEnds, List!PostUpgrade,
                List!UpgradeEnds, List!Next
  <2>4. CASE UpgradeTraps
    BY <2>4 DEF UpgradeTraps, Admin!UpgradeTraps, Admin!UpgradeEnds, List!UpgradeTraps,
                List!UpgradeEnds, List!Next
  <2>5. CASE TimePasses
    BY <2>5 DEF TimePasses, Store!TimePasses, Store!Tick, Store!Running, List!TimePasses,
                List!Tick, List!Running, List!Next
  <2>6. ASSUME NEW caller, NEW p, NEW f, SubmitRecord(caller, p, RecordOf(p, f))
        PROVE UNCHANGED List!vars
    BY <2>6 DEF SubmitRecord, Tree!submitRecord, Tree!canisterVars
  <2>7. ASSUME NEW caller, NEW purpose, RequestChallenge(caller, purpose)
        PROVE UNCHANGED List!vars
    BY <2>7 DEF RequestChallenge, Store!RequestChallenge, Store!canisterVars
  <2>8. ASSUME NEW caller, NEW hex, SetVerifyingKey(caller, hex)
        PROVE UNCHANGED List!vars
    BY <2>8 DEF SetVerifyingKey
  <2>9. ASSUME NEW caller, NEW id, NEW inputs, NEW nullifier, NEW proof,
               Verify(caller, id, inputs, nullifier, proof)
        PROVE UNCHANGED List!vars
    BY <2>9 DEF Verify, Store!Verify, Store!AcceptVerify, Store!RefuseVerify,
                Store!canisterVars
  <2>10. CASE Heartbeat \/ UNCHANGED vars
    BY <2>10 DEF Heartbeat, Store!Heartbeat, Store!canisterVars, vars
  <2>11. CASE Present
    BY <2>9, <2>11 DEF Present, PresentNoProof
  <2> QED BY <1>2, <2>1, <2>2, <2>3, <2>4, <2>5, <2>6, <2>7, <2>8, <2>10, <2>11 DEF Next
<1> QED BY <1>1, <1>2, PTL DEF Spec, List!Spec

\* A record that an admin files is filed in the tree the way its component says.
LEMMA SubmitIsSubmit ==
  ASSUME NEW p \in Properties, NEW f \in Filings, Tree!submitRecord(p, RecordOf(p, f))
  PROVE  Records!submitRecord(p, RecordOf(p, f)) /\ RecordOf(p, f) \in Records!Record
<1>1. RecordOf(p, f) \in Records!Record
  BY FilingAssumption DEF RecordOf, Records!Record
<1>2. ASSUME NEW index, NEW leaf, Tree!insertLeaf(index, leaf)
      PROVE  Records!insertLeaf(index, leaf)
  BY <1>2 DEF Tree!insertLeaf, Records!insertLeaf, Tree!Climb, Records!Climb,
              Tree!Ancestors, Records!Ancestors, Tree!nodeAt, Records!nodeAt,
              Tree!zeroHashes, Records!zeroHashes, Tree!nodeHash, Records!nodeHash,
              Tree!Sibling, Records!Sibling
<1>3. ASSUME NEW record
      PROVE  Tree!leafHash(record) = Records!leafHash(record)
  BY DEF Tree!leafHash, Records!leafHash
<1>4. Records!submitRecord(p, RecordOf(p, f))
  BY <1>2, <1>3 DEF Tree!submitRecord, Records!submitRecord, Tree!Running, Records!Running,
                    Tree!Put, Records!Put, Tree!canisterVars, Records!canisterVars,
                    Tree!entryVars, Records!entryVars
<1> QED BY <1>1, <1>4

\* Presenting a proof leaves the records alone.
LEMMA VerifyKeepsRecords ==
  ASSUME NEW caller, NEW id, NEW inputs, NEW nullifier, NEW proof,
         Verify(caller, id, inputs, nullifier, proof)
  PROVE  UNCHANGED Records!vars
BY DEF Verify, Store!Verify, Store!AcceptVerify, Store!RefuseVerify, Store!canisterVars,
       Records!vars, Records!canisterVars, Records!treeVars, Records!mapVars,
       Records!rootVars, Records!entryVars, treeVars

\* Every other step of the registry leaves the records to the upgrade hooks.
LEMMA RecordSteps ==
  ASSUME [Next]_vars,
         ~\E caller \in Officials, p \in Properties, f \in Filings :
            SubmitRecord(caller, p, RecordOf(p, f))
  PROVE  Records!Others
<1> USE DEF Records!vars, Records!canisterVars, Records!treeVars, Records!mapVars,
              Records!rootVars, Records!entryVars, canisterVars, treeVars
<1>1. CASE ManageAdmins
  BY <1>1 DEF Records!Others, ManageAdmins, Admin!bootstrapAdmin, Admin!addAdmin, Admin!removeAdmin,
                Admin!Admit, Admin!canisterVars
<1>3. CASE PreUpgrade
  BY <1>3 DEF Records!Others, PreUpgrade, Tree!PreUpgrade, Tree!UpgradeStarts, Records!PreUpgrade,
                Records!UpgradeStarts, Tree!Entries, Records!Entries,
                Tree!mapVars, Tree!rootVars
<1>4. CASE PostUpgrade
  BY <1>4 DEF Records!Others, PostUpgrade, Tree!PostUpgrade, Tree!UpgradeEnds, Records!PostUpgrade,
                Records!UpgradeEnds, Tree!FromIter, Records!FromIter,
                Tree!StableArraysDrained, Records!StableArraysDrained, Tree!rootVars
<1>5. CASE UpgradeTraps
  BY <1>5 DEF Records!Others, UpgradeTraps, Tree!UpgradeTraps, Tree!UpgradeEnds, Records!UpgradeTraps,
                Records!UpgradeEnds, Tree!mapVars, Tree!rootVars,
                Tree!StableArraysDrained, Records!StableArraysDrained
<1>6. CASE TimePasses
  BY <1>6 DEF Records!Others, TimePasses, Store!TimePasses, Store!Tick, Store!Running,
                Records!TimePasses, Records!Tick, Records!Running
<1>7. ASSUME NEW caller, NEW purpose, RequestChallenge(caller, purpose)
      PROVE UNCHANGED Records!vars
  BY <1>7 DEF RequestChallenge, Store!RequestChallenge, Store!canisterVars
<1>8. ASSUME NEW caller, NEW hex, SetVerifyingKey(caller, hex)
      PROVE UNCHANGED Records!vars
  BY <1>8 DEF SetVerifyingKey
<1>10. CASE Heartbeat \/ UNCHANGED vars
  BY <1>10 DEF Records!Others, Heartbeat, Store!Heartbeat, Store!canisterVars, vars
<1>11. CASE Present
  BY <1>11, VerifyKeepsRecords DEF Records!Others, Present, PresentNoProof
<1> QED BY <1>1, <1>3, <1>4, <1>5, <1>6, <1>7, <1>8, <1>10, <1>11
       DEF Next, Records!Others

\* The tree starts empty, and every step is a step of the tree or a stutter.
LEMMA InitRecords == Init => Records!Init
BY DEF Init, Tree!Init, Records!Init, Tree!CanisterInit, Records!CanisterInit,
       Tree!EmptyMap, Records!EmptyMap, Tree!zeroHashes, Records!zeroHashes,
       Tree!nodeHash, Records!nodeHash

\* Every step of the registry is a step of the records' component, or a stutter.
LEMMA RecordStep ==
  ASSUME [Next]_vars
  PROVE  [Records!Next]_Records!vars
<1>1. CASE \E caller \in Officials, p \in Properties, f \in Filings :
             SubmitRecord(caller, p, RecordOf(p, f))
  BY <1>1, SubmitIsSubmit DEF SubmitRecord, Records!Next
<1>2. CASE Records!Others
  BY <1>2 DEF Records!Others, Records!Next
<1> QED BY <1>1, <1>2, RecordSteps

\* The registry keeps its records the way their component says.
THEOREM RegistryImplementsRecordTree == Spec => Records!Spec
<1>1. [Next]_vars => [Records!Next]_Records!vars
  BY RecordStep
<1> QED BY InitRecords, <1>1, PTL DEF Spec, Records!Spec
-----------------------------------------------------------------------------
\* Every record on file is one that an admin filed of that property.
FiledAsSubmitted == \A p \in DOMAIN records : p \in Properties /\ \E f \in Filings : records[p] = RecordOf(p, f)

\* A new registry has no records, and no step files any other.
LEMMA InitFiled == Init => FiledAsSubmitted
BY DEF Init, Tree!Init, Tree!EmptyMap, FiledAsSubmitted

\* A submission files one record, and files it as submitted.
LEMMA NextKeepsFiled ==
  ASSUME Records!IInv, FiledAsSubmitted, [Next]_vars
  PROVE  FiledAsSubmitted'
<1>1. ASSUME NEW caller \in Officials, NEW p \in Properties, NEW f \in Filings,
             SubmitRecord(caller, p, RecordOf(p, f))
      PROVE  FiledAsSubmitted'
  <2>1. records' = Tree!Put(records, p, RecordOf(p, f))
    BY <1>1 DEF SubmitRecord, Tree!submitRecord
  <2>2. /\ DOMAIN records' = DOMAIN records \cup {p}
        /\ \A q \in DOMAIN records' : records'[q] = IF q = p THEN RecordOf(p, f) ELSE records[q]
    BY <2>1 DEF Tree!Put
  <2> QED BY <2>2 DEF FiledAsSubmitted, RecordOf
<1>2. CASE Records!Others
  <2>1. records' = records
    BY <1>2, ComponentAssumptions, Records!OthersKeepMaps DEF Records!mapVars
  <2> QED BY <2>1 DEF FiledAsSubmitted, RecordOf
<1> QED BY <1>1, <1>2, RecordSteps

\* The tree's invariant, which the registry inherits, and the origin of records.
LEMMA RecordsInvariance == Spec => [](Records!IInv /\ FiledAsSubmitted)
<1>1. Spec => []Records!IInv
  BY ComponentAssumptions, RegistryImplementsRecordTree, Records!Invariance, PTL
<1>2. Records!IInv /\ FiledAsSubmitted /\ [Next]_vars => FiledAsSubmitted'
  BY NextKeepsFiled
<1> QED BY <1>1, InitFiled, <1>2, PTL DEF Spec

\* The terms of a level are the hashes of two terms of the level below.
LEMMA NodeTermsIs ==
  /\ NodeTerms[0] = LeafTerms
  /\ \A level \in 1..treeDepth :
       NodeTerms[level] = {nodeHash(l, r) : l, r \in NodeTerms[level - 1]}
<1> DEFINE Above(T) == {nodeHash(l, r) : l, r \in T}
           Step(g, level) == IF level = 0 THEN LeafTerms ELSE Above(g[level - 1])
           S == {m \in Nat : \E g : g = [level \in 0..m |-> Step(g, level)]}
<1>0. NodeTerms = CHOOSE g : g = [level \in 0..treeDepth |-> Step(g, level)]
  BY DEF NodeTerms
<1> HIDE DEF Above
<1>1. 0 \in S
  <2> DEFINE g == [level \in 0..0 |-> LeafTerms]
  <2>1. g = [level \in 0..0 |-> Step(g, level)]
    OBVIOUS
  <2> HIDE DEF g
  <2> QED BY <2>1
<1>2. ASSUME NEW m \in Nat, m \in S
      PROVE  m + 1 \in S
  <2>1. PICK g : g = [level \in 0..m |-> Step(g, level)]
    BY <1>2
  <2> DEFINE h == [level \in 0..(m + 1) |->
                     IF level = m + 1 THEN Above(g[m]) ELSE g[level]]
  <2>2. ASSUME NEW level \in 0..(m + 1)
        PROVE h[level] = Step(h, level)
    <3>1. level # 0 => h[level - 1] = g[level - 1]
      OBVIOUS
    <3>2. CASE level = m + 1
      <4>1. h[level] = Above(g[m]) /\ level # 0 /\ level - 1 = m
        BY <3>2
      <4> QED BY <3>1, <4>1
    <3>3. CASE level # m + 1
      <4>1. level \in 0..m /\ h[level] = g[level]
        BY <3>3
      <4>2. g[level] = Step(g, level)
        BY <2>1, <4>1
      <4> QED BY <3>1, <4>1, <4>2
    <3> QED BY <3>2, <3>3
  <2>3. h = [level \in 0..(m + 1) |-> Step(h, level)]
    BY <2>2
  <2> HIDE DEF h
  <2> QED BY <2>3
<1>3. treeDepth \in S
  <2> HIDE DEF S
  <2> QED BY <1>1, <1>2, TreeAssumption, SetInduction
<1>4. NodeTerms = [level \in 0..treeDepth |-> Step(NodeTerms, level)]
  BY <1>0, <1>3
<1>5. /\ NodeTerms[0] = LeafTerms
      /\ \A level \in 1..treeDepth : NodeTerms[level] = Above(NodeTerms[level - 1])
  BY <1>4, TreeAssumption
<1> QED BY <1>5 DEF Above

\* Every node of the tree is a term of its level, so the root is in Roots.
LEMMA RootIsTerm ==
  ASSUME Records!IInv, FiledAsSubmitted
  PROVE  currentRoot \in Roots
<1> DEFINE S == {level \in 0..treeDepth :
                   \A i \in Nat : Records!nodeAt(level, i) \in NodeTerms[level]}
<1>1. 0 \in S
  <2>1. ASSUME NEW i \in Nat
        PROVE  Records!nodeAt(0, i) \in LeafTerms
    <3>1. CASE Records!nodeAt(0, i) = Records!zeroHashes[0]
      <4>1. Records!zeroHashes[0] = <<"empty">>
        BY ComponentAssumptions, Records!ZeroHashes
      <4>2. zeroHashes[0] = <<"empty">>
        BY <4>1 DEF Records!zeroHashes, zeroHashes, Records!nodeHash, nodeHash
      <4> QED BY <3>1, <4>1, <4>2 DEF LeafTerms
    <3>2. CASE Records!nodeAt(0, i) # Records!zeroHashes[0]
      <4>1. PICK p \in DOMAIN records : Records!nodeAt(0, i) = Records!leafHash(records[p])
        BY <3>2 DEF Records!IInv, Records!LeavesOnFile
      <4>2. Records!leafHash(records[p]) = leafHash(records[p])
        BY DEF Records!leafHash, leafHash
      <4> QED BY <4>1, <4>2 DEF FiledAsSubmitted, LeafTerms
    <3> QED BY <3>1, <3>2
  <2> QED BY <2>1, NodeTermsIs, TreeAssumption
<1>2. ASSUME NEW level \in 0..(treeDepth - 1), level \in S
      PROVE level + 1 \in S
  <2>1. level + 1 \in 1..treeDepth /\ level + 1 \in 0..treeDepth /\ (level + 1) - 1 = level
    BY TreeAssumption
  <2>2. ASSUME NEW i \in Nat
        PROVE  Records!nodeAt(level + 1, i) \in NodeTerms[level + 1]
    <3>1. /\ Records!nodeAt(level, 2 * i) \in NodeTerms[level]
          /\ Records!nodeAt(level, 2 * i + 1) \in NodeTerms[level]
      BY <1>2
    <3>2. Records!nodeAt(level + 1, i) = nodeHash(Records!nodeAt(level, 2 * i),
                                                  Records!nodeAt(level, 2 * i + 1))
      BY <2>1 DEF Records!IInv, Records!Hashed, Records!nodeHash, nodeHash
    <3>3. NodeTerms[level + 1] = {nodeHash(l, r) : l, r \in NodeTerms[level]}
      BY <2>1, NodeTermsIs
    <3> QED BY <3>1, <3>2, <3>3
  <2> QED BY <2>1, <2>2
<1>3. 0..treeDepth \subseteq S
  <2> HIDE DEF S
  <2> QED BY <1>1, <1>2, TreeAssumption, BoundedInduction
<1>4. PICK j \in Nat : currentRoot = Records!nodeAt(treeDepth, j)
  BY DEF Records!IInv, Records!RootOnTop
<1>5. treeDepth \in S
  BY <1>3, TreeAssumption
<1> QED BY <1>4, <1>5 DEF Roots
-----------------------------------------------------------------------------
\* The handlers of the store are those of its component.
LEMMA StoreHandlers ==
  ASSUME NEW caller, NEW purpose, NEW id, NEW inputs, NEW nullifier, NEW valid
  PROVE  /\ Store!RequestChallenge(caller, purpose)
              <=> Challenges!RequestChallenge(caller, purpose)
         /\ Store!Verify(caller, id, inputs, nullifier, valid)
              <=> Challenges!Verify(caller, id, inputs, nullifier, valid)
         /\ Store!Presentable(id, inputs, nullifier)
              <=> Challenges!Presentable(id, inputs, nullifier)
<1>1. Store!Presentable(id, inputs, nullifier)
        <=> Challenges!Presentable(id, inputs, nullifier)
  BY DEF Store!Presentable, Challenges!Presentable, Store!Expired, Challenges!Expired,
         Store!Pinned, Challenges!Pinned, Store!Spent, Challenges!Spent
<1>2. Store!RequestChallenge(caller, purpose)
        <=> Challenges!RequestChallenge(caller, purpose)
  BY DEF Store!RequestChallenge, Challenges!RequestChallenge, Store!Running,
         Challenges!Running, Store!InBounds, Challenges!InBounds, Store!Admits,
         Challenges!Admits, Store!Stamp, Challenges!Stamp, Store!Put, Challenges!Put,
         Store!NewChallenge, Challenges!NewChallenge, Store!canisterVars,
         Challenges!canisterVars, Store!stableVars, Challenges!stableVars
<1>3. Store!AcceptVerify(caller, id, inputs, nullifier)
        <=> Challenges!AcceptVerify(caller, id, inputs, nullifier)
  BY DEF Store!AcceptVerify, Challenges!AcceptVerify, Store!Stamp, Challenges!Stamp,
         Store!Put, Challenges!Put, Store!canisterVars, Challenges!canisterVars,
         Store!stableVars, Challenges!stableVars, Store!counterVars, Challenges!counterVars
<1>4. Store!RefuseVerify(caller) <=> Challenges!RefuseVerify(caller)
  BY DEF Store!RefuseVerify, Challenges!RefuseVerify, Store!Stamp, Challenges!Stamp,
         Store!Put, Challenges!Put, Store!canisterVars, Challenges!canisterVars,
         Store!stableVars, Challenges!stableVars, Store!counterVars, Challenges!counterVars,
         Store!observerVars, Challenges!observerVars
<1>5. Store!Verify(caller, id, inputs, nullifier, valid)
        <=> Challenges!Verify(caller, id, inputs, nullifier, valid)
  BY <1>1, <1>3, <1>4 DEF Store!Verify, Challenges!Verify, Store!Running, Challenges!Running,
                          Store!Admits, Challenges!Admits
<1> QED BY <1>1, <1>2, <1>5

\* So are its heartbeat, its part of the hooks and the clock.
LEMMA StorePlatform ==
  /\ Store!Heartbeat <=> Challenges!Heartbeat
  /\ Store!PreUpgrade <=> Challenges!PreUpgrade
  /\ Store!PostUpgrade /\ currentRoot' = currentRoot <=> Challenges!PostUpgrade
  /\ Store!UpgradeTraps <=> Challenges!UpgradeTraps
  /\ Store!TimePasses <=> Challenges!TimePasses
<1> USE DEF Store!canisterVars, Challenges!canisterVars, Store!heapVars, Challenges!heapVars,
            Store!counterVars, Challenges!counterVars, Store!stableVars,
            Challenges!stableVars, Store!observerVars, Challenges!observerVars,
            Store!storeVars, Challenges!storeVars, Store!Running, Challenges!Running,
            Store!Tick, Challenges!Tick, Store!UpgradeStarts, Challenges!UpgradeStarts,
            Store!UpgradeEnds, Challenges!UpgradeEnds, Store!StableArraysDrained,
            Challenges!StableArraysDrained
<1>1. Store!Heartbeat <=> Challenges!Heartbeat
  BY DEF Store!Heartbeat, Challenges!Heartbeat, Store!SweepsTo, Challenges!SweepsTo,
         Store!Passes, Challenges!Passes, Store!Expired, Challenges!Expired,
         Store!Delete, Challenges!Delete
<1>2. Store!PreUpgrade <=> Challenges!PreUpgrade
  BY DEF Store!PreUpgrade, Challenges!PreUpgrade, Store!Entries, Challenges!Entries
<1>3. Store!PostUpgrade /\ currentRoot' = currentRoot <=> Challenges!PostUpgrade
  BY DEF Store!PostUpgrade, Challenges!PostUpgrade, Store!FromIter, Challenges!FromIter
<1>4. Store!UpgradeTraps <=> Challenges!UpgradeTraps
  BY DEF Store!UpgradeTraps, Challenges!UpgradeTraps
<1>5. Store!TimePasses <=> Challenges!TimePasses
  BY DEF Store!TimePasses, Challenges!TimePasses
<1> QED BY <1>1, <1>2, <1>3, <1>4, <1>5
-----------------------------------------------------------------------------
\* A proof is made for a key of the circuit and for its inputs, by someone
\* whose witness satisfies the constraints.
LEMMA ProofIs ==
  ASSUME NEW inputs, NEW proof \in Proofs(inputs)
  PROVE  /\ proof.key \in Keys
         /\ proof.inputs = inputs
         /\ \E s \in Secrets, p \in Properties :
              /\ proof.element = nullifierHash(s, p, inputs[3], inputs[4])
              /\ Satisfies(inputs, proof.element, s, p)
<1>1. PICK s \in Secrets, p \in Properties :
        proof \in {[key |-> key, inputs |-> inputs, element |-> element] :
                     key \in Keys,
                     element \in {e \in {nullifierHash(s, p, inputs[3], inputs[4])} :
                                    Satisfies(inputs, e, s, p)}}
  BY DEF Proofs
<1>2. PICK key \in Keys, e \in {nullifierHash(s, p, inputs[3], inputs[4])} :
        /\ Satisfies(inputs, e, s, p)
        /\ proof = [key |-> key, inputs |-> inputs, element |-> e]
  BY <1>1
<1>3. proof.key = key /\ proof.inputs = inputs /\ proof.element = e
  BY <1>2
<1> QED BY <1>2, <1>3

\* What a caller presents: a proof of its inputs, or nothing that verifies,
\* under a nullifier made for some issued challenge.
LEMMA PresentIs ==
  ASSUME Challenges!IInv, Present
  PROVE  \E caller \in Principals, id \in Challenges!Ids, nullifier \in WrittenNullifiers :
           \E inputs, proof :
             /\ Verify(caller, id, inputs, nullifier, proof)
             /\ proof.key = NoKey \/ proof \in Proofs(inputs)
<1>1. PICK caller \in Principals, id \in 0..(MaxChallenges - 1), i \in DOMAIN issued :
        LET pinned == Store!Pinned(issued[i].challenge)
        IN \/ \E root \in {pinned[2]} \cup FabricatedRoots :
                LET inputs == [pinned EXCEPT ![2] = root]
                IN \E proof \in Proofs(inputs), k \in Lifts :
                     Verify(caller, id, inputs, [element |-> proof.element, lift |-> k], proof)
           \/ PresentNoProof(caller, id, issued[i].challenge)
  BY DEF Present
<1> DEFINE c == issued[i].challenge
           pinned == Store!Pinned(c)
<1>2. id \in Challenges!Ids
  BY DEF Challenges!Ids
<1>3. c.purpose \in Purposes /\ c.requestNonce \in 0..(MaxChallenges - 1)
  <2>1. c \in Challenges!Challenge
    BY IssuedAre DEF Challenges!IInv
  <2> QED BY <2>1 DEF Challenges!Challenge, Challenges!Ids
<1>4. CASE PresentNoProof(caller, id, c)
  <2> DEFINE element == nullifierHash("nobody", "nothing", c.purpose, c.requestNonce)
             nullifier == [element |-> element, lift |-> 0]
             proof == NotAProof(pinned, element)
  <2>1. Verify(caller, id, pinned, nullifier, proof)
    BY <1>4 DEF PresentNoProof
  <2>2. nullifier \in WrittenNullifiers
    BY <1>3 DEF WrittenNullifiers
  <2>3. proof.key = NoKey
    BY DEF NotAProof
  <2> QED BY <1>2, <2>1, <2>2, <2>3
<1>5. ASSUME NEW root, NEW inputs, inputs = [pinned EXCEPT ![2] = root],
             NEW proof \in Proofs(inputs), NEW k \in Lifts
      PROVE  [element |-> proof.element, lift |-> k] \in WrittenNullifiers
  <2>1. inputs[3] = c.purpose /\ inputs[4] = c.requestNonce
    BY <1>5 DEF Store!Pinned
  <2>2. PICK s \in Secrets, p \in Properties :
          proof.element = nullifierHash(s, p, inputs[3], inputs[4])
    BY ProofIs
  <2>3. proof.element = nullifierHash(s, p, c.purpose, c.requestNonce)
    BY <2>1, <2>2
  <2> QED BY <1>3, <2>3 DEF WrittenNullifiers, NullifierTexts
<1> QED BY <1>1, <1>2, <1>4, <1>5

\* To present a proof is to call the store's verify, with the verifier's verdict.
LEMMA VerifyIsVerify ==
  ASSUME Challenges!IInv,
         NEW caller \in Principals, NEW id \in Challenges!Ids,
         NEW nullifier \in WrittenNullifiers, NEW inputs, NEW proof,
         Verify(caller, id, inputs, nullifier, proof)
  PROVE  Challenges!Next
<1>1. PICK valid \in BOOLEAN : Challenges!Verify(caller, id, inputs, nullifier, valid)
  BY StoreHandlers DEF Verify, verifyWithReason
<1>2. CASE Challenges!Presentable(id, inputs, nullifier)
  <2>1. inputs \in Challenges!PresentedInputs
    <3> DEFINE c == issued[id + 1].challenge
    <3>1. inputs = Challenges!Pinned(challenges[id]) /\ id \in DOMAIN challenges
      BY <1>2 DEF Challenges!Presentable
    <3>2. id + 1 \in DOMAIN issued /\ c \in Challenges!Challenge
      BY <3>1, IssuedAre
         DEF Challenges!IInv, Challenges!OnFile, Challenges!IssuedInOrder,
             Challenges!TypeOK
    <3>3. challenges[id] = [c EXCEPT !.consumed = Challenges!Accepted(id)]
      BY <3>1 DEF Challenges!IInv, Challenges!OnFile
    <3>4. Challenges!Pinned(challenges[id])
            = Challenges!Pinned([c EXCEPT !.merkleRoot = c.merkleRoot])
      BY <3>2, <3>3 DEF Challenges!Pinned, Challenges!Challenge
    <3>5. c.merkleRoot \in Roots
      BY <3>2 DEF Challenges!Challenge
    <3> QED BY <3>1, <3>2, <3>4, <3>5 DEF Challenges!PresentedInputs
  <2> QED BY <1>1, <2>1 DEF Challenges!Next
<1>3. CASE ~Challenges!Presentable(id, inputs, nullifier)
  <2>1. ~Challenges!Presentable(id, <<>>, nullifier)
    BY DEF Challenges!Presentable, Challenges!Pinned
  <2>2. Challenges!Verify(caller, id, <<>>, nullifier, valid)
    BY <1>1, <1>3, <2>1 DEF Challenges!Verify
  <2>3. <<>> \in Challenges!PresentedInputs
    BY DEF Challenges!PresentedInputs
  <2> QED BY <2>2, <2>3 DEF Challenges!Next
<1> QED BY <1>2, <1>3

\* Every step of the registry is a step of its challenge store, or a stutter.
LEMMA StoreStep ==
  ASSUME Challenges!IInv, currentRoot \in Roots, (currentRoot \in Roots)', [Next]_vars
  PROVE  [Challenges!Next]_Challenges!vars
<1> USE DEF Challenges!vars, Challenges!canisterVars, Challenges!storeVars,
            Challenges!heapVars, Challenges!counterVars, Challenges!stableVars,
            Challenges!observerVars, canisterVars, storeVars
<1>1. CASE ManageAdmins
  BY <1>1 DEF ManageAdmins, Admin!bootstrapAdmin, Admin!addAdmin, Admin!removeAdmin,
              Admin!Admit, Admin!canisterVars, treeVars
<1>2. ASSUME NEW caller, NEW p, NEW f, SubmitRecord(caller, p, RecordOf(p, f))
      PROVE  Challenges!RootMoves \/ UNCHANGED Challenges!vars
  BY <1>2 DEF SubmitRecord, Tree!submitRecord, Tree!Running, Tree!canisterVars,
              Challenges!RootMoves, Challenges!Running
<1>3. ASSUME NEW caller, NEW hex, SetVerifyingKey(caller, hex)
      PROVE  UNCHANGED Challenges!vars
  BY <1>3 DEF SetVerifyingKey, treeVars
<1>4. ASSUME NEW caller \in Principals, NEW purpose \in Purposes,
             RequestChallenge(caller, purpose)
      PROVE  Challenges!Next
  BY <1>4, StoreHandlers DEF RequestChallenge, Challenges!Next
<1>5. CASE Present
  BY <1>5, PresentIs, VerifyIsVerify
<1>6. CASE Heartbeat
  BY <1>6, StorePlatform DEF Heartbeat, Challenges!Next
<1>7. CASE PreUpgrade
  BY <1>7, StorePlatform DEF PreUpgrade, Challenges!Next
<1>8. CASE PostUpgrade
  BY <1>8, StorePlatform DEF PostUpgrade, Tree!PostUpgrade, Tree!rootVars, Challenges!Next
<1>9. CASE UpgradeTraps
  BY <1>9, StorePlatform DEF UpgradeTraps, Challenges!Next
<1>10. CASE TimePasses
  BY <1>10, StorePlatform DEF TimePasses, Challenges!Next
<1>11. CASE UNCHANGED vars
  BY <1>11 DEF vars, treeVars
<1> QED BY <1>1, <1>2, <1>3, <1>4, <1>5, <1>6, <1>7, <1>8, <1>9, <1>10, <1>11
        DEF Next, Challenges!Next

\* It starts empty.
LEMMA InitStore == Init /\ currentRoot \in Roots => Challenges!Init
BY DEF Init, Admin!Init, Admin!CanisterInit, Store!StoreInit, Challenges!Init,
       Challenges!CanisterInit, Challenges!StoreInit, Store!EmptyMap, Challenges!EmptyMap

\* The store's invariant holds in the registry too.
LEMMA StoreInvariance == Spec => [](currentRoot \in Roots /\ Challenges!IInv)
<1>1. Spec => [](currentRoot \in Roots)
  BY RecordsInvariance, RootIsTerm, PTL
<1>2. Init /\ currentRoot \in Roots => Challenges!IInv
  BY InitStore, ComponentAssumptions, Challenges!InitIInv
<1>3. ASSUME Challenges!IInv, currentRoot \in Roots, (currentRoot \in Roots)', [Next]_vars
      PROVE  Challenges!IInv'
  <2>1. [Challenges!Next]_Challenges!vars
    BY <1>3, StoreStep
  <2> QED BY <1>3, <2>1, ComponentAssumptions, Challenges!NextKeepsIInv
<1> QED BY <1>1, <1>2, <1>3, PTL DEF Spec

\* The registry keeps its challenges and nullifiers the way their component
\* says, for the roots its own tree can have and the verdicts of its verifier.
THEOREM RegistryImplementsChallengeStore == Spec => Challenges!Spec
<1>1. ASSUME Challenges!IInv, currentRoot \in Roots, (currentRoot \in Roots)', [Next]_vars
      PROVE  [Challenges!Next]_Challenges!vars
  BY <1>1, StoreStep
<1> QED BY InitStore, <1>1, StoreInvariance, PTL DEF Spec, Challenges!Spec
-----------------------------------------------------------------------------
\* What ties the components together: each challenge names the root of the
\* records that were on file when it was issued, and each receipt stands for a
\* witness that satisfied the circuit for the challenge it names.
Files == UNION {[S -> {RecordOf(p, f) : p \in Properties, f \in Filings}] :
                  S \in SUBSET Properties}

FiledUnder(root, file) ==
  /\ \A p \in DOMAIN file : \E f \in Filings : file[p] = RecordOf(p, f)
  /\ Tree!LeavesUnder(root) \ {zeroHashes[0]} \subseteq {leafHash(file[p]) : p \in DOMAIN file}

FiledUnderRoot ==
  /\ filedAtIssue \in Seq(Files)
  /\ Len(filedAtIssue) = Len(issued)
  /\ \A i \in DOMAIN issued :
       FiledUnder(issued[i].challenge.merkleRoot, filedAtIssue[i])

Witnessed(c, element) ==
  \E s \in Secrets, p \in Properties :
    /\ element = nullifierHash(s, p, c.purpose, c.requestNonce)
    /\ Satisfies(Store!Pinned(c), element, s, p)

ReceiptsWitnessed ==
  \A i \in DOMAIN receipts :
    Witnessed(issued[receipts[i].challengeId + 1].challenge, receipts[i].nullifier.element)

OnlySpent == \A n \in DOMAIN nullifiers : nullifiers[n] = TRUE

Linked == FiledUnderRoot /\ ReceiptsWitnessed /\ OnlySpent

\* Nothing is issued, accepted or on file in a new registry.
LEMMA InitLinked == Init => Linked
  BY DEF Init, Store!StoreInit, Store!EmptyMap, Linked, FiledUnderRoot, ReceiptsWitnessed,
         OnlySpent

\* A step that leaves the logs and the nullifiers alone keeps the link.
LEMMA QuietKeepsLinked ==
  ASSUME Linked, UNCHANGED <<issued, receipts, filedAtIssue, nullifiers>>
  PROVE  Linked'
<1>1. FiledUnderRoot'
  BY DEF Linked, FiledUnderRoot
<1>2. ReceiptsWitnessed'
  BY DEF Linked, ReceiptsWitnessed
<1>3. OnlySpent'
  BY DEF Linked, OnlySpent
<1> QED BY <1>1, <1>2, <1>3 DEF Linked

\* The records on file are a file.
LEMMA RecordsAreFile ==
  ASSUME FiledAsSubmitted, Records!IInv
  PROVE  records \in Files
<1>1. IsMap(records)
  BY DEF Records!IInv, Records!Restorable, Records!IsMap, IsMap
<1>2. /\ DOMAIN records \in SUBSET Properties
      /\ \A p \in DOMAIN records :
           records[p] \in {RecordOf(q, f) : q \in Properties, f \in Filings}
  BY DEF FiledAsSubmitted
<1> QED BY <1>1, <1>2 DEF IsMap, Files

\* A new challenge is added to the logs, with the records on file.
LEMMA RequestIs ==
  ASSUME FiledAsSubmitted, Records!IInv, Challenges!IInv,
         filedAtIssue \in Seq(Files), Len(filedAtIssue) = Len(issued),
         NEW caller, NEW purpose, RequestChallenge(caller, purpose)
  PROVE  /\ Len(issued) \in Nat
         /\ DOMAIN issued = 1..Len(issued)
         /\ DOMAIN issued' = 1..(Len(issued) + 1)
         /\ Len(issued') = Len(issued) + 1
         /\ issued'[Len(issued) + 1].challenge = Store!NewChallenge(purpose)
         /\ filedAtIssue' \in Seq(Files)
         /\ Len(filedAtIssue') = Len(issued) + 1
         /\ filedAtIssue'[Len(issued) + 1] = records
         /\ \A i \in DOMAIN issued : issued'[i] = issued[i] /\ filedAtIssue'[i] = filedAtIssue[i]
         /\ receipts' = receipts /\ nullifiers' = nullifiers
<1> DEFINE request == [caller |-> caller, at |-> now, challenge |-> Store!NewChallenge(purpose)]
<1>1. /\ issued' = Append(issued, request)
      /\ filedAtIssue' = Append(filedAtIssue, records)
      /\ receipts' = receipts /\ nullifiers' = nullifiers
  BY DEF RequestChallenge, Store!RequestChallenge
<1>2. request.challenge = Store!NewChallenge(purpose)
  OBVIOUS
<1> HIDE DEF request
<1>3. issued \in Seq(Challenges!Request \cup {request})
  <2>1. issued \in Seq(Challenges!Request)
    BY DEF Challenges!IInv, Challenges!TypeOK
  <2> QED BY <2>1
<1>4. records \in Files
  BY RecordsAreFile
<1> QED BY <1>1, <1>2, <1>3, <1>4

\* A new challenge names the current root, under which only the records on file
\* have leaves.
LEMMA RequestKeepsLinked ==
  ASSUME Linked, FiledAsSubmitted, Records!IInv, Challenges!IInv,
         NEW caller, NEW purpose, RequestChallenge(caller, purpose)
  PROVE  Linked'
<1>1. /\ Len(issued) \in Nat
      /\ DOMAIN issued = 1..Len(issued)
      /\ DOMAIN issued' = 1..(Len(issued) + 1)
      /\ Len(issued') = Len(issued) + 1
      /\ issued'[Len(issued) + 1].challenge = Store!NewChallenge(purpose)
      /\ filedAtIssue' \in Seq(Files)
      /\ Len(filedAtIssue') = Len(issued) + 1
      /\ filedAtIssue'[Len(issued) + 1] = records
      /\ receipts' = receipts /\ nullifiers' = nullifiers
  BY RequestIs DEF Linked, FiledUnderRoot
<1>2. \A i \in DOMAIN issued : issued'[i] = issued[i] /\ filedAtIssue'[i] = filedAtIssue[i]
  BY RequestIs DEF Linked, FiledUnderRoot
<1>3. Tree!LeavesUnder(currentRoot) \ {zeroHashes[0]}
        \subseteq {leafHash(records[p]) : p \in DOMAIN records}
  <2>1. Records!LeavesUnder(currentRoot) \ {Records!zeroHashes[0]}
          \subseteq {Records!leafHash(records[p]) : p \in DOMAIN records}
    BY ComponentAssumptions, Records!NoForeignLeaf
  <2>2. Records!LeavesUnder(currentRoot) = Tree!LeavesUnder(currentRoot)
    BY DEF Records!LeavesUnder, Tree!LeavesUnder
  <2>3. Records!zeroHashes[0] = zeroHashes[0]
    BY DEF Records!zeroHashes, zeroHashes, Records!nodeHash, nodeHash
  <2>4. \A p \in DOMAIN records : Records!leafHash(records[p]) = leafHash(records[p])
    BY DEF Records!leafHash, leafHash
  <2> QED BY <2>1, <2>2, <2>3, <2>4
<1>4. FiledUnderRoot'
  <2>1. ASSUME NEW i \in DOMAIN issued'
        PROVE  FiledUnder(issued'[i].challenge.merkleRoot, filedAtIssue'[i])
    <3>1. CASE i \in DOMAIN issued
      BY <1>2, <3>1 DEF Linked, FiledUnderRoot
    <3>2. CASE i = Len(issued) + 1
      <4>1. issued'[i].challenge.merkleRoot = currentRoot /\ filedAtIssue'[i] = records
        BY <1>1, <3>2 DEF Store!NewChallenge
      <4>2. FiledUnder(currentRoot, records)
        BY <1>3 DEF FiledAsSubmitted, FiledUnder
      <4> QED BY <4>1, <4>2
    <3> QED BY <1>1, <3>1, <3>2
  <2> QED BY <1>1, <2>1 DEF FiledUnderRoot
<1>5. ReceiptsWitnessed'
  <2>1. \A i \in DOMAIN receipts : receipts[i].challengeId + 1 \in DOMAIN issued
    BY DEF Challenges!IInv, Challenges!AcceptedAsIssued
  <2> QED BY <1>1, <1>2, <2>1 DEF Linked, ReceiptsWitnessed
<1> QED BY <1>1, <1>4, <1>5 DEF Linked, OnlySpent

\* A verify that accepts has a witness for the challenge it names, because the
\* inputs it compares are those the challenge was issued with.
LEMMA VerifyKeepsLinked ==
  ASSUME Linked, Challenges!IInv,
         NEW caller, NEW id \in Challenges!Ids, NEW inputs, NEW nullifier, NEW proof,
         Verify(caller, id, inputs, nullifier, proof),
         proof.key = NoKey \/ proof \in Proofs(inputs)
  PROVE  Linked'
<1> DEFINE valid == verifyWithReason(getPreparedVk, proof, inputs, nullifier)
           receipt == [caller |-> caller, at |-> now, challengeId |-> id,
                       inputs |-> inputs, nullifier |-> nullifier]
<1>1. CASE ~(Store!Presentable(id, inputs, nullifier) /\ valid)
  BY <1>1, QuietKeepsLinked DEF Verify, Store!Verify, Store!RefuseVerify, Store!observerVars
<1>2. CASE Store!Presentable(id, inputs, nullifier) /\ valid
  <2>1. /\ receipts' = Append(receipts, receipt)
        /\ nullifiers' = Store!Put(nullifiers, nullifier, TRUE)
        /\ issued' = issued /\ filedAtIssue' = filedAtIssue
    BY <1>2 DEF Verify, Store!Verify, Store!AcceptVerify
  <2> DEFINE c == issued[id + 1].challenge
  <2>2. inputs = Store!Pinned(c)
    <3>1. inputs = Store!Pinned(challenges[id]) /\ id \in DOMAIN challenges
      BY <1>2 DEF Store!Presentable
    <3>2. id + 1 \in DOMAIN issued /\ c \in Challenges!Challenge
      BY <3>1, IssuedAre
         DEF Challenges!IInv, Challenges!OnFile, Challenges!IssuedInOrder, Challenges!TypeOK
    <3>3. challenges[id] = [c EXCEPT !.consumed = Challenges!Accepted(id)]
      BY <3>1 DEF Challenges!IInv, Challenges!OnFile
    <3> QED BY <3>1, <3>2, <3>3 DEF Store!Pinned, Challenges!Challenge
  <2>3. Witnessed(c, nullifier.element)
    <3>1. proof \in Proofs(inputs) /\ proof.element = nullifier.element
      BY <1>2 DEF verifyWithReason
    <3>2. PICK s \in Secrets, p \in Properties :
            /\ proof.element = nullifierHash(s, p, inputs[3], inputs[4])
            /\ Satisfies(inputs, proof.element, s, p)
      BY <3>1, ProofIs
    <3>3. inputs[3] = c.purpose /\ inputs[4] = c.requestNonce
      BY <2>2 DEF Store!Pinned
    <3> QED BY <2>2, <3>1, <3>2, <3>3 DEF Witnessed
  <2>4. /\ Len(receipts) \in Nat
        /\ DOMAIN receipts = 1..Len(receipts)
        /\ DOMAIN receipts' = 1..(Len(receipts) + 1)
        /\ \A i \in DOMAIN receipts : receipts'[i] = receipts[i]
        /\ receipts'[Len(receipts) + 1] = receipt
    <3>1. receipts \in Seq(Challenges!Receipt)
      BY DEF Challenges!IInv, Challenges!TypeOK
    <3> HIDE DEF receipt
    <3>2. receipts \in Seq(Challenges!Receipt \cup {receipt})
      BY <3>1
    <3> QED BY <2>1, <3>2
  <2>5. ReceiptsWitnessed'
    <3>1. ASSUME NEW i \in DOMAIN receipts'
          PROVE  Witnessed(issued'[receipts'[i].challengeId + 1].challenge,
                           receipts'[i].nullifier.element)
      <4>1. CASE i \in DOMAIN receipts
        BY <2>1, <2>4, <4>1 DEF Linked, ReceiptsWitnessed
      <4>2. CASE i = Len(receipts) + 1
        BY <2>1, <2>3, <2>4, <4>2
      <4> QED BY <2>4, <4>1, <4>2
    <3> QED BY <3>1 DEF ReceiptsWitnessed
  <2>6. FiledUnderRoot'
    BY <2>1 DEF Linked, FiledUnderRoot
  <2>7. OnlySpent'
    BY <2>1 DEF Linked, OnlySpent, Store!Put
  <2> QED BY <2>5, <2>6, <2>7 DEF Linked
<1> QED BY <1>1, <1>2

\* Every other step leaves the logs, and postupgrade restores the nullifiers.
LEMMA NextKeepsLinked ==
  ASSUME Linked, FiledAsSubmitted, Records!IInv, Challenges!IInv, [Next]_vars
  PROVE  Linked'
<1>1. CASE ManageAdmins
  BY <1>1, QuietKeepsLinked DEF ManageAdmins, storeVars, observerVars
<1>2. ASSUME NEW caller, NEW p, NEW record, SubmitRecord(caller, p, record)
      PROVE  Linked'
  BY <1>2, QuietKeepsLinked DEF SubmitRecord, storeVars
<1>3. ASSUME NEW caller, NEW hex, SetVerifyingKey(caller, hex)
      PROVE  Linked'
  BY <1>3, QuietKeepsLinked DEF SetVerifyingKey, storeVars, observerVars
<1>4. ASSUME NEW caller, NEW purpose, RequestChallenge(caller, purpose)
      PROVE  Linked'
  BY <1>4, RequestKeepsLinked
<1>5. CASE Present
  <2>1. PICK caller \in Principals, id \in Challenges!Ids, nullifier \in WrittenNullifiers :
          \E inputs, proof : /\ Verify(caller, id, inputs, nullifier, proof)
                             /\ proof.key = NoKey \/ proof \in Proofs(inputs)
    BY <1>5, PresentIs
  <2> QED BY <2>1, VerifyKeepsLinked
<1>6. CASE Heartbeat
  BY <1>6, QuietKeepsLinked DEF Heartbeat, Store!Heartbeat, Store!observerVars, observerVars
<1>7. CASE PreUpgrade \/ UpgradeTraps
  BY <1>7, QuietKeepsLinked DEF PreUpgrade, UpgradeTraps, Store!PreUpgrade, Store!UpgradeTraps,
                                Store!heapVars, Store!observerVars, observerVars
<1>8. CASE PostUpgrade
  <2>1. Challenges!PostUpgrade
    BY <1>8, StorePlatform DEF PostUpgrade, Tree!PostUpgrade, Tree!rootVars
  <2>2. UNCHANGED <<Challenges!heapVars, Challenges!observerVars>>
    BY <2>1, ComponentAssumptions, Challenges!QuietKeepsHeap DEF Challenges!Quiet
  <2> QED BY <1>8, <2>2, QuietKeepsLinked DEF PostUpgrade, observerVars, Challenges!heapVars,
                                              Challenges!observerVars
<1>9. CASE TimePasses
  BY <1>9, QuietKeepsLinked DEF TimePasses, Store!TimePasses, Store!storeVars, Store!heapVars,
                                Store!observerVars, observerVars
<1>10. CASE UNCHANGED vars
  BY <1>10, QuietKeepsLinked DEF vars, storeVars, observerVars
<1> QED BY <1>1, <1>2, <1>3, <1>4, <1>5, <1>6, <1>7, <1>8, <1>9, <1>10 DEF Next

\* The invariant of the composed registry.
IInv == /\ FiledAsSubmitted
        /\ Challenges!IInv
        /\ Linked

\* It holds in every state.
LEMMA Invariance == Spec => []IInv
<1>1. /\ Linked /\ FiledAsSubmitted /\ Records!IInv /\ Challenges!IInv /\ [Next]_vars => Linked'
  BY NextKeepsLinked
<1>2. Spec => []Linked
  BY InitLinked, RecordsInvariance, StoreInvariance, <1>1, PTL DEF Spec
<1> QED BY RecordsInvariance, StoreInvariance, <1>2, PTL DEF IInv
-----------------------------------------------------------------------------
\* What stands behind each receipt: the challenge it names was issued, and it
\* pins the inputs and, with its nonce, the nullifier.
LEMMA ReceiptStands ==
  ASSUME IInv, NEW i \in DOMAIN receipts
  PROVE  LET id == receipts[i].challengeId
             c == issued[id + 1].challenge
         IN /\ id \in Nat /\ id + 1 \in DOMAIN issued
            /\ c.requestNonce = id
            /\ \E s \in Secrets, p \in Properties :
                 /\ receipts[i].nullifier.element = nullifierHash(s, p, c.purpose, id)
                 /\ Satisfies(Store!Pinned(c), receipts[i].nullifier.element, s, p)
<1> DEFINE id == receipts[i].challengeId
           c == issued[id + 1].challenge
<1>1. id \in Nat
  BY ComponentAssumptions, Challenges!ReceiptTypes DEF IInv, Challenges!IInv, Challenges!Ids
<1>2. id + 1 \in DOMAIN issued
  BY DEF IInv, Challenges!IInv, Challenges!AcceptedAsIssued
<1>3. c.requestNonce = id
  BY <1>1, <1>2 DEF IInv, Challenges!IInv, Challenges!IssuedInOrder
<1>4. Witnessed(c, receipts[i].nullifier.element)
  BY DEF IInv, Linked, ReceiptsWitnessed
<1> QED BY <1>1, <1>2, <1>3, <1>4 DEF Witnessed

\* A proof is accepted only for a property of which a clean record was on file
\* when the challenge was issued, at most one lifetime before (main.mo:380-447),
\* whatever is filed, upgraded or pruned in between.
THEOREM RegistryAcceptedWasClean == Spec => []AcceptedWasClean
<1>1. IInv => AcceptedWasClean
  <2> SUFFICES ASSUME IInv, NEW i \in DOMAIN receipts
               PROVE LET request == issued[receipts[i].challengeId + 1]
                         onFile == filedAtIssue[receipts[i].challengeId + 1]
                         c == request.challenge
                     IN /\ receipts[i].at - request.at <= CHALLENGE_TTL
                        /\ \E secret \in Secrets, p \in DOMAIN onFile :
                             /\ receipts[i].nullifier.element =
                                  nullifierHash(secret, p, c.purpose, c.requestNonce)
                             /\ onFile[p].ownerCommitment = ownerCommitment(secret, p)
                             /\ onFile[p].encumbranceFlag = 0
                             /\ onFile[p].licenseStatus = 1
                             /\ onFile[p].licenseExpiry > c.currentTimestamp
    BY DEF AcceptedWasClean
  <2> DEFINE id == receipts[i].challengeId
             request == issued[id + 1]
             onFile == filedAtIssue[id + 1]
             c == request.challenge
             element == receipts[i].nullifier.element
  <2>1. id + 1 \in DOMAIN issued /\ c.requestNonce = id
    BY ReceiptStands
  <2>2. receipts[i].at - request.at <= CHALLENGE_TTL
    <3>1. /\ receipts[i].at \in 0..MaxTime
          /\ request.at \in 0..MaxTime
      BY <2>1, ComponentAssumptions, Challenges!ReceiptTypes, Challenges!IssuedTypes
         DEF IInv, Challenges!IInv
    <3>2. receipts[i].at \in request.at..(request.at + CHALLENGE_TTL)
      BY DEF IInv, Challenges!IInv, Challenges!AcceptedAsIssued
    <3> QED BY <3>1, <3>2, RegistryAssumption
  <2>3. PICK s \in Secrets, p \in Properties :
          /\ element = nullifierHash(s, p, c.purpose, id)
          /\ Satisfies(Store!Pinned(c), element, s, p)
    BY ReceiptStands
  <2>4. PICK leaf \in Tree!LeavesUnder(c.merkleRoot) :
          /\ leaf[1] = "leaf"
          /\ leaf[3] = ownerCommitment(s, p)
          /\ leaf[4] = 0
          /\ leaf[5] = 1
          /\ leaf[6] > c.currentTimestamp
    BY <2>3 DEF Satisfies, Store!Pinned
  <2>5. leaf # zeroHashes[0]
    <3>1. Records!zeroHashes[0] = <<"empty">>
      BY ComponentAssumptions, Records!ZeroHashes
    <3>2. zeroHashes[0] = <<"empty">>
      BY <3>1 DEF Records!zeroHashes, zeroHashes, Records!nodeHash, nodeHash
    <3> QED BY <2>4, <3>2
  <2>6. FiledUnder(c.merkleRoot, onFile)
    BY <2>1 DEF IInv, Linked, FiledUnderRoot
  <2>7. PICK q \in DOMAIN onFile : leaf = leafHash(onFile[q])
    BY <2>4, <2>5, <2>6 DEF FiledUnder
  <2>8. /\ onFile[q].ownerCommitment = ownerCommitment(s, p)
        /\ onFile[q].encumbranceFlag = 0
        /\ onFile[q].licenseStatus = 1
        /\ onFile[q].licenseExpiry > c.currentTimestamp
    BY <2>4, <2>7 DEF leafHash
  <2>9. PICK f \in Filings : onFile[q] = RecordOf(q, f)
    BY <2>6 DEF FiledUnder
  <2>10. q = p
    <3>1. onFile[q].ownerCommitment = ownerCommitment(f.secret, q)
      BY <2>9 DEF RecordOf
    <3>2. <<"owner", f.secret, q>> = <<"owner", s, p>>
      BY <2>8, <3>1 DEF ownerCommitment
    <3> QED BY <3>2
  <2> QED BY <2>1, <2>2, <2>3, <2>8, <2>10
<1> QED BY Invariance, <1>1, PTL

\* No two acceptances carry one nullifier as a field element, although the
\* store compares texts: the element holds the nonce of its challenge, and no
\* challenge is accepted twice ("a nullifier can only ever be spent once",
\* README.md).
THEOREM RegistryElementSpentOnce == Spec => []ElementSpentOnce
<1>1. IInv => ElementSpentOnce
  <2> SUFFICES ASSUME IInv, NEW i \in DOMAIN receipts, NEW j \in DOMAIN receipts, i # j
               PROVE  receipts[i].nullifier.element # receipts[j].nullifier.element
    BY DEF ElementSpentOnce
  <2>1. receipts[i].challengeId # receipts[j].challengeId
    BY DEF IInv, Challenges!IInv, Challenges!SingleUse
  <2>2. /\ receipts[i].nullifier.element[5] = receipts[i].challengeId
        /\ receipts[j].nullifier.element[5] = receipts[j].challengeId
    BY ReceiptStands DEF nullifierHash
  <2> QED BY <2>1, <2>2
<1> QED BY Invariance, <1>1, PTL

\* No nullifier that a proof of an open challenge can carry is on file, so the
\* check of the nullifier store turns no owner away.
THEOREM RegistryOpenIsUnspent == Spec => []OpenIsUnspent
<1>1. IInv => OpenIsUnspent
  <2> SUFFICES ASSUME IInv, NEW id \in DOMAIN challenges, ~challenges[id].consumed,
                      NEW n \in DOMAIN nullifiers,
                      n.element[5] = challenges[id].requestNonce
               PROVE  FALSE
    BY DEF OpenIsUnspent
  <2>1. /\ id \in Nat /\ id + 1 \in DOMAIN issued
        /\ challenges[id] = [issued[id + 1].challenge EXCEPT !.consumed = Challenges!Accepted(id)]
        /\ issued[id + 1].challenge \in Challenges!Challenge
    BY IssuedAre
       DEF IInv, Challenges!IInv, Challenges!OnFile, Challenges!IssuedInOrder,
           Challenges!TypeOK
  <2>2. challenges[id].requestNonce = id /\ ~Challenges!Accepted(id)
    BY <2>1 DEF IInv, Challenges!IInv, Challenges!IssuedInOrder, Challenges!Challenge
  <2>3. PICK j \in DOMAIN receipts : receipts[j].nullifier = n
    <3>1. n \in WrittenNullifiers /\ Challenges!Spent(n)
      BY DEF IInv, Linked, OnlySpent, Challenges!IInv, Challenges!TypeOK, Challenges!Spent
    <3> QED BY <3>1 DEF IInv, Challenges!IInv, Challenges!SpentIsAccepted
  <2>4. n.element[5] = receipts[j].challengeId
    BY <2>3, ReceiptStands DEF nullifierHash
  <2> QED BY <2>2, <2>4 DEF Challenges!Accepted
<1> QED BY Invariance, <1>1, PTL
-----------------------------------------------------------------------------
\* The cache holds the configured key or nothing.
CacheFollows ==
  /\ preparedVkCache \in {NoKey, parseAndPrepareVk(vkHex)}
  /\ acceptedUnder \in Seq(Keys)

\* A new registry has no key and an empty cache.
LEMMA InitCacheFollows == Init => CacheFollows
  BY DEF Init, CacheFollows

\* A verify leaves the configured key, or nothing, in the cache, and accepts
\* under that key only: another key's prepared form is another value.
LEMMA VerifyKeepsCache ==
  ASSUME CacheFollows, NEW caller, NEW id, NEW inputs, NEW nullifier, NEW proof,
         Verify(caller, id, inputs, nullifier, proof),
         proof.key \in Keys \cup {NoKey}
  PROVE  /\ CacheFollows'
         /\ \/ acceptedUnder' = acceptedUnder
            \/ /\ acceptedUnder' = Append(acceptedUnder, vkHex)
               /\ vkHex \in Keys
<1> DEFINE valid == verifyWithReason(getPreparedVk, proof, inputs, nullifier)
           reachesVerifier == Store!Presentable(id, inputs, nullifier)
<1>1. vkHex' = vkHex
  BY DEF Verify
<1>2. getPreparedVk \in {NoKey, parseAndPrepareVk(vkHex)}
  BY DEF CacheFollows, getPreparedVk
<1>3. preparedVkCache' \in {NoKey, parseAndPrepareVk(vkHex)}
  BY <1>2 DEF Verify, CacheFollows
<1>4. CASE reachesVerifier /\ valid
  <2>1. proof.key \in Keys /\ getPreparedVk = parseAndPrepareVk(proof.key)
    BY <1>4 DEF verifyWithReason
  <2>2. getPreparedVk = <<"prepared", proof.key>> /\ getPreparedVk # NoKey
    BY <2>1, KeyAssumption DEF parseAndPrepareVk
  <2>3. <<"prepared", proof.key>> = <<"prepared", vkHex>>
    BY <1>2, <2>2 DEF parseAndPrepareVk
  <2>4. proof.key = vkHex
    BY <2>3
  <2>5. acceptedUnder' = Append(acceptedUnder, vkHex)
    BY <1>4, <2>4 DEF Verify
  <2>6. acceptedUnder' \in Seq(Keys)
    BY <2>1, <2>4, <2>5 DEF CacheFollows
  <2> QED BY <1>1, <1>3, <2>1, <2>4, <2>5, <2>6 DEF CacheFollows, parseAndPrepareVk
<1>5. CASE ~(reachesVerifier /\ valid)
  <2>1. acceptedUnder' = acceptedUnder
    BY <1>5 DEF Verify
  <2> QED BY <1>1, <1>3, <2>1 DEF CacheFollows, parseAndPrepareVk
<1> QED BY <1>4, <1>5

\* What a step does to the cache and to the log of keys.
LEMMA NextKeepsCache ==
  ASSUME CacheFollows, Challenges!IInv, [Next]_vars
  PROVE  /\ CacheFollows'
         /\ \/ acceptedUnder' = acceptedUnder
            \/ /\ acceptedUnder' = Append(acceptedUnder, vkHex)
               /\ vkHex \in Keys
<1>1. CASE Present
  <2>1. PICK caller \in Principals, id \in Challenges!Ids, nullifier \in WrittenNullifiers :
          \E inputs, proof : /\ Verify(caller, id, inputs, nullifier, proof)
                             /\ proof.key = NoKey \/ proof \in Proofs(inputs)
    BY <1>1, PresentIs
  <2> QED BY <2>1, ProofIs, VerifyKeepsCache
<1>2. ASSUME NEW caller, NEW hex, SetVerifyingKey(caller, hex)
      PROVE  CacheFollows' /\ acceptedUnder' = acceptedUnder
  BY <1>2 DEF SetVerifyingKey, observerVars, CacheFollows, parseAndPrepareVk
<1>3. CASE PostUpgrade
  BY <1>3 DEF PostUpgrade, observerVars, CacheFollows, parseAndPrepareVk
<1>4. CASE UNCHANGED <<keyVars, acceptedUnder>>
  BY <1>4 DEF keyVars, CacheFollows, parseAndPrepareVk
<1>5. ASSUME NEW caller, NEW p, NEW record, SubmitRecord(caller, p, record)
      PROVE  UNCHANGED <<keyVars, acceptedUnder>>
  BY <1>5 DEF SubmitRecord
<1>6. ASSUME NEW caller, NEW purpose, RequestChallenge(caller, purpose)
      PROVE  UNCHANGED <<keyVars, acceptedUnder>>
  BY <1>6 DEF RequestChallenge
<1>7. ManageAdmins \/ Heartbeat \/ PreUpgrade \/ UpgradeTraps \/ TimePasses \/ UNCHANGED vars
        => UNCHANGED <<keyVars, acceptedUnder>>
  BY DEF ManageAdmins, Heartbeat, PreUpgrade, UpgradeTraps, TimePasses, vars, observerVars
<1> QED BY <1>1, <1>2, <1>3, <1>4, <1>5, <1>6, <1>7 DEF Next

\* A proof is accepted only under the key that is configured at that moment
\* (preparedVkCache, main.mo:357-364).
THEOREM RegistryKeyInForce == Spec => KeyInForce
<1>1. Spec => []CacheFollows
  <2>1. CacheFollows /\ Challenges!IInv /\ [Next]_vars => CacheFollows'
    BY NextKeepsCache
  <2> QED BY InitCacheFollows, <2>1, StoreInvariance, PTL DEF Spec
<1>2. ASSUME CacheFollows, Challenges!IInv, [Next]_vars,
             Len(acceptedUnder') > Len(acceptedUnder)
      PROVE  acceptedUnder'[Len(acceptedUnder')] = vkHex
  <2>1. acceptedUnder \in Seq(Keys)
    BY <1>2 DEF CacheFollows
  <2>2. acceptedUnder' # acceptedUnder
    BY <1>2, <2>1
  <2> QED BY <1>2, <2>1, <2>2, NextKeepsCache
<1>3. /\ CacheFollows /\ Challenges!IInv /\ [Next]_vars
        => [Len(acceptedUnder') > Len(acceptedUnder)
             => acceptedUnder'[Len(acceptedUnder')] = vkHex]_vars
  BY <1>2
<1> QED BY <1>1, <1>3, StoreInvariance, PTL DEF Spec, KeyInForce
-----------------------------------------------------------------------------
\* The owners before the registry: every step is a step of the registry, or the
\* presentation of a proof that an owner made.
LEMMA ClientStep ==
  ASSUME [ClientNext]_allVars
  PROVE  [Next]_vars \/ ClientPresents
<1>1. ASSUME NEW method \in Methods, NEW purpose \in Purposes, ClientRequests(method, purpose)
      PROVE  Next
  BY <1>1, OwnersAssumption DEF ClientRequests, Next
<1>2. CASE ClientProves \/ UNCHANGED allVars
  BY <1>2 DEF ClientProves, allVars
<1>3. CASE World
  <2>1. FileRecord => Next
    <3>1. ASSUME NEW caller \in Officials, NEW owner \in {Owner0, Owner1}, NEW f \in Filings,
                 SubmitRecord(caller, owner.id, RecordOf(owner.id, f))
          PROVE  Next
      <4>1. owner.id \in Properties
        BY OwnersAssumption
      <4> QED BY <3>1, <4>1 DEF Next
    <3> QED BY <3>1 DEF FileRecord
  <2>2. OthersCall => Next
    BY DEF OthersCall, Present, Next
  <2> QED BY <1>3, <2>1, <2>2 DEF World, Next
<1> QED BY <1>1, <1>2, <1>3 DEF ClientNext

\* What is filed is filed the same way as without the owners.
LEMMA ClientRecordStep ==
  ASSUME [ClientNext]_allVars
  PROVE  [Records!Next]_Records!vars
BY ClientStep, RecordStep, VerifyKeepsRecords DEF ClientPresents

\* The invariants of the records and of their tree hold with the owners too.
LEMMA ClientRecords ==
  ClientSpec => [](Records!IInv /\ Records!Counted /\ FiledAsSubmitted /\ currentRoot \in Roots)
<1>1. ClientSpec => Records!Spec
  <2>1. ClientInit => Records!Init
    BY InitRecords DEF ClientInit
  <2>2. [ClientNext]_allVars => [Records!Next]_Records!vars
    BY ClientRecordStep
  <2> QED BY <2>1, <2>2, PTL DEF ClientSpec, Records!Spec
<1>2. ClientSpec => [](Records!IInv /\ Records!Counted)
  BY <1>1, ComponentAssumptions, Records!Invariance, Records!CountedInvariance, PTL
<1>3. ASSUME Records!IInv, FiledAsSubmitted, [ClientNext]_allVars
      PROVE  FiledAsSubmitted'
  <2>1. CASE [Next]_vars
    BY <1>3, <2>1, NextKeepsFiled
  <2>2. CASE ClientPresents
    BY <1>3, <2>2 DEF ClientPresents, Verify, treeVars, FiledAsSubmitted, RecordOf
  <2> QED BY <1>3, <2>1, <2>2, ClientStep
<1>4. ClientSpec => []FiledAsSubmitted
  BY InitFiled, <1>2, <1>3, PTL DEF ClientSpec, ClientInit
<1> QED BY <1>2, <1>4, RootIsTerm, PTL

\* What stands behind an owner's proof: the challenge it was made for, whose
\* numbers it carries, and the key then in force, unless the licence had run out.
Asked(id) == id + 1 \in DOMAIN issued

ProofStands(method, id, proof, key) ==
  LET c == Reply(id)
      owner == ProverOf(method)
      purpose == fr_from_dec_str(c.purpose)
  IN /\ proof.inputs = <<registryId, c.merkleRoot, purpose, c.requestNonce, c.currentTimestamp>>
     /\ proof.element = nullifierHash(owner.secret, owner.id, purpose, c.requestNonce)
     /\ proof.key \in {key, NoKey}
     /\ c.currentTimestamp < owner.expiry => proof.key = key

MadeProof(method, id, proof, key) ==
  [pc |-> "proved", method |-> method, id |-> id, proof |-> proof, madeFor |-> key]

\* Where an attempt stands.
AttemptStands ==
  \/ client.pc \in {"idle", "accepted"}
  \/ \E method \in Methods, id \in Challenges!Ids :
       Asked(id) /\ client = Challenged(method, id)
  \/ \E method \in Methods, id \in Challenges!Ids, key \in Keys : \E proof :
       /\ Asked(id)
       /\ ProofStands(method, id, proof, key)
       /\ client = MadeProof(method, id, proof, key)

\* Each challenge still says which records were on file when it was issued.
PinnedRoots ==
  /\ filedAtIssue \in Seq(Files)
  /\ Len(filedAtIssue) = Len(issued)
  /\ \A i \in DOMAIN issued :
       Records!Pins(issued[i].challenge.merkleRoot, filedAtIssue[i])

\* Nobody else has a proof: nothing is accepted before the owner is.
NothingAccepted == client.pc # "accepted" => receipts = <<>>

\* An owner's presentation is one that the proofs about verify cover.
LEMMA ClientPresentsIs ==
  ASSUME Challenges!IInv, AttemptStands, ClientPresents
  PROVE  \E id \in Challenges!Ids, nullifier \in WrittenNullifiers : \E inputs, proof :
           /\ Verify(ClientPrincipal, id, inputs, nullifier, proof)
           /\ proof.key \in Keys \cup {NoKey}
<1>1. PICK method \in Methods, id \in Challenges!Ids, key \in Keys :
        \E proof : /\ Asked(id)
                   /\ ProofStands(method, id, proof, key)
                   /\ client = MadeProof(method, id, proof, key)
  BY DEF AttemptStands, ClientPresents, Challenged
<1>2. PICK proof :
        /\ Asked(id)
        /\ ProofStands(method, id, proof, key)
        /\ client = MadeProof(method, id, proof, key)
  BY <1>1
<1>3. client.id = id /\ client.proof = proof
  BY <1>2 DEF MadeProof
<1> DEFINE c == Reply(id)
           nullifier == [element |-> proof.element, lift |-> 0]
<1>4. c.purpose \in Purposes /\ c.requestNonce \in 0..(MaxChallenges - 1)
  <2>1. c \in Challenges!Challenge
    BY <1>2, IssuedAre DEF Challenges!IInv, Asked, Reply
  <2> QED BY <2>1 DEF Challenges!Challenge, Challenges!Ids
<1>5. nullifier \in WrittenNullifiers
  <2>1. ProverOf(method) \in {Owner0, Owner1}
    BY DEF ProverOf
  <2>2. proof.element = nullifierHash(ProverOf(method).secret, ProverOf(method).id,
                                      fr_from_dec_str(c.purpose), c.requestNonce)
    BY <1>2 DEF ProofStands
  <2> QED BY <1>4, <2>1, <2>2 DEF WrittenNullifiers
<1>6. Verify(ClientPrincipal, id, proof.inputs, nullifier, proof)
  BY <1>3 DEF ClientPresents
<1>7. proof.key \in Keys \cup {NoKey}
  BY <1>2 DEF ProofStands
<1> QED BY <1>5, <1>6, <1>7

\* The store and the cache keep their invariants.
LEMMA ClientKeepsStore ==
  ASSUME Challenges!IInv, AttemptStands, currentRoot \in Roots, (currentRoot \in Roots)',
         [ClientNext]_allVars
  PROVE  Challenges!IInv'
<1>1. [Challenges!Next]_Challenges!vars
  <2>1. CASE [Next]_vars
    BY <2>1, StoreStep
  <2>2. CASE ClientPresents
    BY <2>2, ClientPresentsIs, VerifyIsVerify, OwnersAssumption
  <2> QED BY <2>1, <2>2, ClientStep
<1> QED BY <1>1, ComponentAssumptions, Challenges!NextKeepsIInv

\* With the owners too, the cache follows the key and the log grows by the key
\* in force only.
LEMMA ClientKeepsCache ==
  ASSUME Challenges!IInv, CacheFollows, AttemptStands, [ClientNext]_allVars
  PROVE  /\ CacheFollows'
         /\ \/ acceptedUnder' = acceptedUnder
            \/ /\ acceptedUnder' = Append(acceptedUnder, vkHex)
               /\ vkHex \in Keys
<1>1. CASE [Next]_vars
  BY <1>1, NextKeepsCache
<1>2. CASE ClientPresents
  BY <1>2, ClientPresentsIs, VerifyKeepsCache
<1> QED BY <1>1, <1>2, ClientStep

\* The hashes, the circuit and the programs are the same ones in the component
\* that the records are kept by.
LEMMA SamePrograms ==
  /\ \A record : Records!leafHash(record) = leafHash(record)
  /\ \A leaf, siblings, pathBits :
       Records!Fold(leaf, siblings, pathBits) = Fold(leaf, siblings, pathBits)
  /\ \A owner : Records!leaf_of(owner) = leaf_of(owner)
  /\ \A owner : Records!first_root(owner) = first_root(owner)
  /\ \A leaf0, leaf1 : Records!second_root(leaf0, leaf1) = second_root(leaf0, leaf1)
  /\ Records!second_bits = second_bits
  /\ \A owner : Records!second_path(owner) = second_path(owner)
  /\ \A p : Records!getMerkleProof(p) = Tree!getMerkleProof(p)
<1>1. \A l, r : Records!nodeHash(l, r) = nodeHash(l, r) /\ Tree!nodeHash(l, r) = nodeHash(l, r)
  BY DEF Records!nodeHash, nodeHash, Tree!nodeHash
<1>2. \A record : Records!leafHash(record) = leafHash(record)
  BY DEF Records!leafHash, leafHash
<1>3. \A leaf, siblings, pathBits :
        Records!Fold(leaf, siblings, pathBits) = Fold(leaf, siblings, pathBits)
  BY <1>1 DEF Records!Fold, Fold
<1>4. /\ Records!zeroHashes = zeroHashes
      /\ Tree!zeroHashes = zeroHashes
  BY <1>1 DEF Records!zeroHashes, zeroHashes, Tree!zeroHashes
<1>5. \A owner : Records!leaf_of(owner) = leaf_of(owner)
  BY <1>2 DEF Records!leaf_of, leaf_of, Records!ownerCommitment, ownerCommitment
<1>6. Records!Levels = Levels
  BY DEF Records!Levels, Levels
<1>7. \A owner : Records!first_root(owner) = first_root(owner)
  <2>1. Records!first_path = first_path /\ Records!first_bits = first_bits
    BY <1>4, <1>6 DEF Records!first_path, first_path, Records!first_bits, first_bits
  <2> QED BY <1>3, <1>5, <2>1 DEF Records!first_root, first_root
<1>8. \A leaf0, leaf1 : Records!second_root(leaf0, leaf1) = second_root(leaf0, leaf1)
  BY <1>1, <1>4 DEF Records!second_root, second_root
<1>9. /\ Records!second_bits = second_bits
      /\ \A owner : Records!second_path(owner) = second_path(owner)
  BY <1>4, <1>5, <1>6 DEF Records!second_bits, second_bits, Records!second_path, second_path
<1>10. \A p : Records!getMerkleProof(p) = Tree!getMerkleProof(p)
  <2>1. \A level, index : Records!nodeAt(level, index) = Tree!nodeAt(level, index)
    BY <1>4 DEF Records!nodeAt, Tree!nodeAt
  <2>2. \A index : /\ Records!Sibling(index) = Tree!Sibling(index)
                   /\ Records!Ancestors(index) = Tree!Ancestors(index)
    BY DEF Records!Sibling, Tree!Sibling, Records!Ancestors, Tree!Ancestors
  <2> QED BY <2>1, <2>2 DEF Records!getMerkleProof, Tree!getMerkleProof
<1> QED BY <1>2, <1>3, <1>5, <1>7, <1>8, <1>9, <1>10

\* Whatever program made it, a witness folds its owner's leaf to its root.
LEMMA WitnessReaches ==
  ASSUME Records!IInv, nextLeafIndex <= Records!Capacity,
         NEW method \in Methods, method = "wallet" => OnFile(Owner0)
  PROVE  LET witness == WitnessBy(method)
         IN witness.root = Fold(leaf_of(ProverOf(method)), witness.path, witness.bits)
<1>1. CASE method = "prove"
  BY <1>1 DEF WitnessBy, Witness, ProverOf, first_root
<1>2. CASE method = "prove2"
  <2>1. second_root(leaf_of(Owner0), leaf_of(Owner1))
          = Fold(leaf_of(Owner1), second_path(Owner0), second_bits)
    BY ComponentAssumptions, OwnersAssumption, Records!SecondRootIsFold, SamePrograms
  <2> QED BY <1>2, <2>1 DEF WitnessBy, Witness, ProverOf
<1>3. CASE method = "wallet"
  <2> DEFINE reply == Tree!getMerkleProof(Owner0.id)
  <2>1. Owner0.id \in DOMAIN records /\ leafHash(records[Owner0.id]) = leaf_of(Owner0)
    BY <1>3 DEF OnFile
  <2>2. Fold(leafHash(records[Owner0.id]), reply.siblings, reply.pathBits) = currentRoot
    BY <2>1, ComponentAssumptions, Records!FittingWitnesses, SamePrograms
       DEF Records!WitnessReachesRoot
  <2>3. reply.root = currentRoot
    BY DEF Tree!getMerkleProof
  <2>4. WitnessBy(method) = Witness(reply.root, reply.siblings, reply.pathBits)
    BY <1>3 DEF WitnessBy
  <2>5. ProverOf(method) = Owner0
    BY <1>3 DEF ProverOf
  <2> HIDE DEF reply
  <2> QED BY <2>1, <2>2, <2>3, <2>4, <2>5 DEF Witness
<1> QED BY <1>1, <1>2, <1>3, OwnersAssumption

\* The first five of six public inputs.
LEMMA FirstFive ==
  ASSUME NEW a, NEW b, NEW c, NEW d, NEW e, NEW f
  PROVE  SubSeq(<<a, b, c, d, e, f>>, 1, 5) = <<a, b, c, d, e>>
<1> DEFINE six == <<a, b, c, d, e, f>>
           five == <<a, b, c, d, e>>
           T == {a, b, c, d, e, f}
<1>1. six \in Seq(T) /\ Len(six) = 6 /\ five \in Seq(T) /\ Len(five) = 5
  OBVIOUS
<1>2. \A i \in 1..5 : six[i] = five[i]
  OBVIOUS
<1> HIDE DEF six, five, T
<1>3. /\ SubSeq(six, 1, 5) \in Seq(T)
      /\ Len(SubSeq(six, 1, 5)) = 5
      /\ \A i \in 1..5 : SubSeq(six, 1, 5)[i] = six[i]
  BY <1>1
<1>4. SubSeq(six, 1, 5) = five
  BY <1>1, <1>2, <1>3
<1> QED BY <1>4 DEF six, five

\* So the proof made of it for a challenge that pins its root stands.
LEMMA ProofMadeStands ==
  ASSUME Records!IInv, nextLeafIndex <= Records!Capacity, Challenges!IInv,
         NEW method \in Methods, NEW id \in Challenges!Ids, Asked(id),
         CrossCheck(method, id)
  PROVE  ProofStands(method, id, MakeProof(ProverOf(method), WitnessBy(method), Reply(id)), vkHex)
<1> DEFINE c == Reply(id)
           owner == ProverOf(method)
           witness == WitnessBy(method)
           proof == MakeProof(owner, witness, c)
           inputs == public_inputs(owner, witness.root, AsProved(c))
           w == circuit_of(owner, witness.path, witness.bits)
           purpose == fr_from_dec_str(c.purpose)
<1>1. c \in Challenges!Challenge
  BY IssuedAre DEF Challenges!IInv, Asked, Reply
<1>2. /\ AsProved(c).purpose = purpose
      /\ AsProved(c).requestNonce = c.requestNonce
      /\ AsProved(c).currentTimestamp = c.currentTimestamp
  BY <1>1 DEF AsProved, Challenges!Challenge
<1>3. inputs = <<registryId, c.merkleRoot, purpose, c.requestNonce, c.currentTimestamp,
                 nullifierHash(owner.secret, owner.id, purpose, c.requestNonce)>>
  BY <1>2 DEF public_inputs, CrossCheck
<1>4. SubSeq(inputs, 1, 5)
        = <<registryId, c.merkleRoot, purpose, c.requestNonce, c.currentTimestamp>>
  BY <1>3, FirstFive
<1>5. /\ proof.inputs = SubSeq(inputs, 1, 5)
      /\ proof.element = inputs[6]
      /\ proof.key = IF generate_constraints(inputs, w) THEN vkHex ELSE NoKey
  BY DEF MakeProof
<1>6. ASSUME c.currentTimestamp < owner.expiry
      PROVE  generate_constraints(inputs, w)
  <2>1. owner.expiry \in Fr /\ owner.expiry < TwoN
    BY OwnersAssumption, GadgetAssumption DEF ProverOf, Fr
  <2>2. AsProved(c).currentTimestamp \in Fr
    <3>1. c.currentTimestamp \in Nat
      BY <1>1 DEF Challenges!Challenge
    <3> HIDE DEF c, owner
    <3>2. c.currentTimestamp \in Fr
      BY <1>6, <2>1, <3>1, GadgetAssumption DEF Fr
    <3> QED BY <1>2, <3>2
  <2>3. witness.root = Fold(leaf_of(owner), witness.path, witness.bits)
    BY WitnessReaches DEF CrossCheck
  <2>4. AsProved(c).currentTimestamp < owner.expiry
    BY <1>2, <1>6
  <2> HIDE DEF c, owner, witness
  <2>5. Records!generate_constraints(Records!public_inputs(owner, witness.root, AsProved(c)),
                                     Records!circuit_of(owner, witness.path, witness.bits))
    BY <2>1, <2>2, <2>3, <2>4, ComponentAssumptions, Records!HonestIsSound, SamePrograms
       DEF Records!Fr, Fr
  <2>6. /\ Records!public_inputs(owner, witness.root, AsProved(c)) = inputs
        /\ Records!circuit_of(owner, witness.path, witness.bits) = w
    BY DEF Records!public_inputs, public_inputs, Records!circuit_of, circuit_of,
           Records!nullifierHash, nullifierHash
  <2>7. Records!generate_constraints(inputs, w) <=> generate_constraints(inputs, w)
    BY SamePrograms
       DEF Records!generate_constraints, generate_constraints, Records!not_expired, not_expired,
           Records!enforce_fits_in_bits, enforce_fits_in_bits, Records!enforce_greater_than,
           enforce_greater_than, Records!Bit, Bit, Records!nullifierHash, nullifierHash,
           Records!ownerCommitment, ownerCommitment
  <2> QED BY <2>5, <2>6, <2>7
<1> HIDE DEF c, owner, witness, proof, inputs, w
<1>7. inputs[6] = nullifierHash(owner.secret, owner.id, purpose, c.requestNonce)
  BY <1>3
<1> QED BY <1>4, <1>5, <1>6, <1>7 DEF ProofStands, c, owner, proof, witness

\* A proof that is presented is logged when it is presentable and verifies.
LEMMA VerifyLogs ==
  ASSUME NEW caller, NEW id, NEW inputs, NEW nullifier, NEW proof,
         Verify(caller, id, inputs, nullifier, proof)
  PROVE  /\ UNCHANGED <<issued, filedAtIssue>>
         /\ IF /\ Store!Presentable(id, inputs, nullifier)
               /\ verifyWithReason(getPreparedVk, proof, inputs, nullifier)
              THEN \E receipt : receipts' = Append(receipts, receipt)
              ELSE receipts' = receipts
  BY DEF Verify, Store!Verify, Store!AcceptVerify, Store!RefuseVerify, Store!observerVars

\* What the rest of the world does leaves the owners and the logs alone: it has
\* no proof to present.
LEMMA WorldKeepsLogs ==
  ASSUME World
  PROVE  UNCHANGED <<client, issued, receipts, filedAtIssue>>
<1>1. client' = client
  BY DEF World, Meanwhile
<1>2. CASE ManageAdmins
  BY <1>1, <1>2 DEF ManageAdmins, storeVars, observerVars
<1>3. CASE FileRecord
  BY <1>1, <1>3 DEF FileRecord, SubmitRecord, storeVars
<1>4. ASSUME NEW caller, NEW hex, SetVerifyingKey(caller, hex)
      PROVE  UNCHANGED <<issued, receipts, filedAtIssue>>
  BY <1>4 DEF SetVerifyingKey, storeVars, observerVars
<1>5. CASE OthersCall
  <2>1. PICK caller, id, i : PresentNoProof(caller, id, issued[i].challenge)
    BY <1>5 DEF OthersCall
  <2> DEFINE c == issued[i].challenge
             element == nullifierHash("nobody", "nothing", c.purpose, c.requestNonce)
             proof == NotAProof(Store!Pinned(c), element)
  <2>2. Verify(caller, id, Store!Pinned(c), [element |-> element, lift |-> 0], proof)
    BY <2>1 DEF PresentNoProof
  <2>3. proof.key = NoKey
    BY DEF NotAProof
  <2> HIDE DEF c, element, proof
  <2> QED BY <1>1, <2>2, <2>3, VerifyLogs DEF verifyWithReason
<1>6. CASE Heartbeat
  BY <1>1, <1>6 DEF Heartbeat, Store!Heartbeat, Store!observerVars, observerVars
<1>7. CASE PreUpgrade \/ PostUpgrade \/ UpgradeTraps
  BY <1>1, <1>7 DEF PreUpgrade, PostUpgrade, UpgradeTraps, Store!PreUpgrade, Store!PostUpgrade,
              Store!UpgradeTraps, Store!observerVars, observerVars
<1>8. CASE TimePasses
  BY <1>1, <1>8 DEF TimePasses, Store!TimePasses, Store!storeVars, Store!observerVars, observerVars
<1> QED BY <1>1, <1>2, <1>3, <1>4, <1>5, <1>6, <1>7, <1>8 DEF World

\* An attempt stands as it stood while the replies it was given are kept.
LEMMA RepliesKeepAttempt ==
  ASSUME AttemptStands, client' = client,
         \A i \in DOMAIN issued : i \in DOMAIN issued' /\ issued'[i] = issued[i]
  PROVE  AttemptStands'
<1>1. CASE client.pc \in {"idle", "accepted"}
  BY <1>1 DEF AttemptStands
<1>2. ASSUME NEW method \in Methods, NEW id \in Challenges!Ids,
             Asked(id), client = Challenged(method, id)
      PROVE  AttemptStands'
  BY <1>2 DEF AttemptStands, Asked, Challenged, Challenges!Ids
<1>3. ASSUME NEW method \in Methods, NEW id \in Challenges!Ids, NEW key \in Keys, NEW proof,
             Asked(id), ProofStands(method, id, proof, key),
             client = MadeProof(method, id, proof, key)
      PROVE  AttemptStands'
  <2>1. issued'[id + 1] = issued[id + 1] /\ Asked(id)'
    BY <1>3 DEF Asked
  <2>2. ProofStands(method, id, proof, key)'
    BY <1>3, <2>1 DEF ProofStands, Reply, ProverOf, fr_from_dec_str
  <2>3. client' = MadeProof(method, id, proof, key)
    BY <1>3
  <2> QED BY <2>1, <2>2, <2>3 DEF AttemptStands, MadeProof, Challenges!Ids
<1> QED BY <1>1, <1>2, <1>3 DEF AttemptStands

\* How an attempt goes on.
LEMMA ClientKeepsAttempt ==
  ASSUME Records!IInv, FiledAsSubmitted, nextLeafIndex <= Records!Capacity,
         Challenges!IInv, AttemptStands, NothingAccepted, PinnedRoots, [ClientNext]_allVars
  PROVE  AttemptStands' /\ NothingAccepted'
<1>1. ASSUME UNCHANGED <<client, issued, receipts>>
      PROVE  AttemptStands' /\ NothingAccepted'
  BY <1>1, RepliesKeepAttempt DEF NothingAccepted
<1>2. ASSUME NEW method \in Methods, NEW purpose \in Purposes, ClientRequests(method, purpose)
      PROVE  AttemptStands' /\ NothingAccepted'
  <2>1. RequestChallenge(ClientPrincipal, purpose)
    BY <1>2 DEF ClientRequests
  <2>2. PICK id : id = nextChallengeId
    OBVIOUS
  <2>3. client = Idle /\ client' = Challenged(method, id)
    BY <1>2, <2>2 DEF ClientRequests
  <2>4. id = Len(issued)
    BY <2>2 DEF Challenges!IInv, Challenges!IssuedInOrder
  <2>5. id \in Challenges!Ids
    <3>1. nextChallengeId \in 0..MaxChallenges
      BY DEF Challenges!IInv, Challenges!TypeOK
    <3>2. nextChallengeId < MaxChallenges
      BY <2>1 DEF RequestChallenge, Store!RequestChallenge, Store!InBounds
    <3> QED BY <2>2, <3>1, <3>2, RegistryAssumption DEF Challenges!Ids
  <2>6. id + 1 \in DOMAIN issued' /\ receipts' = receipts
    BY <2>1, <2>4, RequestIs DEF PinnedRoots
  <2>7. AttemptStands'
    BY <2>3, <2>5, <2>6 DEF AttemptStands, Asked, Challenged, Challenges!Ids
  <2>8. NothingAccepted'
    BY <2>3, <2>6 DEF NothingAccepted, Idle
  <2> QED BY <2>7, <2>8
<1>3. CASE ClientProves
  <2>1. UNCHANGED vars /\ client.pc = "challenged"
    BY <1>3 DEF ClientProves
  <2>2. UNCHANGED <<issued, receipts>>
    BY <2>1 DEF vars, storeVars
  <2>3. PICK method \in Methods, id \in Challenges!Ids :
          Asked(id) /\ client = Challenged(method, id)
    BY <2>1 DEF AttemptStands, MadeProof
  <2>4. client.method = method /\ client.id = id
    BY <2>3 DEF Challenged
  <2>5. CASE ~CrossCheck(method, id)
    <3>1. client' = Idle
      BY <1>3, <2>4, <2>5 DEF ClientProves
    <3> QED BY <2>1, <2>2, <3>1 DEF AttemptStands, NothingAccepted, Idle
  <2>6. CASE CrossCheck(method, id)
    <3> DEFINE proof == MakeProof(ProverOf(method), WitnessBy(method), Reply(id))
    <3>1. client' = MadeProof(method, id, proof, vkHex)
      BY <1>3, <2>4, <2>6 DEF ClientProves, Proved, MadeProof
    <3>2. ProofStands(method, id, proof, vkHex) /\ vkHex \in Keys
      BY <2>3, <2>6, ProofMadeStands DEF CrossCheck
    <3> HIDE DEF proof
    <3>3. PICK made, key : made = proof /\ key = vkHex
      OBVIOUS
    <3>4. Asked(id)' /\ ProofStands(method, id, made, key)'
      BY <2>2, <2>3, <3>2, <3>3 DEF Asked, ProofStands, Reply, ProverOf, fr_from_dec_str
    <3>5. key \in Keys /\ client' = MadeProof(method, id, made, key)
      BY <3>1, <3>2, <3>3
    <3>6. AttemptStands'
      BY <3>4, <3>5 DEF AttemptStands, MadeProof, Challenges!Ids
    <3> QED BY <2>1, <2>2, <3>5, <3>6 DEF NothingAccepted, MadeProof
  <2> QED BY <2>5, <2>6
<1>4. CASE ClientPresents
  <2>1. UNCHANGED issued /\ \/ receipts' = receipts
                            \/ \E receipt : receipts' = Append(receipts, receipt)
    BY <1>4, VerifyLogs DEF ClientPresents
  <2>2. receipts = <<>>
    BY <1>4 DEF ClientPresents, NothingAccepted
  <2>3. PICK method, id, proof, key : client = MadeProof(method, id, proof, key)
    BY <1>4 DEF ClientPresents, AttemptStands, Challenged
  <2>4. CASE Len(receipts') > Len(receipts)
    <3>1. client'.pc = "accepted"
      BY <1>4, <2>3, <2>4 DEF ClientPresents, MadeProof
    <3> QED BY <3>1 DEF AttemptStands, NothingAccepted
  <2>5. CASE ~(Len(receipts') > Len(receipts))
    <3>1. client' = Idle
      BY <1>4, <2>5 DEF ClientPresents
    <3>2. receipts' = <<>>
      BY <2>1, <2>2, <2>5
    <3> QED BY <3>1, <3>2 DEF AttemptStands, NothingAccepted, Idle
  <2> QED BY <2>4, <2>5
<1>5. CASE World \/ UNCHANGED allVars
  BY <1>1, <1>5, WorldKeepsLogs DEF allVars, vars, storeVars
<1> QED BY <1>2, <1>3, <1>4, <1>5 DEF ClientNext

\* What a challenge pinned stays pinned, and a new one pins what is on file.
LEMMA ClientKeepsPins ==
  ASSUME Records!IInv, Records!Counted, FiledAsSubmitted, nextLeafIndex <= Records!Capacity,
         Challenges!IInv, PinnedRoots, [ClientNext]_allVars
  PROVE  PinnedRoots'
<1>1. ASSUME NEW root, NEW file, Records!Pins(root, file)
      PROVE  Records!Pins(root, file)'
  BY <1>1, ComponentAssumptions, ClientRecordStep, Records!PinsStay
<1>2. CASE UNCHANGED <<issued, filedAtIssue>>
  <2>1. ASSUME NEW i \in DOMAIN issued'
        PROVE  Records!Pins(issued[i].challenge.merkleRoot, filedAtIssue[i])'
    <3>1. PICK root, file : root = issued[i].challenge.merkleRoot /\ file = filedAtIssue[i]
      OBVIOUS
    <3>2. Records!Pins(root, file)'
      BY <1>1, <1>2, <2>1, <3>1 DEF PinnedRoots
    <3>3. root = issued'[i].challenge.merkleRoot /\ file = filedAtIssue'[i]
      BY <1>2, <3>1
    <3> QED BY <3>2, <3>3
  <2> QED BY <1>2, <2>1 DEF PinnedRoots
<1>3. ASSUME NEW method, NEW purpose, ClientRequests(method, purpose)
      PROVE  PinnedRoots'
  <2>1. RequestChallenge(ClientPrincipal, purpose)
    BY <1>3 DEF ClientRequests
  <2>2. /\ Len(issued) \in Nat
        /\ DOMAIN issued = 1..Len(issued)
        /\ DOMAIN issued' = 1..(Len(issued) + 1)
        /\ Len(issued') = Len(issued) + 1
        /\ issued'[Len(issued) + 1].challenge = Store!NewChallenge(purpose)
        /\ filedAtIssue' \in Seq(Files)
        /\ Len(filedAtIssue') = Len(issued) + 1
        /\ filedAtIssue'[Len(issued) + 1] = records
        /\ \A i \in DOMAIN issued : issued'[i] = issued[i] /\ filedAtIssue'[i] = filedAtIssue[i]
    BY <2>1, RequestIs DEF PinnedRoots
  <2>3. ASSUME NEW i \in DOMAIN issued'
        PROVE  Records!Pins(issued[i].challenge.merkleRoot, filedAtIssue[i])'
    <3>1. PICK root, file : root = issued'[i].challenge.merkleRoot /\ file = filedAtIssue'[i]
      OBVIOUS
    <3>2. Records!Pins(root, file)
      <4>1. CASE i \in DOMAIN issued
        BY <2>2, <3>1, <4>1 DEF PinnedRoots
      <4>2. CASE i = Len(issued) + 1
        <5>1. root = currentRoot /\ file = records
          BY <2>2, <3>1, <4>2 DEF Store!NewChallenge
        <5> QED BY <5>1, ComponentAssumptions, Records!RecordsPin
      <4> QED BY <2>2, <4>1, <4>2
    <3>3. Records!Pins(root, file)'
      BY <1>1, <3>2
    <3> QED BY <3>1, <3>3
  <2> QED BY <2>2, <2>3 DEF PinnedRoots
<1>4. ClientProves \/ UNCHANGED allVars => UNCHANGED <<issued, filedAtIssue>>
  BY DEF ClientProves, allVars, vars, storeVars, observerVars
<1>5. ClientPresents => UNCHANGED <<issued, filedAtIssue>>
  BY VerifyLogs DEF ClientPresents
<1> QED BY <1>2, <1>3, <1>4, <1>5, WorldKeepsLogs DEF ClientNext

\* The invariant of the owners and the registry.
ClientIInv ==
  /\ Records!IInv
  /\ Records!Counted
  /\ Challenges!IInv
  /\ CacheFollows
  /\ AttemptStands
  /\ NothingAccepted
  /\ PinnedRoots

\* It holds as long as no index outgrows the tree.
LEMMA ClientInvariance ==
  ASSUME IsFiniteSet(Properties), Cardinality(Properties) <= Records!Capacity
  PROVE  ClientSpec => [](ClientIInv /\ nextLeafIndex <= Records!Capacity)
<1>1. Records!Counted => nextLeafIndex <= Records!Capacity
  <2>1. Records!IsFiniteSet(Properties)
    BY DEF IsFiniteSet, Records!IsFiniteSet
  <2>2. Records!Cardinality(Properties) = Cardinality(Properties)
    BY DEF Cardinality, Records!Cardinality
  <2> QED BY <2>1, <2>2, ComponentAssumptions, Records!CountedFits
<1>2. ClientInit /\ currentRoot \in Roots
        => /\ Challenges!IInv /\ CacheFollows
           /\ AttemptStands /\ NothingAccepted /\ PinnedRoots
  <2>1. ClientInit => AttemptStands /\ NothingAccepted /\ PinnedRoots
    BY DEF ClientInit, Init, Store!StoreInit, Idle, AttemptStands, NothingAccepted, PinnedRoots
  <2>2. Init /\ currentRoot \in Roots => Challenges!IInv
    BY InitStore, ComponentAssumptions, Challenges!InitIInv
  <2> QED BY <2>1, <2>2, InitCacheFollows DEF ClientInit
<1>3. ASSUME Records!IInv, Records!Counted, FiledAsSubmitted,
             currentRoot \in Roots, (currentRoot \in Roots)',
             Challenges!IInv, CacheFollows, AttemptStands, NothingAccepted, PinnedRoots,
             [ClientNext]_allVars
      PROVE  /\ Challenges!IInv' /\ CacheFollows'
             /\ AttemptStands' /\ NothingAccepted' /\ PinnedRoots'
  BY <1>1, <1>3, ClientKeepsStore, ClientKeepsCache, ClientKeepsAttempt, ClientKeepsPins
<1> QED BY <1>1, <1>2, <1>3, ClientRecords, PTL DEF ClientSpec, ClientIInv

\* A program that was given the tree it is for finds its root pinned.
LEMMA FittingLayoutChecks ==
  ASSUME Records!IInv, nextLeafIndex <= Records!Capacity, PinnedRoots,
         NEW method \in Methods, NEW id, Asked(id), vkHex \in Keys,
         LayoutFits(method, filedAtIssue[id + 1])
  PROVE  CrossCheck(method, id)
<1> DEFINE root == Reply(id).merkleRoot
           file == filedAtIssue[id + 1]
<1>1. Records!Pins(root, file)
  BY DEF PinnedRoots, Asked, Reply
<1> HIDE DEF root, file
<1>2. CASE method = "prove"
  <2>1. DOMAIN file = {Owner0.id} /\ leafHash(file[Owner0.id]) = leaf_of(Owner0)
    BY <1>2 DEF LayoutFits, Filed, file
  <2>2. root = first_root(Owner0)
    BY <1>1, <2>1, ComponentAssumptions, Records!PinnedIsFirst, SamePrograms
  <2> QED BY <1>2, <2>2 DEF CrossCheck, WitnessBy, Witness, root
<1>3. CASE method = "prove2"
  <2>1. /\ DOMAIN file = {Owner0.id, Owner1.id}
        /\ leafHash(file[Owner0.id]) = leaf_of(Owner0)
        /\ leafHash(file[Owner1.id]) = leaf_of(Owner1)
        /\ leafIndexByProperty[Owner0.id] = 0
    BY <1>3 DEF LayoutFits, Filed, file
  <2>2. root = second_root(leaf_of(Owner0), leaf_of(Owner1))
    BY <1>1, <2>1, ComponentAssumptions, OwnersAssumption, Records!PinnedIsSecond, SamePrograms
  <2> QED BY <1>3, <2>2 DEF CrossCheck, WitnessBy, Witness, root
<1>4. CASE method = "wallet"
  <2>1. records = file /\ OnFile(Owner0)
    BY <1>4 DEF LayoutFits, Filed, file, OnFile
  <2>2. root = currentRoot
    BY <1>1, <2>1, ComponentAssumptions, Records!PinnedIsCurrent
  <2>3. Tree!getMerkleProof(Owner0.id).root = currentRoot
    BY DEF Tree!getMerkleProof
  <2> QED BY <1>4, <2>1, <2>2, <2>3 DEF CrossCheck, WitnessBy, Witness, root
<1> QED BY <1>2, <1>3, <1>4, OwnersAssumption

\* A proof that stands is accepted, unless there is an excuse.
LEMMA StandingProofIsAccepted ==
  ASSUME ClientIInv, ClientPresents, ~Excused
  PROVE  Len(receipts') > Len(receipts)
<1>1. PICK method \in Methods, id \in Challenges!Ids, key \in Keys :
        \E proof : /\ Asked(id)
                   /\ ProofStands(method, id, proof, key)
                   /\ client = MadeProof(method, id, proof, key)
  BY DEF ClientIInv, AttemptStands, ClientPresents, Challenged
<1>2. PICK proof :
        /\ Asked(id)
        /\ ProofStands(method, id, proof, key)
        /\ client = MadeProof(method, id, proof, key)
  BY <1>1
<1>3. /\ client.pc = "proved" /\ client.method = method /\ client.id = id
      /\ client.proof = proof /\ client.madeFor = key
  BY <1>2 DEF MadeProof
<1> DEFINE c == Reply(id)
           nullifier == [element |-> proof.element, lift |-> 0]
<1>4. /\ ~(now > c.expiresAt)
      /\ vkHex = key
      /\ c.purpose \in Fr
      /\ ~(c.currentTimestamp >= ProverOf(method).expiry)
  BY <1>3 DEF Excused
<1>5. c \in Challenges!Challenge
  BY <1>2, IssuedAre DEF ClientIInv, Challenges!IInv, Asked, Reply
<1>6. proof.key = key
  <2>1. c.currentTimestamp \in Nat
    BY <1>5 DEF Challenges!Challenge
  <2>2. ProverOf(method).expiry \in Nat
    BY OwnersAssumption, GadgetAssumption DEF ProverOf
  <2>3. c.currentTimestamp < ProverOf(method).expiry
    BY <1>4, <2>1, <2>2
  <2> QED BY <1>2, <2>3 DEF ProofStands
<1>7. /\ id \in DOMAIN challenges
      /\ challenges[id] = [c EXCEPT !.consumed = Challenges!Accepted(id)]
  <2>1. id \in 0..(nextChallengeId - 1)
    BY <1>2, IssuedAre DEF ClientIInv, Challenges!IInv, Challenges!IssuedInOrder, Asked,
                           Challenges!Ids
  <2>2. id \notin 0..(oldestUnprunedChallengeId - 1)
    BY <1>4 DEF ClientIInv, Challenges!IInv, Challenges!OnFile, Challenges!Expired, Reply
  <2>3. oldestUnprunedChallengeId \in Nat /\ nextChallengeId \in Nat
    BY RegistryAssumption DEF ClientIInv, Challenges!IInv, Challenges!TypeOK
  <2>4. id \in oldestUnprunedChallengeId..(nextChallengeId - 1)
    BY <2>1, <2>2, <2>3
  <2> QED BY <2>4 DEF ClientIInv, Challenges!IInv, Challenges!OnFile, Reply
<1>8. Store!Presentable(id, proof.inputs, nullifier)
  <2>1. receipts = <<>>
    BY <1>3 DEF ClientIInv, NothingAccepted
  <2>2. ~Challenges!Accepted(id)
    BY <2>1 DEF Challenges!Accepted
  <2>3. ~challenges[id].consumed /\ ~Store!Expired(challenges[id])
    BY <1>4, <1>5, <1>7, <2>2 DEF Challenges!Challenge, Store!Expired
  <2>4. proof.inputs = Store!Pinned(challenges[id])
    <3>1. fr_from_dec_str(c.purpose) = c.purpose
      BY <1>4, GadgetAssumption DEF Fr, fr_from_dec_str
    <3>2. proof.inputs = <<c.registryId, c.merkleRoot, c.purpose, c.requestNonce,
                           c.currentTimestamp>>
      BY <1>2, <1>5, <3>1 DEF ProofStands, Challenges!Challenge
    <3> QED BY <1>5, <1>7, <3>2 DEF Store!Pinned, Challenges!Challenge
  <2>5. ~Store!Spent(nullifier)
    BY <2>1 DEF Store!Spent, ClientIInv, Challenges!IInv, Challenges!SpentIsAccepted,
                Challenges!TypeOK, Challenges!Spent
  <2> QED BY <1>7, <2>3, <2>4, <2>5 DEF Store!Presentable
<1>9. verifyWithReason(getPreparedVk, proof, proof.inputs, nullifier)
  <2>1. key # NoKey /\ vkHex # NoKey
    BY <1>4, KeyAssumption
  <2>2. getPreparedVk = parseAndPrepareVk(vkHex)
    BY <2>1 DEF getPreparedVk, ClientIInv, CacheFollows
  <2> QED BY <1>4, <1>6, <2>1, <2>2 DEF verifyWithReason
<1>10. Verify(ClientPrincipal, id, proof.inputs, nullifier, proof)
  BY <1>3 DEF ClientPresents
<1> HIDE DEF nullifier
<1>11. PICK receipt : receipts' = Append(receipts, receipt)
  BY <1>8, <1>9, <1>10, VerifyLogs
<1>12. receipts = <<>>
  BY <1>3 DEF ClientIInv, NothingAccepted
<1> QED BY <1>11, <1>12

\* An owner whose record is clean is turned away only for a reason outside of
\* the protocol, whatever is filed, issued, pruned, presented by others and
\* upgraded in between (main.mo:261-450, prove_live.rs:16-33, 281-310).
THEOREM OwnersHonestAttemptHonoured ==
  ASSUME IsFiniteSet(Properties), Cardinality(Properties) <= Records!Capacity
  PROVE  ClientSpec => HonestAttemptHonoured
<1>1. ASSUME ClientIInv, nextLeafIndex <= Records!Capacity, [ClientNext]_allVars,
             client.pc # "idle", client'.pc = "idle"
      PROVE  Excused
  <2>1. client' # client
    BY <1>1
  <2>2. ASSUME NEW method, NEW purpose, ClientRequests(method, purpose)
        PROVE  FALSE
    BY <1>1, <2>2 DEF ClientRequests, Idle
  <2>3. CASE ClientProves
    <3>1. client.pc = "challenged"
      BY <2>3 DEF ClientProves
    <3>2. PICK method \in Methods, id \in Challenges!Ids :
            Asked(id) /\ client = Challenged(method, id)
      BY <1>1, <3>1 DEF ClientIInv, AttemptStands, MadeProof
    <3>3. client.method = method /\ client.id = id
      BY <3>2 DEF Challenged
    <3>4. ~CrossCheck(method, id)
      BY <1>1, <2>3, <3>3 DEF ClientProves, Proved
    <3>5. vkHex \notin Keys \/ ~LayoutFits(method, filedAtIssue[id + 1])
      BY <1>1, <3>2, <3>4, FittingLayoutChecks DEF ClientIInv
    <3> QED BY <3>1, <3>3, <3>5 DEF Excused
  <2>4. CASE ClientPresents
    <3>1. PICK method, id, proof, key : client = MadeProof(method, id, proof, key)
      BY <1>1, <2>4 DEF ClientPresents, ClientIInv, AttemptStands, Challenged
    <3>2. ~(Len(receipts') > Len(receipts))
      BY <1>1, <2>4, <3>1 DEF ClientPresents, MadeProof
    <3> QED BY <1>1, <2>4, <3>2, StandingProofIsAccepted
  <2> QED BY <1>1, <2>1, <2>2, <2>3, <2>4, WorldKeepsLogs DEF ClientNext, allVars
<1>2. ClientIInv /\ nextLeafIndex <= Records!Capacity /\ [ClientNext]_allVars
        => [client.pc # "idle" /\ client'.pc = "idle" => Excused]_allVars
  BY <1>1
<1> QED BY <1>2, ClientInvariance, PTL DEF ClientSpec, HonestAttemptHonoured

\* With the owners too, a proof is accepted only under the key in force: what
\* they present was made for the key of its moment, which may be gone by then
\* (main.mo:357-378).  The tree that fits is what ClientIInv asks for.
THEOREM OwnersKeyInForce ==
  ASSUME IsFiniteSet(Properties), Cardinality(Properties) <= Records!Capacity
  PROVE  ClientSpec => KeyInForce
<1>1. ASSUME ClientIInv, [ClientNext]_allVars, Len(acceptedUnder') > Len(acceptedUnder)
      PROVE  acceptedUnder'[Len(acceptedUnder')] = vkHex
  <2>1. acceptedUnder \in Seq(Keys)
    BY <1>1 DEF ClientIInv, CacheFollows
  <2>2. acceptedUnder' # acceptedUnder
    BY <1>1, <2>1
  <2> QED BY <1>1, <2>1, <2>2, ClientKeepsCache DEF ClientIInv
<1>2. ClientIInv /\ [ClientNext]_allVars
        => [Len(acceptedUnder') > Len(acceptedUnder)
             => acceptedUnder'[Len(acceptedUnder')] = vkHex]_vars
  BY <1>1
<1> QED BY <1>2, ClientInvariance, PTL DEF ClientSpec, KeyInForce
=============================================================================
