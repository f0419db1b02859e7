--------------------------- MODULE TitleRegistry ----------------------------
(***************************************************************************)
(* The whole TitleRegistry canister: the admin list, the records and their *)
(* Merkle tree, the challenge store, and the verifying key, composed the   *)
(* way main.mo composes them, with the provers that call verify.           *)
(*                                                                         *)
(* Groth16 is ideal: a proof verifies under the key it was made for, for   *)
(* the public inputs it was made for, and can be made only when the        *)
(* circuit's constraints are satisfiable for those inputs.  The verifier   *)
(* reduces each public input modulo the field order, so a nullifier n and  *)
(* n + r are one field element to it and two keys to the nullifier store.  *)
(***************************************************************************)
EXTENDS TitleHashes, Sequences, FiniteSets

CONSTANTS
  Principals, Anonymous,
  Officials,                        \* bound: who appears in admin calls
  Properties, Secrets, Filings,     \* Filings: what a record can say
  Purposes,
  Keys, OddKeys, BadKeys, NoKey,    \* texts that are a key of the circuit; that parse
                                    \* as a key with other than seven points; neither
  MIN_CALL_INTERVAL, CHALLENGE_TTL, SECOND, MAX_PRUNE,
  Lifts,                            \* multiples of r added to a nullifier
  MaxTime, MaxChallenges, MaxGrants, MaxFilings

ASSUME RegistryAssumption ==
  /\ IsFiniteSet(Principals) /\ Anonymous \in Principals /\ Officials \subseteq Principals
  /\ MIN_CALL_INTERVAL \in Nat \ {0} /\ CHALLENGE_TTL \in Nat
  /\ SECOND \in Nat \ {0} /\ MAX_PRUNE \in Nat \ {0}
  /\ MaxTime \in Nat /\ MaxChallenges \in Nat /\ MaxGrants \in Nat

ASSUME FilingAssumption == \A f \in Filings : f.secret \in Secrets

\* null is not a prepared key, nor a text that parses as one.
ASSUME KeyAssumption == \A hex \in Keys \cup OddKeys : NoKey # <<"prepared", hex>> /\ NoKey # hex

VARIABLES
  now, phase,
  admins, adminsEntries, grants,
  records, leafIndexByProperty, nodes, currentRoot, nextLeafIndex,
  recordsEntries, leafIndexEntries, nodesEntries,
  challenges, nextChallengeId, nextNonce, oldestUnprunedChallengeId,
  nullifiers, lastChallengeCallAt, lastVerifyCallAt,
  challengeEntries, spentNullifiers,
  challengeThrottleEntries, verifyThrottleEntries,
  issued, receipts,
  vkHex, preparedVkCache,
  \* observers: the records on file when each challenge was issued, the key
  \* each proof was accepted under, and how many records have been filed
  filedAtIssue, acceptedUnder, filings

canisterVars == <<now, phase>>
adminVars == <<admins, adminsEntries, grants>>
treeVars == <<records, leafIndexByProperty, nodes, currentRoot, nextLeafIndex,
              recordsEntries, leafIndexEntries, nodesEntries>>
storeVars == <<challenges, nextChallengeId, nextNonce, oldestUnprunedChallengeId,
               nullifiers, lastChallengeCallAt, lastVerifyCallAt,
               challengeEntries, spentNullifiers,
               challengeThrottleEntries, verifyThrottleEntries,
               issued, receipts>>
keyVars == <<vkHex, preparedVkCache>>
observerVars == <<filedAtIssue, acceptedUnder, filings>>
vars == <<canisterVars, adminVars, treeVars, storeVars, keyVars, observerVars>>

Admin == INSTANCE AdminList

\* A record as an admin files it: a filing names the owner by its secret.
RecordOf(p, f) ==
  [ownerCommitment |-> ownerCommitment(f.secret, p),
   encumbranceFlag |-> f.encumbranceFlag, licenseStatus |-> f.licenseStatus,
   licenseExpiry |-> f.licenseExpiry]

Tree == INSTANCE SparseMerkleTree
          WITH Owners <- {ownerCommitment(s, p) : s \in Secrets, p \in Properties},
               Flags <- {f.encumbranceFlag : f \in Filings},
               Statuses <- {f.licenseStatus : f \in Filings},
               Expiries <- {f.licenseExpiry : f \in Filings}

\* A nullifier as the caller writes it: a field element plus a multiple of r.
NullifierTexts ==
  {[element |-> nullifierHash(s, p, purpose, nonce), lift |-> k] :
     s \in Secrets, p \in Properties, purpose \in Purposes,
     nonce \in 0..(MaxChallenges - 1), k \in Lifts}

Store == INSTANCE ChallengeStore
           WITH Roots <- {}, Nullifiers <- NullifierTexts

Init == /\ Admin!Init
        /\ Tree!Init
        /\ Store!StoreInit
        /\ vkHex = NoKey
        /\ preparedVkCache = NoKey
        /\ filedAtIssue = <<>>
        /\ acceptedUnder = <<>>
        /\ filings = 0
-----------------------------------------------------------------------------
ManageAdmins ==
  /\ \E caller, p \in Officials : \/ Admin!bootstrapAdmin(caller, p)
                                  \/ Admin!addAdmin(caller, p)
                                  \/ Admin!removeAdmin(caller, p)
  /\ UNCHANGED <<treeVars, storeVars, keyVars, observerVars>>

SubmitRecord(caller, p, record) ==
  /\ Admin!isAdmin(caller)
  /\ filings < MaxFilings
  /\ Tree!submitRecord(p, record)
  /\ filings' = filings + 1
  /\ UNCHANGED <<adminVars, storeVars, keyVars, filedAtIssue, acceptedUnder>>

RequestChallenge(caller, purpose) ==
  /\ Store!RequestChallenge(caller, purpose)
  /\ filedAtIssue' = Append(filedAtIssue, records)
  /\ UNCHANGED <<adminVars, treeVars, keyVars, acceptedUnder, filings>>
-----------------------------------------------------------------------------
\* Groth16.parseAndPrepareVk: null on a text that is no valid key.
parseAndPrepareVk(hex) == IF hex \in Keys \cup OddKeys THEN <<"prepared", hex>> ELSE NoKey

\* Mutant: the cache is left as it was.
SetVerifyingKey_StaleCache(caller, hex) ==
  /\ Store!Running
  /\ Admin!isAdmin(caller)
  /\ parseAndPrepareVk(hex) # NoKey
  /\ vkHex' = hex
  /\ UNCHANGED <<canisterVars, adminVars, treeVars, storeVars, observerVars,
                 preparedVkCache>>

SetVerifyingKey(caller, hex) ==
  /\ Store!Running
  /\ Admin!isAdmin(caller)
  /\ parseAndPrepareVk(hex) # NoKey
  /\ vkHex' = hex
  /\ preparedVkCache' = parseAndPrepareVk(hex)
  /\ UNCHANGED <<canisterVars, adminVars, treeVars, storeVars, observerVars>>

\* What getPreparedVk returns, which is also what it leaves in the cache.
getPreparedVk ==
  IF preparedVkCache # NoKey THEN preparedVkCache
  ELSE IF vkHex = NoKey THEN NoKey ELSE parseAndPrepareVk(vkHex)
-----------------------------------------------------------------------------
\* generate_constraints, for the private witness (secret, p, leaf's opening):
\* the constraints fix the leaf's flag to 0 and its status to 1.
Satisfies(inputs, element, secret, p) ==
  /\ \E leaf \in Tree!LeavesUnder(inputs[2]) :
       /\ leaf[1] = "leaf"
       /\ leaf[2] = inputs[1]
       /\ leaf[3] = ownerCommitment(secret, p)
       /\ leaf[4] = 0
       /\ leaf[5] = 1
       /\ leaf[6] > inputs[5]
  /\ element = nullifierHash(secret, p, inputs[3], inputs[4])

\* The proofs that can be made of five public inputs, by anyone.
Proofs(inputs) ==
  UNION {{[key |-> key, inputs |-> inputs, element |-> element] :
            key \in Keys,
            element \in {e \in {nullifierHash(s, p, inputs[3], inputs[4])} :
                           Satisfies(inputs, e, s, p)}} :
           s \in Secrets, p \in Properties}

\* Something of the shape of a proof that verifies under no key.
NotAProof(inputs, element) ==
  [key |-> NoKey, inputs |-> inputs, element |-> element]

\* Groth16.verifyWithReason: every input counts modulo r only, and a key for
\* another number of inputs verifies nothing.
verifyWithReason(preparedVk, proof, inputs, nullifier) ==
  /\ proof.key # NoKey
  /\ preparedVk = parseAndPrepareVk(proof.key)
  /\ proof.inputs = inputs
  /\ proof.element = nullifier.element

\* A call that gets as far as the verifier fills the cache, whatever follows.
Verify(caller, id, inputs, nullifier, proof) ==
  /\ LET valid == verifyWithReason(getPreparedVk, proof, inputs, nullifier)
         reachesVerifier == Store!Presentable(id, inputs, nullifier)
     IN /\ Store!Verify(caller, id, inputs, nullifier, valid)
        /\ preparedVkCache' = IF reachesVerifier THEN getPreparedVk
                                                 ELSE preparedVkCache
        /\ acceptedUnder' = IF reachesVerifier /\ valid
                              THEN Append(acceptedUnder, proof.key)
                              ELSE acceptedUnder
  /\ UNCHANGED <<adminVars, treeVars, vkHex, filedAtIssue, filings>>

\* The root of a tree that holds one leaf only, which anyone can build.
OneLeafRoot(leaf) ==
  LET root[level \in 0..treeDepth] ==
        IF level = 0 THEN leaf
        ELSE nodeHash(root[level - 1], zeroHashes[level - 1])
  IN root[treeDepth]

FabricatedRoots ==
  {OneLeafRoot(leafHash(RecordOf(p, f))) : p \in Properties, f \in Filings}

PresentNoProof(caller, id, c) ==
  LET element == nullifierHash("nobody", "nothing", c.purpose, c.requestNonce)
  IN Verify(caller, id, Store!Pinned(c), [element |-> element, lift |-> 0],
            NotAProof(Store!Pinned(c), element))

\* What a caller may put before verify: a proof of some challenge's inputs, or
\* of the same inputs under a tree of its own, or no proof, for any challenge.
Present ==
  \E caller \in Principals, id \in 0..(MaxChallenges - 1), i \in DOMAIN issued :
    LET pinned == Store!Pinned(issued[i].challenge)
    IN \/ \E root \in {pinned[2]} \cup FabricatedRoots :
            LET inputs == [pinned EXCEPT ![2] = root]
            IN \E proof \in Proofs(inputs), k \in Lifts :
                 Verify(caller, id, inputs, [element |-> proof.element, lift |-> k], proof)
       \/ PresentNoProof(caller, id, issued[i].challenge)
-----------------------------------------------------------------------------
TimePasses == /\ Store!TimePasses
              /\ UNCHANGED <<adminVars, treeVars, keyVars, observerVars>>

Heartbeat == /\ Store!Heartbeat
             /\ UNCHANGED <<adminVars, treeVars, keyVars, observerVars>>

PreUpgrade == /\ Admin!PreUpgrade
              /\ Tree!PreUpgrade
              /\ Store!PreUpgrade
              /\ UNCHANGED <<keyVars, observerVars>>

\* vkHex is stable; the cache is transient and starts empty again.
PostUpgrade == /\ Admin!PostUpgrade
               /\ Tree!PostUpgrade
               /\ Store!PostUpgrade
               /\ preparedVkCache' = NoKey
               /\ UNCHANGED <<vkHex, observerVars>>

UpgradeTraps == /\ Admin!UpgradeTraps
                /\ Tree!UpgradeTraps
                /\ Store!UpgradeTraps
                /\ UNCHANGED <<keyVars, observerVars>>

Next ==
  \/ ManageAdmins
  \/ \E caller \in Officials, p \in Properties, f \in Filings :
       SubmitRecord(caller, p, RecordOf(p, f))
  \/ \E caller \in Officials, hex \in Keys \cup OddKeys \cup BadKeys : SetVerifyingKey(caller, hex)
  \/ \E caller \in Principals, purpose \in Purposes : RequestChallenge(caller, purpose)
  \/ Present
  \/ Heartbeat
  \/ PreUpgrade
  \/ PostUpgrade
  \/ UpgradeTraps
  \/ TimePasses

Spec == Init /\ [][Next]_vars
-----------------------------------------------------------------------------
\* The claim verify's #ok makes: at the moment the challenge was issued, at
\* most one lifetime ago, the registry had on file an unencumbered, licensed
\* and unexpired record of a property whose owner made the proof.  Later
\* records of the property, replaced keys and upgrades do not change that.
AcceptedWasClean ==
  \A i \in DOMAIN receipts :
    LET request == issued[receipts[i].challengeId + 1]
        onFile == filedAtIssue[receipts[i].challengeId + 1]
        c == request.challenge
    IN /\ receipts[i].at - request.at <= CHALLENGE_TTL
       /\ \E secret \in Secrets, p \in DOMAIN onFile :
            /\ receipts[i].nullifier.element =
                 nullifierHash(secret, p, c.purpose, c.requestNonce)
            /\ onFile[p].ownerCommitment = ownerCommitment(secret, p)
            /\ onFile[p].encumbranceFlag = 0
            /\ onFile[p].licenseStatus = 1
            /\ onFile[p].licenseExpiry > c.currentTimestamp

\* No two acceptances carry the same nullifier as a field element, although
\* the store compares what the caller wrote and the verifier only the residue
\* ("a nullifier can only ever be spent once", README.md).
ElementSpentOnce ==
  \A i, j \in DOMAIN receipts :
    i # j => receipts[i].nullifier.element # receipts[j].nullifier.element

\* An owner is never turned away for a spent nullifier: for a challenge that
\* is still open, no nullifier that a proof of it can carry is on file.
OpenIsUnspent ==
  \A id \in DOMAIN challenges : ~challenges[id].consumed =>
    \A n \in DOMAIN nullifiers :
      <<n.element[4], n.element[5]>>
        # <<challenges[id].purpose, challenges[id].requestNonce>>

\* A proof is accepted only under the key that is configured at that moment,
\* however the cache came to hold it (preparedVkCache, main.mo:357-364).
KeyInForce ==
  [][Len(acceptedUnder') > Len(acceptedUnder)
       => acceptedUnder'[Len(acceptedUnder')] = vkHex]_vars
=============================================================================
