------------------------ MODULE ChallengeStoreProofs ------------------------
(***************************************************************************)
(* The challenge store's safety for any lifetime, throttle interval, sweep *)
(* bound and set of clients, and any number of calls, sweeps and upgrades. *)
(*                                                                         *)
(* None of the properties is inductive: that no challenge is accepted      *)
(* twice depends on what the store keeps, what it keeps on where the sweep *)
(* stops, and that on the ids being issued in the order of their expiry.   *)
(* IInv puts these together and is preserved as a whole.                   *)
(***************************************************************************)
EXTENDS ChallengeStore, DataProofs, FiniteSetTheorems, TLAPS

Restorable ==
  /\ IsMap(challenges)
  /\ IsMap(nullifiers)
  /\ IsMap(lastChallengeCallAt)
  /\ IsMap(lastVerifyCallAt)
  /\ phase = "upgrading" => /\ challengeEntries = Entries(challenges)
                            /\ spentNullifiers = Entries(nullifiers)
                            /\ challengeThrottleEntries = Entries(lastChallengeCallAt)
                            /\ verifyThrottleEntries = Entries(lastVerifyCallAt)

\* The replies of requestChallenge: numbered in order, in the order of time.
IssuedInOrder ==
  /\ nextNonce = nextChallengeId
  /\ nextChallengeId = Len(issued)
  /\ \A i \in DOMAIN issued :
       /\ issued[i].at <= now
       /\ issued[i].challenge.requestNonce = i - 1
       /\ issued[i].challenge.expiresAt = issued[i].at + CHALLENGE_TTL
       /\ issued[i].challenge.consumed = FALSE
  /\ \A i, j \in DOMAIN issued : i <= j => issued[i].at <= issued[j].at

\* The store is the issued challenges from the cursor on; before the cursor
\* all have expired.
OnFile ==
  /\ oldestUnprunedChallengeId <= nextChallengeId
  /\ DOMAIN challenges = oldestUnprunedChallengeId..(nextChallengeId - 1)
  /\ \A id \in DOMAIN challenges :
       challenges[id] = [issued[id + 1].challenge EXCEPT !.consumed = Accepted(id)]
  /\ \A id \in 0..(oldestUnprunedChallengeId - 1) : Expired(issued[id + 1].challenge)

IInv == /\ TypeOK
        /\ Restorable
        /\ IssuedInOrder
        /\ OnFile
        /\ SpentIsAccepted
        /\ AcceptedAsIssued
        /\ SingleUse

USE MaxTimeAssumption, ChallengeAssumption, ThrottleAssumption

\* What the types of the two logs say of their entries.
LEMMA IssuedTypes ==
  ASSUME TypeOK
  PROVE /\ Len(issued) \in Nat
        /\ DOMAIN issued = 1..Len(issued)
        /\ \A i \in DOMAIN issued :
             /\ issued[i] \in Request
             /\ issued[i].at \in 0..MaxTime
             /\ issued[i].challenge \in Challenge
             /\ issued[i].challenge.expiresAt \in Nat
<1>1. issued \in Seq(Request)
  BY DEF TypeOK
<1>2. /\ Len(issued) \in Nat
      /\ DOMAIN issued = 1..Len(issued)
      /\ \A i \in DOMAIN issued : issued[i] \in Request
  BY <1>1
<1> QED BY <1>2 DEF Request, Challenge

\* Every receipt is typed entry by entry, without unfolding the sequence type.
LEMMA ReceiptTypes ==
  ASSUME TypeOK
  PROVE /\ Len(receipts) \in Nat
        /\ DOMAIN receipts = 1..Len(receipts)
        /\ \A i \in DOMAIN receipts :
             /\ receipts[i] \in Receipt
             /\ receipts[i].at \in 0..MaxTime
             /\ receipts[i].challengeId \in Ids
             /\ receipts[i].nullifier \in Nullifiers
<1>1. receipts \in Seq(Receipt)
  BY DEF TypeOK
<1>2. /\ Len(receipts) \in Nat
      /\ DOMAIN receipts = 1..Len(receipts)
      /\ \A i \in DOMAIN receipts : receipts[i] \in Receipt
  BY <1>1
<1> QED BY <1>2 DEF Receipt

\* A freshly installed store satisfies the inductive invariant.
LEMMA InitIInv == Init => IInv
<1> SUFFICES ASSUME Init PROVE IInv
  OBVIOUS
<1> USE DEF Init, StoreInit, CanisterInit
<1>1. TypeOK
  BY EmptyIsMap DEF TypeOK, CanisterTypeOK
<1>2. Restorable
  BY EmptyIsMap DEF Restorable
<1>3. IssuedInOrder /\ OnFile
  BY EmptyIsMap DEF IssuedInOrder, OnFile
<1>4. SpentIsAccepted /\ AcceptedAsIssued /\ SingleUse
  BY EmptyIsMap DEF SpentIsAccepted, Spent, AcceptedAsIssued, SingleUse
<1> QED BY <1>1, <1>2, <1>3, <1>4 DEF IInv
-----------------------------------------------------------------------------
\* Steps of the platform: what is on file does not change, and an upgrade
\* that completes restores what was there when it started.
Quiet == TimePasses \/ PreUpgrade \/ PostUpgrade \/ UpgradeTraps \/ RootMoves
           \/ UNCHANGED vars

\* No quiet action changes the maps, counters or observers: postupgrade
\* rebuilds exactly the maps preupgrade flattened.
LEMMA QuietKeepsHeap ==
  ASSUME IInv, Quiet
  PROVE /\ UNCHANGED <<heapVars, counterVars, observerVars>>
        /\ now' \in 0..MaxTime
        /\ now <= now'
        /\ phase' \in {"running", "upgrading"}
        /\ currentRoot' \in Roots
<1>1. CASE PostUpgrade
  <2>1. /\ challenges' = challenges
        /\ nullifiers' = nullifiers
        /\ lastChallengeCallAt' = lastChallengeCallAt
        /\ lastVerifyCallAt' = lastVerifyCallAt
    BY <1>1, FromIterEntries DEF IInv, Restorable, PostUpgrade, UpgradeEnds
  <2>2. UNCHANGED <<heapVars, counterVars, observerVars>>
    BY <1>1, <2>1 DEF PostUpgrade, heapVars
  <2> QED
    BY <1>1, <2>2 DEF PostUpgrade, UpgradeEnds, IInv, TypeOK, CanisterTypeOK
<1>2. CASE TimePasses \/ PreUpgrade \/ UpgradeTraps \/ RootMoves \/ UNCHANGED vars
  <2>1. UNCHANGED <<heapVars, counterVars, observerVars>>
    BY <1>2 DEF TimePasses, PreUpgrade, UpgradeTraps, RootMoves, vars, storeVars
  <2>2. now' \in 0..MaxTime /\ now <= now' /\ phase' \in {"running", "upgrading"}
    BY <1>2 DEF TimePasses, Tick, PreUpgrade, UpgradeStarts, UpgradeTraps, UpgradeEnds,
                RootMoves, vars, canisterVars, IInv, TypeOK, CanisterTypeOK
  <2>3. currentRoot' \in Roots
    BY <1>2 DEF TimePasses, PreUpgrade, UpgradeTraps, RootMoves, vars, IInv, TypeOK
  <2> QED BY <2>1, <2>2, <2>3
<1> QED BY <1>1, <1>2 DEF Quiet

\* The quiet actions (time, root moves, upgrades) keep the invariant.
LEMMA QuietKeepsIInv ==
  ASSUME IInv, Quiet
  PROVE IInv'
<1>1. /\ challenges' = challenges /\ nullifiers' = nullifiers
      /\ lastChallengeCallAt' = lastChallengeCallAt
      /\ lastVerifyCallAt' = lastVerifyCallAt
      /\ nextChallengeId' = nextChallengeId /\ nextNonce' = nextNonce
      /\ oldestUnprunedChallengeId' = oldestUnprunedChallengeId
      /\ issued' = issued /\ receipts' = receipts
      /\ now \in 0..MaxTime /\ now' \in 0..MaxTime /\ now <= now'
  BY QuietKeepsHeap DEF heapVars, counterVars, observerVars, IInv, TypeOK, CanisterTypeOK
<1>2. TypeOK'
  <2>1. /\ challengeEntries' \in SUBSET (Ids \X Challenge)
        /\ spentNullifiers' \in SUBSET (Nullifiers \X BOOLEAN)
        /\ challengeThrottleEntries' \in SUBSET (Callers \X CallTimes)
        /\ verifyThrottleEntries' \in SUBSET (Callers \X CallTimes)
    <3>1. CASE PreUpgrade
      BY <3>1 DEF PreUpgrade, Entries, IInv, TypeOK
    <3>2. CASE PostUpgrade \/ UpgradeTraps
      BY <3>2 DEF PostUpgrade, UpgradeTraps, StableArraysDrained
    <3>3. CASE TimePasses \/ RootMoves \/ UNCHANGED vars
      BY <3>3 DEF TimePasses, RootMoves, vars, storeVars, stableVars, IInv, TypeOK
    <3> QED BY <3>1, <3>2, <3>3 DEF Quiet
  <2> QED BY <1>1, <2>1, QuietKeepsHeap DEF IInv, TypeOK, CanisterTypeOK
<1>3. Restorable'
  BY <1>1 DEF IInv, Restorable, Quiet, TimePasses, Tick, Running, PreUpgrade,
              UpgradeStarts, PostUpgrade, UpgradeTraps, UpgradeEnds, RootMoves,
              vars, canisterVars, storeVars, stableVars
<1>4. IssuedInOrder'
  BY <1>1, IssuedTypes DEF IInv, IssuedInOrder
<1>5. OnFile'
  <2>1. ASSUME NEW id \in 0..(oldestUnprunedChallengeId - 1)
        PROVE Expired(issued[id + 1].challenge)'
    <3>1. /\ id + 1 \in DOMAIN issued
          /\ now > issued[id + 1].challenge.expiresAt
      BY DEF IInv, OnFile, IssuedInOrder, Expired, TypeOK
    <3>2. issued[id + 1].challenge.expiresAt \in Nat
      BY <3>1, IssuedTypes DEF IInv
    <3> QED BY <1>1, <3>1, <3>2 DEF Expired
  <2> QED BY <1>1, <2>1 DEF IInv, OnFile, Accepted
<1>6. SpentIsAccepted' /\ AcceptedAsIssued' /\ SingleUse'
  BY <1>1 DEF IInv, SpentIsAccepted, Spent, AcceptedAsIssued, SingleUse, Pinned
<1> QED BY <1>2, <1>3, <1>4, <1>5, <1>6 DEF IInv
-----------------------------------------------------------------------------
\* A refused verify marks the throttle and nothing else.
LEMMA RefuseKeepsIInv ==
  ASSUME IInv, NEW caller \in Principals, Running,
         Admits(lastVerifyCallAt, caller, now), RefuseVerify(caller)
  PROVE IInv'
<1>1. /\ challenges' = challenges /\ nullifiers' = nullifiers
      /\ lastChallengeCallAt' = lastChallengeCallAt
      /\ lastVerifyCallAt' = Put(lastVerifyCallAt, caller, now)
      /\ nextChallengeId' = nextChallengeId /\ nextNonce' = nextNonce
      /\ oldestUnprunedChallengeId' = oldestUnprunedChallengeId
      /\ issued' = issued /\ receipts' = receipts
      /\ challengeEntries' = challengeEntries /\ spentNullifiers' = spentNullifiers
      /\ challengeThrottleEntries' = challengeThrottleEntries
      /\ verifyThrottleEntries' = verifyThrottleEntries
      /\ now' = now /\ phase' = phase /\ phase = "running"
      /\ currentRoot' = currentRoot
      /\ now \in CallTimes /\ caller \in Callers
  BY DEF RefuseVerify, Stamp, counterVars, stableVars, observerVars, canisterVars, Running,
         Admits, Callers, CallTimes, IInv, TypeOK, CanisterTypeOK
<1>2. /\ IsMap(lastVerifyCallAt')
      /\ DOMAIN lastVerifyCallAt' = DOMAIN lastVerifyCallAt \cup {caller}
      /\ \A c \in DOMAIN lastVerifyCallAt' : lastVerifyCallAt'[c] \in CallTimes
  BY <1>1 DEF Put, IsMap, IInv, TypeOK
<1>3. TypeOK'
  BY <1>1, <1>2 DEF IInv, TypeOK, CanisterTypeOK
<1>4. Restorable'
  BY <1>1, <1>2 DEF IInv, Restorable
<1>5. IssuedInOrder' /\ OnFile'
  BY <1>1 DEF IInv, IssuedInOrder, OnFile, Accepted, Expired
<1>6. SpentIsAccepted' /\ AcceptedAsIssued' /\ SingleUse'
  BY <1>1 DEF IInv, SpentIsAccepted, Spent, AcceptedAsIssued, SingleUse, Pinned
<1> QED BY <1>3, <1>4, <1>5, <1>6 DEF IInv

\* The sweep: every id the cursor passes is on file, hence expired.
LEMMA HeartbeatKeepsIInv ==
  ASSUME IInv, Heartbeat
  PROVE IInv'
<1>1. PICK n \in oldestUnprunedChallengeId..nextChallengeId :
        /\ SweepsTo(n)
        /\ challenges' = Delete(challenges, oldestUnprunedChallengeId..(n - 1))
        /\ oldestUnprunedChallengeId' = n
  BY DEF Heartbeat
<1>2. /\ nullifiers' = nullifiers
      /\ lastChallengeCallAt' = lastChallengeCallAt
      /\ lastVerifyCallAt' = lastVerifyCallAt
      /\ nextChallengeId' = nextChallengeId /\ nextNonce' = nextNonce
      /\ issued' = issued /\ receipts' = receipts
      /\ challengeEntries' = challengeEntries /\ spentNullifiers' = spentNullifiers
      /\ challengeThrottleEntries' = challengeThrottleEntries
      /\ verifyThrottleEntries' = verifyThrottleEntries
      /\ now' = now /\ phase' = phase /\ phase = "running"
      /\ currentRoot' = currentRoot
  BY DEF Heartbeat, Running, canisterVars, stableVars, observerVars
<1>3. /\ nextChallengeId \in 0..MaxChallenges
      /\ oldestUnprunedChallengeId \in 0..MaxChallenges
      /\ oldestUnprunedChallengeId <= nextChallengeId
      /\ DOMAIN challenges = oldestUnprunedChallengeId..(nextChallengeId - 1)
      /\ n \in 0..MaxChallenges /\ oldestUnprunedChallengeId <= n /\ n <= nextChallengeId
  BY DEF IInv, TypeOK, OnFile
<1>4. /\ IsMap(challenges')
      /\ DOMAIN challenges' = n..(nextChallengeId - 1)
      /\ \A id \in DOMAIN challenges' : /\ id \in DOMAIN challenges
                                        /\ challenges'[id] = challenges[id]
  <2>1. DOMAIN challenges' = DOMAIN challenges \ (oldestUnprunedChallengeId..(n - 1))
    BY <1>1 DEF Delete
  <2>2. DOMAIN challenges' = n..(nextChallengeId - 1)
    BY <1>3, <2>1
  <2> QED BY <1>1, <2>1, <2>2 DEF Delete, IsMap
<1>5. TypeOK'
  BY <1>1, <1>2, <1>3, <1>4 DEF IInv, TypeOK, CanisterTypeOK
<1>6. Restorable'
  BY <1>2, <1>4 DEF IInv, Restorable
<1>7. IssuedInOrder'
  BY <1>2 DEF IInv, IssuedInOrder
<1>8. OnFile'
  <2>1. ASSUME NEW id \in 0..(n - 1)
        PROVE Expired(issued[id + 1].challenge)
    <3>1. CASE id \in oldestUnprunedChallengeId..(n - 1)
      <4>1. id \in DOMAIN challenges
        BY <1>3, <3>1
      <4>2. now > challenges[id].expiresAt
        BY <1>1, <3>1, <4>1 DEF SweepsTo, Passes, Expired
      <4>3. challenges[id].expiresAt = issued[id + 1].challenge.expiresAt
        <5>1. id + 1 \in DOMAIN issued
          BY <1>3, <4>1, IssuedTypes DEF IInv, IssuedInOrder
        <5>2. issued[id + 1].challenge \in Challenge
          BY <5>1, IssuedTypes DEF IInv
        <5> QED BY <4>1, <5>2 DEF IInv, OnFile, Challenge
      <4> QED BY <4>2, <4>3 DEF Expired
    <3>2. CASE id \in 0..(oldestUnprunedChallengeId - 1)
      BY <3>2 DEF IInv, OnFile
    <3> QED BY <1>3, <2>1, <3>1, <3>2
  <2>2. \A id \in 0..(n - 1) : Expired(issued[id + 1].challenge)'
    BY <1>2, <2>1 DEF Expired
  <2>3. \A id \in DOMAIN challenges' :
          challenges'[id] = [issued[id + 1].challenge EXCEPT !.consumed = Accepted(id)]
    BY <1>4 DEF IInv, OnFile
  <2> QED BY <1>1, <1>2, <1>3, <1>4, <2>2, <2>3 DEF OnFile, Accepted
<1>9. SpentIsAccepted' /\ AcceptedAsIssued' /\ SingleUse'
  BY <1>2 DEF IInv, SpentIsAccepted, Spent, AcceptedAsIssued, SingleUse, Pinned
<1> QED BY <1>5, <1>6, <1>7, <1>8, <1>9 DEF IInv
-----------------------------------------------------------------------------
\* A new challenge takes the next id and the latest expiry.
LEMMA RequestKeepsIInv ==
  ASSUME IInv, NEW caller \in Principals, NEW purpose \in Purposes,
         RequestChallenge(caller, purpose)
  PROVE IInv'
<1> DEFINE c == NewChallenge(purpose)
           request == [caller |-> caller, at |-> now, challenge |-> c]
<1>1. /\ challenges' = Put(challenges, nextChallengeId, c)
      /\ lastChallengeCallAt' = Put(lastChallengeCallAt, caller, now)
      /\ issued' = Append(issued, request)
      /\ nextChallengeId' = nextChallengeId + 1 /\ nextNonce' = nextNonce + 1
      /\ oldestUnprunedChallengeId' = oldestUnprunedChallengeId
      /\ nullifiers' = nullifiers
      /\ lastVerifyCallAt' = lastVerifyCallAt
      /\ receipts' = receipts
      /\ challengeEntries' = challengeEntries /\ spentNullifiers' = spentNullifiers
      /\ challengeThrottleEntries' = challengeThrottleEntries
      /\ verifyThrottleEntries' = verifyThrottleEntries
      /\ now' = now /\ phase' = phase /\ phase = "running"
      /\ currentRoot' = currentRoot
  BY DEF RequestChallenge, Stamp, Running, canisterVars, stableVars
<1>2. /\ now \in CallTimes /\ caller \in Callers
      /\ nextChallengeId \in Ids /\ nextChallengeId + 1 \in 0..MaxChallenges
      /\ oldestUnprunedChallengeId \in 0..nextChallengeId
      /\ nextNonce = nextChallengeId
      /\ Len(issued) = nextChallengeId
      /\ DOMAIN challenges = oldestUnprunedChallengeId..(nextChallengeId - 1)
  BY DEF RequestChallenge, InBounds, Admits, Callers, CallTimes, Ids, IInv, TypeOK,
         CanisterTypeOK, IssuedInOrder, OnFile
<1>3. /\ c \in Challenge
      /\ c.requestNonce = nextChallengeId
      /\ c.expiresAt = now + CHALLENGE_TTL
      /\ c.consumed = FALSE
  <2>1. now \div SECOND \in Nat /\ now + CHALLENGE_TTL \in Nat
    BY <1>2 DEF CallTimes
  <2>2. currentRoot \in Roots
    BY DEF IInv, TypeOK
  <2> QED BY <1>2, <2>1, <2>2 DEF NewChallenge, Challenge
<1> HIDE DEF c
<1>4. /\ request \in Request
      /\ request.at = now /\ request.challenge = c
  BY <1>2, <1>3 DEF Request, CallTimes
<1> HIDE DEF request
<1>5. /\ Len(issued) \in Nat
      /\ DOMAIN issued = 1..nextChallengeId
      /\ DOMAIN issued' = 1..(nextChallengeId + 1)
      /\ issued' \in Seq(Request)
      /\ Len(issued') = nextChallengeId + 1
      /\ \A i \in DOMAIN issued : issued'[i] = issued[i]
      /\ issued'[nextChallengeId + 1] = request
  <2>1. issued \in Seq(Request)
    BY DEF IInv, TypeOK
  <2> QED BY <1>1, <1>2, <1>4, <2>1
<1>6. /\ IsMap(challenges')
      /\ DOMAIN challenges' = oldestUnprunedChallengeId..nextChallengeId
      /\ challenges'[nextChallengeId] = c
      /\ \A id \in DOMAIN challenges : challenges'[id] = challenges[id]
  <2>1. nextChallengeId \notin DOMAIN challenges /\ nextChallengeId \in Nat
    BY <1>2 DEF Ids
  <2>2. /\ IsMap(challenges')
        /\ DOMAIN challenges' = DOMAIN challenges \cup {nextChallengeId}
        /\ challenges'[nextChallengeId] = c
        /\ \A id \in DOMAIN challenges : challenges'[id] = challenges[id]
    BY <1>1, <2>1 DEF Put, IsMap
  <2> QED BY <1>2, <2>1, <2>2 DEF Ids
<1>7. /\ IsMap(lastChallengeCallAt')
      /\ DOMAIN lastChallengeCallAt' = DOMAIN lastChallengeCallAt \cup {caller}
      /\ \A p \in DOMAIN lastChallengeCallAt' : lastChallengeCallAt'[p] \in CallTimes
  BY <1>1, <1>2 DEF Put, IsMap, IInv, TypeOK
<1>8. TypeOK'
  <2>1. /\ DOMAIN challenges' \subseteq Ids
        /\ \A id \in DOMAIN challenges' : challenges'[id] \in Challenge
    BY <1>2, <1>3, <1>6 DEF Ids, IInv, TypeOK
  <2> QED BY <1>1, <1>2, <1>5, <1>7, <2>1 DEF IInv, TypeOK, CanisterTypeOK
<1>9. Restorable'
  BY <1>1, <1>6, <1>7 DEF IInv, Restorable
<1>10. \A i \in DOMAIN issued : issued[i].at \in 0..MaxTime /\ issued[i].at <= now
  BY IssuedTypes DEF IInv, IssuedInOrder
<1>11. IssuedInOrder'
  <2>1. \A i \in DOMAIN issued' :
          /\ issued'[i].at <= now'
          /\ issued'[i].challenge.requestNonce = i - 1
          /\ issued'[i].challenge.expiresAt = issued'[i].at + CHALLENGE_TTL
          /\ issued'[i].challenge.consumed = FALSE
    <3>1. ASSUME NEW i \in DOMAIN issued
          PROVE /\ issued'[i].at <= now'
                /\ issued'[i].challenge.requestNonce = i - 1
                /\ issued'[i].challenge.expiresAt = issued'[i].at + CHALLENGE_TTL
                /\ issued'[i].challenge.consumed = FALSE
      BY <1>1, <1>5, <1>10 DEF IInv, IssuedInOrder
    <3>2. ASSUME NEW i \in DOMAIN issued', i = nextChallengeId + 1
          PROVE /\ issued'[i].at <= now'
                /\ issued'[i].challenge.requestNonce = i - 1
                /\ issued'[i].challenge.expiresAt = issued'[i].at + CHALLENGE_TTL
                /\ issued'[i].challenge.consumed = FALSE
      <4>1. issued'[i].at = now /\ issued'[i].challenge = c
        BY <1>4, <1>5, <3>2
      <4> QED BY <1>1, <1>2, <1>3, <3>2, <4>1 DEF CallTimes, Ids
    <3>3. \A i \in DOMAIN issued' : i \in DOMAIN issued \/ i = nextChallengeId + 1
      BY <1>2, <1>5 DEF Ids
    <3> QED BY <3>1, <3>2, <3>3
  <2>2. \A i, j \in DOMAIN issued' : i <= j => issued'[i].at <= issued'[j].at
    <3>1. ASSUME NEW i \in DOMAIN issued', NEW j \in DOMAIN issued', i <= j
          PROVE issued'[i].at <= issued'[j].at
      <4>1. /\ nextChallengeId \in Nat
            /\ i \in 1..(nextChallengeId + 1) /\ j \in 1..(nextChallengeId + 1)
        BY <1>2, <1>5 DEF Ids
      <4>2. CASE j = nextChallengeId + 1
        <5>1. issued'[j].at = now /\ now \in Nat
          BY <1>2, <1>4, <1>5, <4>2 DEF CallTimes
        <5>2. CASE i = nextChallengeId + 1
          BY <4>2, <5>1, <5>2
        <5>3. CASE i # nextChallengeId + 1
          <6>1. i \in DOMAIN issued
            BY <1>5, <4>1, <5>3
          <6> QED BY <1>5, <1>10, <5>1, <6>1
        <5> QED BY <5>2, <5>3
      <4>3. CASE j # nextChallengeId + 1
        <5>1. i \in DOMAIN issued /\ j \in DOMAIN issued
          BY <1>5, <3>1, <4>1, <4>3
        <5> QED BY <1>5, <3>1, <5>1 DEF IInv, IssuedInOrder
      <4> QED BY <4>2, <4>3
    <3> QED BY <3>1
  <2> QED BY <1>1, <1>2, <1>5, <2>1, <2>2 DEF IssuedInOrder
<1>12. ~Accepted(nextChallengeId)
  BY <1>2, <1>5 DEF IInv, AcceptedAsIssued, Accepted
<1>13. OnFile'
  <2>1. ASSUME NEW id \in DOMAIN challenges'
        PROVE challenges'[id] =
                [issued'[id + 1].challenge EXCEPT !.consumed = Accepted(id)]
    <3>1. CASE id \in DOMAIN challenges
      BY <1>2, <1>5, <1>6, <3>1 DEF IInv, OnFile, Ids
    <3>2. CASE id = nextChallengeId
      <4>1. c = [c EXCEPT !.consumed = FALSE]
        BY <1>3 DEF Challenge
      <4>2. Accepted(id) = FALSE
        BY <1>12, <3>2 DEF Accepted
      <4> QED BY <1>4, <1>5, <1>6, <3>2, <4>1, <4>2
    <3> QED BY <1>2, <1>6, <3>1, <3>2 DEF Ids
  <2>2. \A id \in 0..(oldestUnprunedChallengeId - 1) : Expired(issued[id + 1].challenge)'
    BY <1>1, <1>2, <1>5 DEF IInv, OnFile, Expired, Ids
  <2>3. \A id \in DOMAIN challenges' :
          challenges'[id] = [issued'[id + 1].challenge EXCEPT !.consumed = Accepted(id)']
    BY <1>1, <2>1 DEF Accepted
  <2>4. /\ oldestUnprunedChallengeId' <= nextChallengeId'
        /\ DOMAIN challenges' = oldestUnprunedChallengeId'..(nextChallengeId' - 1)
    BY <1>1, <1>2, <1>6 DEF Ids
  <2>5. \A id \in 0..(oldestUnprunedChallengeId' - 1) : Expired(issued[id + 1].challenge)'
    BY <1>1, <2>2
  <2> QED BY <2>3, <2>4, <2>5 DEF OnFile
<1>14. SpentIsAccepted' /\ SingleUse'
  BY <1>1 DEF IInv, SpentIsAccepted, Spent, SingleUse
<1>15. AcceptedAsIssued'
  <2> SUFFICES ASSUME NEW i \in DOMAIN receipts
               PROVE /\ receipts[i].challengeId + 1 \in DOMAIN issued
                     /\ issued'[receipts[i].challengeId + 1]
                          = issued[receipts[i].challengeId + 1]
                     /\ receipts[i].challengeId + 1 \in DOMAIN issued'
    BY <1>1 DEF IInv, AcceptedAsIssued, Pinned
  <2>1. receipts[i].challengeId + 1 \in DOMAIN issued
    BY DEF IInv, AcceptedAsIssued
  <2> QED BY <1>2, <1>5, <2>1 DEF Ids
<1> QED BY <1>8, <1>9, <1>11, <1>13, <1>14, <1>15 DEF IInv
-----------------------------------------------------------------------------
\* An acceptance: the challenge on file is unconsumed, so no receipt names it,
\* and the nullifier is unspent, so no receipt carries it.
LEMMA AcceptKeepsIInv ==
  ASSUME IInv, NEW caller \in Principals, NEW id \in Ids, NEW inputs,
         NEW nullifier \in Nullifiers, Running,
         Admits(lastVerifyCallAt, caller, now),
         Presentable(id, inputs, nullifier),
         AcceptVerify(caller, id, inputs, nullifier)
  PROVE IInv'
<1> DEFINE receipt == [caller |-> caller, at |-> now, challengeId |-> id,
                       inputs |-> inputs, nullifier |-> nullifier]
           accepted == [challenges[id] EXCEPT !.consumed = TRUE]
           k == Len(receipts) + 1
           onFile == issued[id + 1].challenge
<1>1. /\ challenges' = Put(challenges, id, accepted)
      /\ nullifiers' = Put(nullifiers, nullifier, TRUE)
      /\ lastVerifyCallAt' = Put(lastVerifyCallAt, caller, now)
      /\ receipts' = Append(receipts, receipt)
      /\ lastChallengeCallAt' = lastChallengeCallAt
      /\ nextChallengeId' = nextChallengeId /\ nextNonce' = nextNonce
      /\ oldestUnprunedChallengeId' = oldestUnprunedChallengeId
      /\ issued' = issued
      /\ challengeEntries' = challengeEntries /\ spentNullifiers' = spentNullifiers
      /\ challengeThrottleEntries' = challengeThrottleEntries
      /\ verifyThrottleEntries' = verifyThrottleEntries
      /\ now' = now /\ phase' = phase /\ phase = "running"
      /\ currentRoot' = currentRoot
  BY DEF AcceptVerify, Stamp, Running, canisterVars, counterVars, stableVars
<1>2. /\ now \in CallTimes /\ caller \in Callers /\ id \in Nat
      /\ id \in DOMAIN challenges
      /\ challenges[id] \in Challenge
      /\ challenges[id].consumed = FALSE
      /\ now <= challenges[id].expiresAt
      /\ inputs = Pinned(challenges[id])
      /\ ~Spent(nullifier)
  <2>1. id \in DOMAIN challenges /\ challenges[id] \in Challenge
    BY DEF Presentable, IInv, TypeOK
  <2>2. challenges[id].consumed \in BOOLEAN /\ challenges[id].expiresAt \in Nat
    BY <2>1 DEF Challenge
  <2> QED BY <2>1, <2>2 DEF Presentable, Expired, Admits, Callers, CallTimes, Ids, IInv,
                            TypeOK, CanisterTypeOK
<1>3. /\ id + 1 \in DOMAIN issued
      /\ onFile \in Challenge
      /\ challenges[id] = [onFile EXCEPT !.consumed = Accepted(id)]
      /\ issued[id + 1].at \in 0..MaxTime
      /\ issued[id + 1].at <= now
      /\ onFile.expiresAt = issued[id + 1].at + CHALLENGE_TTL
  <2>1. id + 1 \in DOMAIN issued
    BY <1>2, IssuedTypes DEF IInv, OnFile, IssuedInOrder, TypeOK
  <2> QED BY <1>2, <2>1, IssuedTypes DEF IInv, OnFile, IssuedInOrder
<1>4. ~Accepted(id)
  BY <1>2, <1>3 DEF Challenge
<1>5. /\ Pinned(challenges[id]) = Pinned(onFile)
      /\ challenges[id].expiresAt = onFile.expiresAt
  BY <1>3 DEF Pinned, Challenge
<1>6. inputs \in Inputs
  BY <1>2 DEF Inputs, Pinned, Challenge
<1>7. /\ receipt \in Receipt
      /\ receipt.at = now /\ receipt.challengeId = id
      /\ receipt.inputs = inputs /\ receipt.nullifier = nullifier
  BY <1>2, <1>6 DEF Receipt, CallTimes
<1> HIDE DEF receipt
<1>8. /\ Len(receipts) \in Nat
      /\ DOMAIN receipts = 1..Len(receipts)
      /\ DOMAIN receipts' = 1..k
      /\ receipts' \in Seq(Receipt)
      /\ \A i \in DOMAIN receipts : receipts'[i] = receipts[i]
      /\ receipts'[k] = receipt
      /\ \A i \in DOMAIN receipts' : i \in DOMAIN receipts \/ i = k
      /\ \A i \in DOMAIN receipts : i \in DOMAIN receipts'
      /\ k \in DOMAIN receipts'
  <2>1. receipts \in Seq(Receipt)
    BY DEF IInv, TypeOK
  <2> QED BY <1>1, <1>7, <2>1
<1> HIDE DEF k
<1>9. /\ IsMap(challenges')
      /\ DOMAIN challenges' = DOMAIN challenges
      /\ challenges'[id] = accepted
      /\ \A x \in DOMAIN challenges : x # id => challenges'[x] = challenges[x]
  BY <1>1, <1>2 DEF Put, IsMap
<1>10. /\ IsMap(nullifiers')
       /\ DOMAIN nullifiers' = DOMAIN nullifiers \cup {nullifier}
       /\ nullifiers'[nullifier] = TRUE
       /\ \A n \in DOMAIN nullifiers : n # nullifier => nullifiers'[n] = nullifiers[n]
  BY <1>1 DEF Put, IsMap
<1>11. /\ IsMap(lastVerifyCallAt')
       /\ DOMAIN lastVerifyCallAt' = DOMAIN lastVerifyCallAt \cup {caller}
       /\ \A c \in DOMAIN lastVerifyCallAt' : lastVerifyCallAt'[c] \in CallTimes
  BY <1>1, <1>2 DEF Put, IsMap, IInv, TypeOK
<1>12. accepted \in Challenge
  BY <1>2 DEF Challenge
<1>13. TypeOK'
  <2>1. /\ DOMAIN challenges' \subseteq Ids
        /\ \A x \in DOMAIN challenges' : challenges'[x] \in Challenge
    BY <1>9, <1>12 DEF IInv, TypeOK
  <2>2. /\ DOMAIN nullifiers' \subseteq Nullifiers
        /\ \A n \in DOMAIN nullifiers' : nullifiers'[n] \in BOOLEAN
    BY <1>10 DEF IInv, TypeOK
  <2>3. DOMAIN lastVerifyCallAt' \subseteq Callers
    BY <1>2, <1>11 DEF IInv, TypeOK
  <2>4. receipts' \in Seq(Receipt)
    BY <1>8
  <2>5. /\ CanisterTypeOK' /\ currentRoot' \in Roots
        /\ nextChallengeId' \in 0..MaxChallenges
        /\ nextNonce' \in 0..MaxChallenges
        /\ oldestUnprunedChallengeId' \in 0..MaxChallenges
        /\ issued' \in Seq(Request)
    BY <1>1 DEF IInv, TypeOK, CanisterTypeOK
  <2> QED BY <1>1, <1>11, <2>1, <2>2, <2>3, <2>4, <2>5 DEF IInv, TypeOK
<1>14. Restorable'
  BY <1>1, <1>9, <1>10, <1>11 DEF IInv, Restorable
<1>15. IssuedInOrder'
  BY <1>1 DEF IInv, IssuedInOrder
<1>16. \A x : Accepted(x)' <=> Accepted(x) \/ x = id
  BY <1>7, <1>8 DEF Accepted
<1>17. OnFile'
  <2>1. ASSUME NEW x \in DOMAIN challenges'
        PROVE challenges'[x] =
                [issued'[x + 1].challenge EXCEPT !.consumed = Accepted(x)']
    <3>1. CASE x = id
      <4>1. Accepted(x)' = TRUE
        BY <1>16, <3>1 DEF Accepted
      <4>2. accepted = [onFile EXCEPT !.consumed = TRUE]
        BY <1>3 DEF Challenge
      <4> QED BY <1>1, <1>9, <3>1, <4>1, <4>2
    <3>2. CASE x # id
      <4>1. Accepted(x)' = Accepted(x)
        BY <1>16, <3>2 DEF Accepted
      <4>2. challenges'[x] = [issued[x + 1].challenge EXCEPT !.consumed = Accepted(x)]
        BY <1>9, <3>2 DEF IInv, OnFile
      <4> QED BY <1>1, <4>1, <4>2
    <3> QED BY <3>1, <3>2
  <2>2. \A x \in 0..(oldestUnprunedChallengeId - 1) : Expired(issued[x + 1].challenge)'
    BY <1>1 DEF IInv, OnFile, Expired
  <2> QED BY <1>1, <1>9, <2>1, <2>2 DEF IInv, OnFile
<1>18. SpentIsAccepted'
  <2>1. ASSUME NEW n \in Nullifiers
        PROVE Spent(n)' <=> Spent(n) \/ n = nullifier
    BY <1>10 DEF Spent
  <2>2. ASSUME NEW n \in Nullifiers
        PROVE (\E i \in DOMAIN receipts' : receipts'[i].nullifier = n)
                <=> (\E i \in DOMAIN receipts : receipts[i].nullifier = n) \/ n = nullifier
    BY <1>7, <1>8
  <2> QED BY <2>1, <2>2 DEF IInv, SpentIsAccepted
<1>19. AcceptedAsIssued'
  <2>1. ASSUME NEW i \in DOMAIN receipts
        PROVE /\ receipts'[i] = receipts[i]
              /\ receipts[i].challengeId + 1 \in DOMAIN issued
              /\ receipts[i].inputs = Pinned(issued[receipts[i].challengeId + 1].challenge)
              /\ receipts[i].at \in issued[receipts[i].challengeId + 1].at
                    ..(issued[receipts[i].challengeId + 1].at + CHALLENGE_TTL)
    BY <1>8 DEF IInv, AcceptedAsIssued
  <2>2. /\ receipt.challengeId + 1 \in DOMAIN issued
        /\ receipt.inputs = Pinned(onFile)
        /\ receipt.at \in issued[id + 1].at..(issued[id + 1].at + CHALLENGE_TTL)
    BY <1>2, <1>3, <1>5, <1>7 DEF CallTimes
  <2> QED BY <1>1, <1>7, <1>8, <2>1, <2>2 DEF AcceptedAsIssued, Pinned
<1>20. SingleUse'
  <2>1. ASSUME NEW i \in DOMAIN receipts
        PROVE receipts[i].challengeId # id /\ receipts[i].nullifier # nullifier
    BY <1>2, <1>4 DEF Accepted, IInv, SpentIsAccepted
  <2> QED BY <1>7, <1>8, <2>1 DEF IInv, SingleUse
<1> QED BY <1>13, <1>14, <1>15, <1>17, <1>18, <1>19, <1>20 DEF IInv
-----------------------------------------------------------------------------
\* Every action of the store, and stuttering, keeps the inductive invariant.
LEMMA NextKeepsIInv == IInv /\ [Next]_vars => IInv'
<1> SUFFICES ASSUME IInv, [Next]_vars PROVE IInv'
  OBVIOUS
<1>1. ASSUME NEW caller \in Principals, NEW purpose \in Purposes,
             RequestChallenge(caller, purpose)
      PROVE IInv'
  BY <1>1, RequestKeepsIInv
<1>2. ASSUME NEW caller \in Principals, NEW id \in Ids, NEW inputs \in PresentedInputs,
             NEW nullifier \in Nullifiers, NEW valid \in BOOLEAN,
             Verify(caller, id, inputs, nullifier, valid)
      PROVE IInv'
  <2>1. CASE Presentable(id, inputs, nullifier) /\ valid
    BY <1>2, <2>1, AcceptKeepsIInv DEF Verify
  <2>2. CASE ~(Presentable(id, inputs, nullifier) /\ valid)
    BY <1>2, <2>2, RefuseKeepsIInv DEF Verify
  <2> QED BY <2>1, <2>2
<1>3. CASE Heartbeat
  BY <1>3, HeartbeatKeepsIInv
<1>4. CASE Quiet
  BY <1>4, QuietKeepsIInv
<1> QED BY <1>1, <1>2, <1>3, <1>4 DEF Next, Quiet

\* The inductive invariant holds in every reachable state of the store.
LEMMA Invariance == Spec => []IInv
  BY InitIInv, NextKeepsIInv, PTL DEF Spec

\* Every collection, counter, array and log keeps its type.
THEOREM StoreTypes == Spec => []TypeOK
  BY Invariance, PTL DEF IInv

\* A challenge is accepted at most once, and so is a nullifier, for ever: the
\* sweep, the upgrade hooks and rolled-back upgrades never reopen either.
THEOREM StoreSingleUse == Spec => []SingleUse
  BY Invariance, PTL DEF IInv

\* verify accepts only what requestChallenge issued, with the five inputs it
\* was issued with and within its lifetime.
THEOREM StoreAcceptsAsIssued == Spec => []AcceptedAsIssued
  BY Invariance, PTL DEF IInv

\* The nullifiers on file are those of the accepted proofs.
THEOREM StoreSpentIsAccepted == Spec => []SpentIsAccepted
  BY Invariance, PTL DEF IInv

\* No challenge is lost, altered or consumed without an acceptance before it
\* has expired.
THEOREM StoreKeepsUntilExpiry == Spec => []KeptUntilExpiry
<1>1. IInv => KeptUntilExpiry
  <2> SUFFICES ASSUME IInv, NEW i \in DOMAIN issued, ~Expired(issued[i].challenge)
               PROVE /\ i - 1 \in DOMAIN challenges
                     /\ challenges[i - 1] =
                          [issued[i].challenge EXCEPT !.consumed = Accepted(i - 1)]
    BY DEF KeptUntilExpiry
  <2>1. i \in 1..nextChallengeId
    BY IssuedTypes DEF IInv, IssuedInOrder
  <2>2. /\ nextChallengeId \in Nat /\ oldestUnprunedChallengeId \in Nat
        /\ i - 1 \in Nat /\ (i - 1) + 1 = i
    BY <2>1 DEF IInv, TypeOK
  <2>3. i - 1 \notin 0..(oldestUnprunedChallengeId - 1)
    BY <2>2 DEF IInv, OnFile
  <2>4. i - 1 \in DOMAIN challenges
    BY <2>1, <2>2, <2>3 DEF IInv, OnFile
  <2> QED BY <2>2, <2>4 DEF IInv, OnFile
<1> QED BY Invariance, <1>1, PTL

\* The premise of the sweep (main.mo:452-461): ids on file are contiguous and
\* expire in id order, so the sweep may stop at the first live one.
THEOREM StoreSweepWindow == Spec => []SweepWindow
<1>1. IInv => SweepWindow
  <2> SUFFICES ASSUME IInv PROVE SweepWindow
    OBVIOUS
  <2>1. ASSUME NEW id \in DOMAIN challenges
        PROVE /\ id + 1 \in DOMAIN issued
              /\ challenges[id].expiresAt = issued[id + 1].at + CHALLENGE_TTL
    <3>1. id + 1 \in DOMAIN issued
      BY IssuedTypes DEF IInv, OnFile, IssuedInOrder, TypeOK
    <3>2. issued[id + 1].challenge \in Challenge
      BY <3>1, IssuedTypes DEF IInv
    <3> QED BY <3>1, <3>2 DEF IInv, OnFile, IssuedInOrder, Challenge
  <2>2. ASSUME NEW i \in DOMAIN challenges, NEW j \in DOMAIN challenges, i <= j
        PROVE challenges[i].expiresAt <= challenges[j].expiresAt
    <3>1. /\ i \in Int /\ j \in Int /\ i + 1 <= j + 1
          /\ issued[i + 1].at \in Int /\ issued[j + 1].at \in Int
      BY <2>1, <2>2, IssuedTypes DEF IInv, TypeOK, Ids
    <3>2. issued[i + 1].at <= issued[j + 1].at
      BY <2>1, <3>1 DEF IInv, IssuedInOrder
    <3> QED BY <2>1, <3>1, <3>2
  <2> QED BY <2>2 DEF IInv, OnFile, SweepWindow
<1> QED BY Invariance, <1>1, PTL

\* The nonces, which nullifiers are hashed over, never repeat.
THEOREM StoreNoncesDistinct == Spec => []NoncesDistinct
<1>1. IInv => NoncesDistinct
  BY IssuedTypes DEF IInv, IssuedInOrder, NoncesDistinct
<1> QED BY Invariance, <1>1, PTL
-----------------------------------------------------------------------------
\* Only an acceptance consumes a challenge (main.mo:445): every other step
\* leaves each challenge that stays on file as it was.
THEOREM StoreRefusalConsumesNothing == Spec => RefusalConsumesNothing
<1>1. ASSUME IInv, [Next]_vars, receipts' = receipts,
             NEW id \in DOMAIN challenges \cap DOMAIN challenges'
      PROVE challenges'[id] = challenges[id]
  <2>1. ASSUME NEW caller \in Principals, NEW purpose \in Purposes,
               RequestChallenge(caller, purpose)
        PROVE challenges'[id] = challenges[id]
    <3>1. id # nextChallengeId
      <4>1. nextChallengeId \in Nat
        BY <1>1 DEF IInv, TypeOK
      <4>2. id \in oldestUnprunedChallengeId..(nextChallengeId - 1)
        BY <1>1 DEF IInv, OnFile
      <4> QED BY <4>1, <4>2
    <3> QED BY <2>1, <3>1 DEF RequestChallenge, Put
  <2>2. ASSUME NEW caller \in Principals, NEW c \in Ids, NEW inputs \in PresentedInputs,
               NEW nullifier \in Nullifiers, NEW valid \in BOOLEAN,
               Verify(caller, c, inputs, nullifier, valid)
        PROVE challenges'[id] = challenges[id]
    <3>1. ~AcceptVerify(caller, c, inputs, nullifier)
      <4>1. SUFFICES ASSUME AcceptVerify(caller, c, inputs, nullifier) PROVE FALSE
        OBVIOUS
      <4>2. PICK r : receipts' = Append(receipts, r)
        BY <4>1 DEF AcceptVerify
      <4>3. receipts \in Seq(Receipt)
        BY <1>1 DEF IInv, TypeOK
      <4>4. Len(Append(receipts, r)) = Len(receipts) + 1 /\ Len(receipts) \in Nat
        BY <4>3
      <4>5. Len(receipts) = Len(receipts) + 1
        BY <1>1, <4>2, <4>4
      <4> QED BY <4>4, <4>5
    <3> QED BY <2>2, <3>1 DEF Verify, RefuseVerify
  <2>3. CASE Heartbeat
    BY <1>1, <2>3 DEF Heartbeat, Delete
  <2>4. CASE Quiet
    BY <1>1, <2>4, QuietKeepsHeap DEF heapVars
  <2> QED BY <1>1, <2>1, <2>2, <2>3, <2>4 DEF Next, Quiet
<1>2. IInv /\ [Next]_vars =>
        (receipts' = receipts =>
           \A id \in DOMAIN challenges \cap DOMAIN challenges' :
             challenges'[id] = challenges[id])
  BY <1>1
<1> QED BY Invariance, <1>2, PTL DEF Spec, RefusalConsumesNothing

\* What a heartbeat removes: the ids it passes, all of which have expired, and
\* when it stops before its bound, all that have expired.
LEMMA SweepRemoves ==
  ASSUME IInv, Heartbeat
  PROVE LET removed == DOMAIN challenges \ DOMAIN challenges'
        IN /\ removed \subseteq ExpiredOnFile
           /\ removed = ExpiredOnFile \/ Cardinality(removed) = MAX_PRUNE
<1> DEFINE removed == DOMAIN challenges \ DOMAIN challenges'
           cursor == oldestUnprunedChallengeId
<1>1. PICK n \in cursor..nextChallengeId :
        /\ SweepsTo(n)
        /\ challenges' = Delete(challenges, cursor..(n - 1))
  BY DEF Heartbeat
<1>2. /\ cursor \in Nat /\ nextChallengeId \in Nat /\ n \in Nat
      /\ cursor <= n /\ n <= nextChallengeId
      /\ DOMAIN challenges = cursor..(nextChallengeId - 1)
  BY DEF IInv, TypeOK, OnFile
<1>3. DOMAIN challenges' = DOMAIN challenges \ (cursor..(n - 1))
  BY <1>1 DEF Delete
<1>4. removed = cursor..(n - 1)
  BY <1>2, <1>3
<1>5. ASSUME NEW id \in DOMAIN challenges
      PROVE /\ id + 1 \in DOMAIN issued /\ id \in Nat
            /\ challenges[id].expiresAt = issued[id + 1].at + CHALLENGE_TTL
            /\ issued[id + 1].at \in Nat
  <2>1. id + 1 \in DOMAIN issued /\ id \in Nat
    BY <1>2, IssuedTypes DEF IInv, IssuedInOrder
  <2>2. issued[id + 1].challenge \in Challenge /\ issued[id + 1].at \in 0..MaxTime
    BY <2>1, IssuedTypes DEF IInv
  <2>3. challenges[id].expiresAt = issued[id + 1].at + CHALLENGE_TTL
    BY <2>1, <2>2 DEF IInv, OnFile, IssuedInOrder, Challenge
  <2> QED BY <2>1, <2>2, <2>3
<1>6. ASSUME NEW id \in cursor..(n - 1)
      PROVE id \in ExpiredOnFile
  BY <1>1, <1>2 DEF SweepsTo, Passes, ExpiredOnFile
<1>7. CASE n = nextChallengeId
  BY <1>2, <1>4, <1>6, <1>7 DEF ExpiredOnFile
<1>8. CASE n - cursor = MAX_PRUNE
  <2>1. cursor \in Int /\ n - 1 \in Int /\ ~(cursor > n - 1)
    BY <1>2, <1>8
  <2>2. Cardinality(cursor..(n - 1)) = (n - 1) - cursor + 1
    BY <2>1, FS_Interval
  <2>3. (n - 1) - cursor + 1 = MAX_PRUNE
    BY <1>2, <1>8
  <2> QED BY <1>4, <1>6, <2>2, <2>3
<1>9. CASE ~Passes(n)
  <2>1. n \in DOMAIN challenges /\ ~Expired(challenges[n])
    BY <1>9 DEF Passes
  <2>2. ASSUME NEW id \in ExpiredOnFile
        PROVE id \in cursor..(n - 1)
    <3>1. id \in DOMAIN challenges /\ Expired(challenges[id])
      BY DEF ExpiredOnFile
    <3>2. CASE n <= id
      <4>1. issued[n + 1].at <= issued[id + 1].at
        <5>1. n + 1 <= id + 1
          BY <1>2, <1>5, <3>1, <3>2
        <5> QED BY <1>5, <2>1, <3>1, <5>1 DEF IInv, IssuedInOrder
      <4>2. now \in Nat
        BY DEF IInv, TypeOK, CanisterTypeOK
      <4> QED BY <1>5, <2>1, <3>1, <4>1, <4>2 DEF Expired
    <3> QED BY <1>2, <3>1, <3>2
  <2> QED BY <1>4, <1>6, <2>2
<1> QED BY <1>1, <1>4, <1>6, <1>7, <1>8, <1>9 DEF SweepsTo

\* A challenge that leaves the store has expired, and only its bound keeps a
\* heartbeat from removing every expired challenge, wherever it is.
THEOREM StoreSweepIsExact == Spec => SweepIsExact
<1> DEFINE removed == DOMAIN challenges \ DOMAIN challenges'
<1>1. ASSUME IInv, [Next]_vars
      PROVE /\ removed \subseteq ExpiredOnFile
            /\ Heartbeat => \/ removed = ExpiredOnFile
                            \/ Cardinality(removed) = MAX_PRUNE
  <2>1. CASE Heartbeat
    BY <1>1, <2>1, SweepRemoves
  <2>2. CASE ~Heartbeat
    <3>1. ASSUME NEW caller \in Principals, NEW purpose \in Purposes,
                 RequestChallenge(caller, purpose)
          PROVE removed = {}
      BY <3>1 DEF RequestChallenge, Put
    <3>2. ASSUME NEW caller \in Principals, NEW c \in Ids, NEW inputs \in PresentedInputs,
                 NEW nullifier \in Nullifiers, NEW valid \in BOOLEAN,
                 Verify(caller, c, inputs, nullifier, valid)
          PROVE removed = {}
      BY <3>2 DEF Verify, RefuseVerify, AcceptVerify, Put
    <3>3. CASE Quiet
      BY <1>1, <2>2, <3>3, QuietKeepsHeap DEF heapVars
    <3> QED BY <1>1, <2>2, <3>1, <3>2, <3>3 DEF Next, Quiet
  <2> QED BY <2>1, <2>2
<1>2. IInv /\ [Next]_vars =>
        LET gone == DOMAIN challenges \ DOMAIN challenges'
        IN /\ gone \subseteq ExpiredOnFile
           /\ Heartbeat => gone = ExpiredOnFile \/ Cardinality(gone) = MAX_PRUNE
  BY <1>1
<1> QED BY Invariance, <1>2, PTL DEF Spec, SweepIsExact
-----------------------------------------------------------------------------
\* requestChallenge is a throttled endpoint: seen through its own store of
\* calls, every step of the store is a step of ThrottledEndpoint or a stutter.
THEOREM RequestsRefineEndpoint == Spec => RequestsAreThrottled
<1> DEFINE served == [i \in DOMAIN issued |->
                        [caller |-> issued[i].caller, at |-> issued[i].at]]
<1>1. Init => RequestEndpoint!Init
  <2> SUFFICES ASSUME Init PROVE RequestEndpoint!Init
    OBVIOUS
  <2>1. served = <<>>
    BY DEF Init, StoreInit
  <2> QED BY <2>1 DEF Init, StoreInit, CanisterInit, EmptyMap, RequestEndpoint!Init,
                      RequestEndpoint!CanisterInit, RequestEndpoint!EmptyMap
<1>2. ASSUME IInv, [Next]_vars
      PROVE [RequestEndpoint!Next]_RequestEndpoint!vars
  <2> USE DEF canisterVars, RequestEndpoint!vars, RequestEndpoint!endpointVars,
              RequestEndpoint!canisterVars
  <2>1. ASSUME NEW caller \in Principals, NEW purpose \in Purposes,
               RequestChallenge(caller, purpose)
        PROVE RequestEndpoint!Next
    <3>1. served' = Append(served, [caller |-> caller, at |-> now])
      <4> DEFINE request == [caller |-> caller, at |-> now,
                             challenge |-> NewChallenge(purpose)]
      <4>1. request.caller = caller /\ request.at = now
        OBVIOUS
      <4>2. issued' = Append(issued, request)
        BY <2>1 DEF RequestChallenge
      <4> HIDE DEF request
      <4>3. issued \in Seq(Request)
        BY <1>2 DEF IInv, TypeOK
      <4>4. /\ Len(issued) \in Nat
            /\ DOMAIN issued = 1..Len(issued)
            /\ DOMAIN issued' = 1..(Len(issued) + 1)
            /\ \A i \in 1..Len(issued) : issued'[i] = issued[i]
            /\ issued'[Len(issued) + 1] = request
        BY <4>2, <4>3
      <4>5. /\ served \in Seq([caller : {issued[i].caller : i \in DOMAIN issued},
                               at : {issued[i].at : i \in DOMAIN issued}])
            /\ Len(served) = Len(issued)
        BY <4>4
      <4> QED BY <4>1, <4>4, <4>5
    <3> QED BY <2>1, <3>1 DEF RequestChallenge, RequestEndpoint!Next,
              RequestEndpoint!Call, RequestEndpoint!Running, Running, Admits,
              RequestEndpoint!Admits, Stamp, RequestEndpoint!Stamp, Put,
              RequestEndpoint!Put, stableVars
  <2>2. ASSUME NEW caller \in Principals, NEW id \in Ids, NEW inputs \in PresentedInputs,
               NEW nullifier \in Nullifiers, NEW valid \in BOOLEAN,
               Verify(caller, id, inputs, nullifier, valid)
        PROVE UNCHANGED RequestEndpoint!vars
    BY <2>2 DEF Verify, AcceptVerify, RefuseVerify, stableVars, observerVars
  <2>3. CASE Heartbeat \/ RootMoves \/ UNCHANGED vars
    BY <2>3 DEF Heartbeat, RootMoves, vars, storeVars, heapVars, stableVars, observerVars
  <2>4. CASE TimePasses
    BY <2>4 DEF TimePasses, storeVars, heapVars, stableVars, observerVars,
                RequestEndpoint!Next, RequestEndpoint!TimePasses, Tick,
                RequestEndpoint!Tick, Running, RequestEndpoint!Running
  <2>5. CASE PreUpgrade
    BY <2>5 DEF PreUpgrade, heapVars, observerVars,
                RequestEndpoint!Next, RequestEndpoint!PreUpgrade, UpgradeStarts,
                RequestEndpoint!UpgradeStarts, Entries, RequestEndpoint!Entries
  <2>6. CASE PostUpgrade
    BY <2>6 DEF PostUpgrade, StableArraysDrained, observerVars,
                RequestEndpoint!Next, RequestEndpoint!PostUpgrade, UpgradeEnds,
                RequestEndpoint!UpgradeEnds, FromIter, RequestEndpoint!FromIter
  <2>7. CASE UpgradeTraps
    BY <2>7 DEF UpgradeTraps, StableArraysDrained, heapVars, observerVars,
                RequestEndpoint!Next, RequestEndpoint!UpgradeTraps, UpgradeEnds,
                RequestEndpoint!UpgradeEnds
  <2> QED BY <1>2, <2>1, <2>2, <2>3, <2>4, <2>5, <2>6, <2>7 DEF Next
<1> QED BY Invariance, <1>1, <1>2, PTL DEF Spec, RequestEndpoint!Spec, RequestsAreThrottled
-----------------------------------------------------------------------------
\* A challenge that verify finds presentable is one its client still has open.
LEMMA PresentableIsOpen ==
  ASSUME IInv, NEW id \in Ids, NEW inputs, NEW nullifier,
         Presentable(id, inputs, nullifier)
  PROVE  Status(id) = "open"
<1>1. /\ id \in DOMAIN challenges /\ id \in Nat
      /\ id < nextChallengeId
      /\ id + 1 \in DOMAIN issued
  BY IssuedTypes DEF Presentable, IInv, TypeOK, OnFile, IssuedInOrder, Ids
<1>2. issued[id + 1].challenge \in Challenge
  BY <1>1, IssuedTypes DEF IInv
<1>3. /\ challenges[id].consumed = Accepted(id)
      /\ challenges[id].expiresAt = issued[id + 1].challenge.expiresAt
  BY <1>1, <1>2 DEF IInv, OnFile, Challenge
<1>4. ~Accepted(id)
  BY <1>3 DEF Presentable
<1>5. ~Expired(issued[id + 1].challenge)
  BY <1>3 DEF Presentable, Expired
<1>6. ~(id >= nextChallengeId)
  BY <1>1 DEF IInv, TypeOK
<1> QED BY <1>4, <1>5, <1>6 DEF Status

\* The store keeps the promise of SingleUseChallenge: every step shows its
\* clients a challenge issued, one accepted with a fresh nullifier, some that
\* lapse, or nothing; no step takes a challenge or a nullifier back.
THEOREM StoreKeepsPromise == Spec => KeepsPromise
<1> DEFINE status == [id \in Ids |-> Status(id)]
           spent == {n \in Nullifiers : Spent(n)}
<1>1. Init => Client!PromiseInit
  <2> SUFFICES ASSUME Init PROVE Client!PromiseInit
    OBVIOUS
  <2>1. \A id \in Ids : Status(id) = "unissued"
    BY DEF Init, StoreInit, Status, Ids
  <2>2. spent = {}
    BY EmptyIsMap DEF Init, StoreInit, Spent
  <2> QED BY <2>1, <2>2 DEF Client!PromiseInit
<1>2. ASSUME IInv, [Next]_vars
      PROVE [Client!PromiseNext]_Client!promiseVars
  <2> USE DEF Client!promiseVars
  <2>1. ASSUME UNCHANGED <<now, nextChallengeId, issued, receipts, nullifiers>>
        PROVE UNCHANGED Client!promiseVars
    BY <2>1 DEF Status, Accepted, Expired, Spent
  <2>2. ASSUME NEW caller \in Principals, NEW purpose \in Purposes,
               RequestChallenge(caller, purpose)
        PROVE Client!PromiseNext
    <3>0. PICK new \in Ids : new = nextChallengeId
      BY <1>2, <2>2 DEF RequestChallenge, InBounds, Ids, IInv, TypeOK
    <3>1. /\ new = nextChallengeId /\ nextChallengeId' = new + 1
          /\ receipts' = receipts /\ nullifiers' = nullifiers /\ now' = now
          /\ Len(issued) = new
      BY <1>2, <2>2, <3>0 DEF RequestChallenge, canisterVars, IInv, IssuedInOrder
    <3>2. /\ DOMAIN issued = 1..new
          /\ \A i \in DOMAIN issued : issued'[i] = issued[i]
          /\ issued'[new + 1].challenge.expiresAt = now + CHALLENGE_TTL
          /\ now \in Nat
      <4> DEFINE request == [caller |-> caller, at |-> now,
                             challenge |-> NewChallenge(purpose)]
      <4>1. request.challenge.expiresAt = now + CHALLENGE_TTL
        BY DEF NewChallenge
      <4>2. issued' = Append(issued, request)
        BY <2>2 DEF RequestChallenge
      <4>3. issued \in Seq(Request)
        BY <1>2 DEF IInv, TypeOK
      <4> HIDE DEF request
      <4>4. /\ DOMAIN issued = 1..new
            /\ \A i \in DOMAIN issued : issued'[i] = issued[i]
            /\ issued'[new + 1] = request
        BY <3>1, <4>2, <4>3
      <4> QED BY <1>2, <4>1, <4>4 DEF IInv, TypeOK, CanisterTypeOK
    <3>3. ~Accepted(new)
      BY <1>2, <3>1, <3>2 DEF IInv, AcceptedAsIssued, Accepted, Ids
    <3>4. Status(new) = "unissued" /\ Status(new)' = "open"
      <4>1. new >= new /\ ~(new >= new + 1)
        BY <3>1 DEF Ids
      <4>2. ~Accepted(new)'
        BY <3>1, <3>3 DEF Accepted
      <4>3. ~Expired(issued[new + 1].challenge)'
        BY <3>1, <3>2 DEF Expired
      <4>4. Status(new) = "unissued"
        BY <3>1, <4>1 DEF Status
      <4>5. Status(new)' = IF new >= new + 1 THEN "unissued"
                           ELSE IF Accepted(new)' THEN "accepted"
                           ELSE IF Expired(issued[new + 1].challenge)' THEN "lapsed"
                           ELSE "open"
        BY <3>1 DEF Status
      <4> QED BY <4>1, <4>2, <4>3, <4>4, <4>5
    <3>5. ASSUME NEW id \in Ids, id # new
          PROVE Status(id)' = Status(id)
      <4>1. /\ id >= new <=> id >= new + 1
            /\ id < new => id + 1 \in DOMAIN issued
        BY <3>1, <3>2, <3>5 DEF Ids
      <4>2. ~(id >= new) <=> id < new
        BY <3>1 DEF Ids
      <4> QED BY <3>1, <3>2, <4>1, <4>2 DEF Status, Accepted, Expired
    <3>6. \A older \in Ids : older < new => Status(older) # "unissued"
      BY <3>1 DEF Status, Ids
    <3>7. status' = [status EXCEPT ![new] = "open"]
      BY <3>1, <3>4, <3>5
    <3>8. spent' = spent
      BY <3>1 DEF Spent
    <3>9. Client!Issue(new)
      BY <3>1, <3>4, <3>6, <3>7, <3>8 DEF Client!Issue
    <3> QED BY <3>1, <3>9 DEF Client!PromiseNext
  <2>3. ASSUME NEW caller \in Principals, NEW id \in Ids, NEW inputs \in PresentedInputs,
               NEW nullifier \in Nullifiers, NEW valid \in BOOLEAN,
               Verify(caller, id, inputs, nullifier, valid)
        PROVE [Client!PromiseNext]_Client!promiseVars
    <3>1. CASE ~(Presentable(id, inputs, nullifier) /\ valid)
      BY <2>1, <2>3, <3>1 DEF Verify, RefuseVerify, canisterVars, counterVars, observerVars
    <3>2. CASE Presentable(id, inputs, nullifier) /\ valid
      <4> DEFINE receipt == [caller |-> caller, at |-> now, challengeId |-> id,
                             inputs |-> inputs, nullifier |-> nullifier]
      <4>1. /\ receipts' = Append(receipts, receipt)
            /\ nullifiers' = Put(nullifiers, nullifier, TRUE)
            /\ issued' = issued /\ nextChallengeId' = nextChallengeId /\ now' = now
        BY <2>3, <3>2 DEF Verify, AcceptVerify, counterVars, canisterVars
      <4>2. receipt.challengeId = id
        OBVIOUS
      <4> HIDE DEF receipt
      <4>3. \A x : Accepted(x)' <=> Accepted(x) \/ x = id
        <5>1. receipts \in Seq(Receipt)
          BY <1>2 DEF IInv, TypeOK
        <5>2. /\ Len(receipts) \in Nat
              /\ DOMAIN receipts = 1..Len(receipts)
              /\ DOMAIN receipts' = 1..(Len(receipts) + 1)
              /\ \A i \in DOMAIN receipts : receipts'[i] = receipts[i]
              /\ receipts'[Len(receipts) + 1] = receipt
          BY <4>1, <5>1
        <5> QED BY <4>2, <5>2 DEF Accepted
      <4>4. Status(id) = "open"
        BY <1>2, <3>2, PresentableIsOpen
      <4>5. ASSUME NEW x \in Ids
            PROVE Status(x)' = IF x = id THEN "accepted" ELSE Status(x)
        <5>1. CASE x = id
          BY <4>1, <4>3, <4>4, <5>1 DEF Status
        <5>2. CASE x # id
          <6>1. Accepted(x)' <=> Accepted(x)
            BY <4>3, <5>2
          <6> QED BY <4>1, <5>2, <6>1 DEF Status, Expired
        <5> QED BY <5>1, <5>2
      <4>6. status' = [status EXCEPT ![id] = "accepted"]
        BY <4>5
      <4>7. nullifier \notin spent /\ spent' = spent \cup {nullifier}
        BY <3>2, <4>1 DEF Presentable, Spent, Put
      <4>8. Client!Accept(id, nullifier)
        BY <4>4, <4>6, <4>7 DEF Client!Accept
      <4> QED BY <4>8 DEF Client!PromiseNext
    <3> QED BY <3>1, <3>2
  <2>4. CASE Heartbeat
    BY <2>1, <2>4 DEF Heartbeat, canisterVars, observerVars
  <2>5. CASE Quiet
    <3> DEFINE gone == {id \in Ids : Status(id) = "open" /\ Status(id)' = "lapsed"}
    <3>1. /\ UNCHANGED <<nextChallengeId, issued, receipts, nullifiers>>
          /\ now \in Nat /\ now' \in Nat /\ now <= now'
      BY <1>2, <2>5, QuietKeepsHeap DEF heapVars, counterVars, observerVars, IInv, TypeOK,
                                        CanisterTypeOK
    <3>2. ASSUME NEW id \in Ids
          PROVE Status(id)' = IF id \in gone THEN "lapsed" ELSE Status(id)
      <4>1. CASE id >= nextChallengeId \/ Accepted(id)
        BY <3>1, <4>1 DEF Status, Accepted
      <4>2. CASE ~(id >= nextChallengeId) /\ ~Accepted(id)
        <5>1. id + 1 \in DOMAIN issued
          BY <1>2, <4>2, IssuedTypes DEF IInv, IssuedInOrder, Ids, TypeOK
        <5>2. issued[id + 1].challenge.expiresAt \in Nat
          BY <1>2, <5>1, IssuedTypes DEF IInv
        <5>3. Expired(issued[id + 1].challenge) => Expired(issued[id + 1].challenge)'
          BY <3>1, <5>2 DEF Expired
        <5> QED BY <3>1, <4>2, <5>3 DEF Status, Accepted
      <4> QED BY <4>1, <4>2
    <3>3. /\ gone \in SUBSET Ids /\ \A id \in gone : status[id] = "open"
          /\ status' = [id \in Ids |-> IF id \in gone THEN "lapsed" ELSE status[id]]
      <4>1. \A id \in gone : status[id] = "open"
        OBVIOUS
      <4>2. status' = [id \in Ids |-> Status(id)']
        BY DEF Ids
      <4> HIDE DEF gone
      <4>3. status' = [id \in Ids |-> IF id \in gone THEN "lapsed" ELSE Status(id)]
        BY <3>2, <4>2
      <4> QED BY <4>1, <4>3 DEF gone
    <3>4. spent' = spent
      BY <3>1 DEF Spent
    <3>5. Client!Lapse(gone)
      BY <3>3, <3>4 DEF Client!Lapse
    <3> QED BY <3>3, <3>5 DEF Client!PromiseNext
  <2> QED BY <1>2, <2>2, <2>3, <2>4, <2>5 DEF Next, Quiet
<1> QED BY Invariance, <1>1, <1>2, PTL DEF Spec, Client!Promise, KeepsPromise
=============================================================================
