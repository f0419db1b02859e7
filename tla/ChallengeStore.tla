--------------------------- MODULE ChallengeStore ---------------------------
(***************************************************************************)
(* The challenge store of the TitleRegistry canister: requestChallenge,    *)
(* verify, the heartbeat that prunes expired challenges, the nullifier     *)
(* store, and the part of the upgrade hooks that carries them over.        *)
(*                                                                         *)
(* Two things are left open here and closed by TitleRegistry: how the root *)
(* of the tree moves, and what a proof is (the verdict of the verifier is  *)
(* an input of verify, as is whether a verifying key is configured).       *)
(***************************************************************************)
EXTENDS Canister, Throttle, Sequences, FiniteSets

CONSTANTS Purposes, Roots, Nullifiers,   \* what clients and the tree can name
          registryId,
          CHALLENGE_TTL,                 \* CHALLENGE_TTL_NS, in clock ticks
          SECOND,                        \* clock ticks in a second
          MAX_PRUNE,                     \* MAX_PRUNE_PER_HEARTBEAT
          MaxChallenges                  \* bound on challenges issued

ASSUME ChallengeAssumption == /\ CHALLENGE_TTL \in Nat
                              /\ SECOND \in Nat \ {0}
                              /\ MAX_PRUNE \in Nat \ {0}
                              /\ MaxChallenges \in Nat

VARIABLES
  currentRoot,
  challenges, nextChallengeId, nextNonce, oldestUnprunedChallengeId,
  nullifiers,
  lastChallengeCallAt, lastVerifyCallAt,
  \* the stable arrays
  challengeEntries, spentNullifiers,
  challengeThrottleEntries, verifyThrottleEntries,
  \* observers: the #ok replies of requestChallenge and of verify, in order
  issued, receipts

heapVars == <<challenges, nullifiers, lastChallengeCallAt, lastVerifyCallAt>>
counterVars == <<nextChallengeId, nextNonce, oldestUnprunedChallengeId>>
stableVars == <<challengeEntries, spentNullifiers,
                challengeThrottleEntries, verifyThrottleEntries>>
observerVars == <<issued, receipts>>
storeVars == <<heapVars, counterVars, stableVars, observerVars>>
vars == <<canisterVars, currentRoot, storeVars>>

Callers == Principals \ {Anonymous}
Ids == 0..(MaxChallenges - 1)

Challenge == [registryId : {registryId}, merkleRoot : Roots, purpose : Purposes,
              requestNonce : Ids, currentTimestamp : Nat, expiresAt : Nat,
              consumed : BOOLEAN]

\* The public inputs that a challenge pins, in the order verify compares them.
Pinned(c) == <<c.registryId, c.merkleRoot, c.purpose, c.requestNonce,
               c.currentTimestamp>>

Expired(c) == now > c.expiresAt

Inputs == {registryId} \X Roots \X Purposes \X Ids \X Nat

Request == [caller : Callers, at : 0..MaxTime, challenge : Challenge]

Receipt == [caller : Callers, at : 0..MaxTime, challengeId : Ids,
            inputs : Inputs, nullifier : Nullifiers]

CallTimes == 0..MaxTime

TypeOK ==
  /\ CanisterTypeOK
  /\ currentRoot \in Roots
  /\ nextChallengeId \in 0..MaxChallenges
  /\ nextNonce \in 0..MaxChallenges
  /\ oldestUnprunedChallengeId \in 0..MaxChallenges
  /\ DOMAIN challenges \subseteq Ids
  /\ \A id \in DOMAIN challenges : challenges[id] \in Challenge
  /\ DOMAIN nullifiers \subseteq Nullifiers
  /\ \A n \in DOMAIN nullifiers : nullifiers[n] \in BOOLEAN
  /\ DOMAIN lastChallengeCallAt \subseteq Callers
  /\ \A c \in DOMAIN lastChallengeCallAt : lastChallengeCallAt[c] \in CallTimes
  /\ DOMAIN lastVerifyCallAt \subseteq Callers
  /\ \A c \in DOMAIN lastVerifyCallAt : lastVerifyCallAt[c] \in CallTimes
  /\ challengeEntries \in SUBSET (Ids \X Challenge)
  /\ spentNullifiers \in SUBSET (Nullifiers \X BOOLEAN)
  /\ challengeThrottleEntries \in SUBSET (Callers \X CallTimes)
  /\ verifyThrottleEntries \in SUBSET (Callers \X CallTimes)
  /\ issued \in Seq(Request)
  /\ receipts \in Seq(Receipt)

StoreInit ==
  /\ challenges = EmptyMap
  /\ nullifiers = EmptyMap
  /\ lastChallengeCallAt = EmptyMap
  /\ lastVerifyCallAt = EmptyMap
  /\ nextChallengeId = 0
  /\ nextNonce = 0
  /\ oldestUnprunedChallengeId = 0
  /\ challengeEntries = {}
  /\ spentNullifiers = {}
  /\ challengeThrottleEntries = {}
  /\ verifyThrottleEntries = {}
  /\ issued = <<>>
  /\ receipts = <<>>

Init == CanisterInit /\ currentRoot \in Roots /\ StoreInit
-----------------------------------------------------------------------------
NewChallenge(purpose) ==
  [registryId |-> registryId, merkleRoot |-> currentRoot, purpose |-> purpose,
   requestNonce |-> nextNonce, currentTimestamp |-> now \div SECOND,
   expiresAt |-> now + CHALLENGE_TTL, consumed |-> FALSE]

\* The bounds of the model: so many challenges, each of which the clock outlives.
InBounds == /\ nextChallengeId < MaxChallenges
            /\ now + CHALLENGE_TTL < MaxTime

\* A call the throttle refuses changes nothing.
RequestChallenge(caller, purpose) ==
  /\ Running
  /\ InBounds
  /\ Admits(lastChallengeCallAt, caller, now)
  /\ lastChallengeCallAt' = Stamp(lastChallengeCallAt, caller, now)
  /\ nextChallengeId' = nextChallengeId + 1
  /\ nextNonce' = nextNonce + 1
  /\ challenges' = Put(challenges, nextChallengeId, NewChallenge(purpose))
  /\ issued' = Append(issued, [caller |-> caller, at |-> now,
                               challenge |-> NewChallenge(purpose)])
  /\ UNCHANGED <<canisterVars, currentRoot, oldestUnprunedChallengeId,
                 nullifiers, lastVerifyCallAt, stableVars, receipts>>

Spent(nullifier) == nullifier \in DOMAIN nullifiers /\ nullifiers[nullifier]

\* Mutants: the consumed flag is not read; the root is not compared, or is
\* compared with the tree's own.
Presentable_Reusable(id, inputs, nullifier) ==
  /\ id \in DOMAIN challenges
  /\ ~Expired(challenges[id])
  /\ inputs = Pinned(challenges[id])
  /\ ~Spent(nullifier)

Presentable_AnyRoot(id, inputs, nullifier) ==
  /\ id \in DOMAIN challenges
  /\ ~challenges[id].consumed
  /\ ~Expired(challenges[id])
  /\ Len(inputs) = 5
  /\ \A i \in {1, 3, 4, 5} : inputs[i] = Pinned(challenges[id])[i]
  /\ ~Spent(nullifier)

Presentable_CurrentRoot(id, inputs, nullifier) ==
  /\ id \in DOMAIN challenges
  /\ ~challenges[id].consumed
  /\ ~Expired(challenges[id])
  /\ inputs = [Pinned(challenges[id]) EXCEPT ![2] = currentRoot]
  /\ ~Spent(nullifier)

\* verify's checks up to and including the nullifier's, all of which come
\* before any cryptography.  The caller presents five inputs and a nullifier.
Presentable(id, inputs, nullifier) ==
  /\ id \in DOMAIN challenges
  /\ ~challenges[id].consumed
  /\ ~Expired(challenges[id])
  /\ inputs = Pinned(challenges[id])
  /\ ~Spent(nullifier)

\* A verify that passes the throttle leaves its mark there even when it is
\* refused; nothing else changes.
RefuseVerify(caller) ==
  /\ lastVerifyCallAt' = Stamp(lastVerifyCallAt, caller, now)
  /\ UNCHANGED <<canisterVars, currentRoot, counterVars, challenges, nullifiers,
                 lastChallengeCallAt, stableVars, observerVars>>

\* Mutant: the nullifier is not recorded.
AcceptVerify_Unspent(caller, id, inputs, nullifier) ==
  /\ lastVerifyCallAt' = Stamp(lastVerifyCallAt, caller, now)
  /\ challenges' = Put(challenges, id, [challenges[id] EXCEPT !.consumed = TRUE])
  /\ receipts' = Append(receipts,
       [caller |-> caller, at |-> now, challengeId |-> id,
        inputs |-> inputs, nullifier |-> nullifier])
  /\ UNCHANGED <<canisterVars, currentRoot, counterVars, lastChallengeCallAt,
                 nullifiers, stableVars, issued>>

AcceptVerify(caller, id, inputs, nullifier) ==
  /\ lastVerifyCallAt' = Stamp(lastVerifyCallAt, caller, now)
  /\ challenges' = Put(challenges, id, [challenges[id] EXCEPT !.consumed = TRUE])
  /\ nullifiers' = Put(nullifiers, nullifier, TRUE)
  /\ receipts' = Append(receipts,
       [caller |-> caller, at |-> now, challengeId |-> id,
        inputs |-> inputs, nullifier |-> nullifier])
  /\ UNCHANGED <<canisterVars, currentRoot, counterVars, lastChallengeCallAt,
                 stableVars, issued>>

\* Mutant: the challenge is marked consumed before the proof is verified.
Verify_MarksFirst(caller, id, inputs, nullifier, valid) ==
  /\ Running
  /\ Admits(lastVerifyCallAt, caller, now)
  /\ CASE Presentable(id, inputs, nullifier) /\ valid ->
            AcceptVerify(caller, id, inputs, nullifier)
       [] Presentable(id, inputs, nullifier) /\ ~valid ->
            /\ lastVerifyCallAt' = Stamp(lastVerifyCallAt, caller, now)
            /\ challenges' = Put(challenges, id, [challenges[id] EXCEPT !.consumed = TRUE])
            /\ UNCHANGED <<canisterVars, currentRoot, counterVars, nullifiers,
                           lastChallengeCallAt, stableVars, observerVars>>
       [] OTHER -> RefuseVerify(caller)

\* valid: a verifying key is configured and the proof verifies under it for
\* exactly these inputs.
Verify(caller, id, inputs, nullifier, valid) ==
  /\ Running
  /\ Admits(lastVerifyCallAt, caller, now)
  /\ IF Presentable(id, inputs, nullifier) /\ valid
       THEN AcceptVerify(caller, id, inputs, nullifier)
       ELSE RefuseVerify(caller)
-----------------------------------------------------------------------------
\* Mutants: a consumed challenge is pruned early; a consumed one is never pruned.
Passes_Consumed(id) ==
  id \in DOMAIN challenges => Expired(challenges[id]) \/ challenges[id].consumed

Passes_NotConsumed(id) ==
  id \in DOMAIN challenges => Expired(challenges[id]) /\ ~challenges[id].consumed

\* The heartbeat's loop passes over an id whose challenge is gone or expired.
Passes(id) == id \in DOMAIN challenges => Expired(challenges[id])

\* Mutant: the bound is off by one.
SweepsTo_OneShort(n) ==
  /\ n \in oldestUnprunedChallengeId..nextChallengeId
  /\ n - oldestUnprunedChallengeId <= MAX_PRUNE - 1
  /\ \A id \in oldestUnprunedChallengeId..(n - 1) : Passes(id)
  /\ \/ n = nextChallengeId
     \/ n - oldestUnprunedChallengeId = MAX_PRUNE - 1
     \/ ~Passes(n)

\* The loop leaves the cursor at n: it passed every id before n, and stopped
\* at the newest id, at the bound, or at a challenge that is still live.
SweepsTo(n) ==
  /\ n \in oldestUnprunedChallengeId..nextChallengeId
  /\ n - oldestUnprunedChallengeId <= MAX_PRUNE
  /\ \A id \in oldestUnprunedChallengeId..(n - 1) : Passes(id)
  /\ \/ n = nextChallengeId
     \/ n - oldestUnprunedChallengeId = MAX_PRUNE
     \/ ~Passes(n)

Heartbeat ==
  /\ Running
  /\ \E n \in oldestUnprunedChallengeId..nextChallengeId :
       /\ SweepsTo(n)
       /\ challenges' = Delete(challenges, oldestUnprunedChallengeId..(n - 1))
       /\ oldestUnprunedChallengeId' = n
  /\ UNCHANGED <<canisterVars, currentRoot, nextChallengeId, nextNonce,
                 nullifiers, lastChallengeCallAt, lastVerifyCallAt,
                 stableVars, observerVars>>
-----------------------------------------------------------------------------
\* Mutants: the nullifiers are not saved; the challenges are not; the arrays of
\* the two throttle stores are swapped.
PreUpgrade_ForgetsNullifiers ==
  /\ UpgradeStarts
  /\ challengeEntries' = Entries(challenges)
  /\ challengeThrottleEntries' = Entries(lastChallengeCallAt)
  /\ verifyThrottleEntries' = Entries(lastVerifyCallAt)
  /\ UNCHANGED <<currentRoot, heapVars, counterVars, observerVars, spentNullifiers>>

PreUpgrade_ForgetsChallenges ==
  /\ UpgradeStarts
  /\ spentNullifiers' = Entries(nullifiers)
  /\ challengeThrottleEntries' = Entries(lastChallengeCallAt)
  /\ verifyThrottleEntries' = Entries(lastVerifyCallAt)
  /\ UNCHANGED <<currentRoot, heapVars, counterVars, observerVars, challengeEntries>>

PreUpgrade_SwapsThrottles ==
  /\ UpgradeStarts
  /\ challengeEntries' = Entries(challenges)
  /\ spentNullifiers' = Entries(nullifiers)
  /\ challengeThrottleEntries' = Entries(lastVerifyCallAt)
  /\ verifyThrottleEntries' = Entries(lastChallengeCallAt)
  /\ UNCHANGED <<currentRoot, heapVars, counterVars, observerVars>>

PreUpgrade ==
  /\ UpgradeStarts
  /\ challengeEntries' = Entries(challenges)
  /\ spentNullifiers' = Entries(nullifiers)
  /\ challengeThrottleEntries' = Entries(lastChallengeCallAt)
  /\ verifyThrottleEntries' = Entries(lastVerifyCallAt)
  /\ UNCHANGED <<currentRoot, heapVars, counterVars, observerVars>>

StableArraysDrained ==
  /\ challengeEntries' = {}
  /\ spentNullifiers' = {}
  /\ challengeThrottleEntries' = {}
  /\ verifyThrottleEntries' = {}

\* Mutant: the nonce counter is transient.
PostUpgrade_ResetsNonce ==
  /\ UpgradeEnds
  /\ challenges' = FromIter(challengeEntries)
  /\ nullifiers' = FromIter(spentNullifiers)
  /\ lastChallengeCallAt' = FromIter(challengeThrottleEntries)
  /\ lastVerifyCallAt' = FromIter(verifyThrottleEntries)
  /\ StableArraysDrained
  /\ nextNonce' = 0
  /\ UNCHANGED <<currentRoot, nextChallengeId, oldestUnprunedChallengeId, observerVars>>

\* The new actor body rebuilds the maps from the arrays, then postupgrade
\* empties the arrays.  What the heap held before is out of reach.
PostUpgrade ==
  /\ UpgradeEnds
  /\ challenges' = FromIter(challengeEntries)
  /\ nullifiers' = FromIter(spentNullifiers)
  /\ lastChallengeCallAt' = FromIter(challengeThrottleEntries)
  /\ lastVerifyCallAt' = FromIter(verifyThrottleEntries)
  /\ StableArraysDrained
  /\ UNCHANGED <<currentRoot, counterVars, observerVars>>

\* The upgrade trapped: the platform restores heap and stable memory.
UpgradeTraps ==
  /\ UpgradeEnds
  /\ StableArraysDrained
  /\ UNCHANGED <<currentRoot, heapVars, counterVars, observerVars>>

TimePasses == Tick /\ UNCHANGED <<currentRoot, storeVars>>

\* submitRecord, as far as this component sees it.
RootMoves == /\ Running
             /\ currentRoot' \in Roots \ {currentRoot}
             /\ UNCHANGED <<canisterVars, storeVars>>
-----------------------------------------------------------------------------
\* What a client may present: five inputs taken from a reply of
\* requestChallenge, not necessarily the one it names, possibly under another
\* root; or something of another shape.
PresentedInputs ==
  {<<>>} \cup
  {Pinned([issued[i].challenge EXCEPT !.merkleRoot = root]) :
     i \in DOMAIN issued, root \in Roots}

Next ==
  \/ \E caller \in Principals, purpose \in Purposes : RequestChallenge(caller, purpose)
  \/ \E caller \in Principals, id \in Ids, inputs \in PresentedInputs,
        nullifier \in Nullifiers, valid \in BOOLEAN :
       Verify(caller, id, inputs, nullifier, valid)
  \/ Heartbeat
  \/ PreUpgrade
  \/ PostUpgrade
  \/ UpgradeTraps
  \/ TimePasses
  \/ RootMoves

Spec == Init /\ [][Next]_vars

\* However often upgrades interrupt, time passes and the subnet calls the
\* heartbeat in every round that finds the canister running (strong fairness:
\* both wait for an upgrade to end); an upgrade under way completes or traps.
Fairness == /\ SF_vars(TimePasses)
            /\ SF_vars(Heartbeat)
            /\ WF_vars(PostUpgrade \/ UpgradeTraps)

FairSpec == Spec /\ Fairness
-----------------------------------------------------------------------------
Accepted(id) == \E i \in DOMAIN receipts : receipts[i].challengeId = id

\* No challenge is accepted twice and no nullifier is accepted twice, whatever
\* is pruned, upgraded or rolled back in between ("single-use", main.mo:261).
SingleUse ==
  \A i, j \in DOMAIN receipts :
    i # j => /\ receipts[i].challengeId # receipts[j].challengeId
             /\ receipts[i].nullifier # receipts[j].nullifier

\* Whatever verify accepts was issued by requestChallenge with exactly those
\* five inputs, and is accepted within the lifetime it was issued with.
AcceptedAsIssued ==
  \A i \in DOMAIN receipts :
    LET receipt == receipts[i]
        request == issued[receipt.challengeId + 1]
    IN /\ receipt.challengeId + 1 \in DOMAIN issued
       /\ receipt.inputs = Pinned(request.challenge)
       /\ receipt.at \in request.at..(request.at + CHALLENGE_TTL)

\* A challenge stays on file, as it was issued and consumed exactly when a
\* verify accepted it, for as long as it has not expired: neither the sweep
\* nor an upgrade loses one early.
KeptUntilExpiry ==
  \A i \in DOMAIN issued :
    ~Expired(issued[i].challenge) =>
      /\ i - 1 \in DOMAIN challenges
      /\ challenges[i - 1] =
           [issued[i].challenge EXCEPT !.consumed = Accepted(i - 1)]

\* The nullifiers on file are exactly those of the accepted proofs: a refused
\* verify spends nothing, and pruning a challenge frees nothing.
SpentIsAccepted ==
  \A n \in Nullifiers :
    Spent(n) <=> \E i \in DOMAIN receipts : receipts[i].nullifier = n

\* The assumption that the sweep rests on (main.mo:452-461): the ids on file
\* are contiguous, from the cursor to the newest, and expire in id order.
SweepWindow ==
  /\ DOMAIN challenges = oldestUnprunedChallengeId..(nextChallengeId - 1)
  /\ \A i, j \in DOMAIN challenges :
       i <= j => challenges[i].expiresAt <= challenges[j].expiresAt

\* No two challenges carry one nonce, so an owner's nullifier, a hash over the
\* nonce, is fresh for every challenge.
NoncesDistinct ==
  \A i, j \in DOMAIN issued :
    i # j => issued[i].challenge.requestNonce # issued[j].challenge.requestNonce

\* A challenge that leaves the store has expired, and a heartbeat that leaves
\* an expired challenge behind, wherever it is in the map, has removed as many
\* as it may: walking from the oldest id is as good as scanning the whole map.
ExpiredOnFile == {id \in DOMAIN challenges : Expired(challenges[id])}

SweepIsExact ==
  [][LET removed == DOMAIN challenges \ DOMAIN challenges'
     IN /\ removed \subseteq ExpiredOnFile
        /\ Heartbeat => \/ removed = ExpiredOnFile
                        \/ Cardinality(removed) = MAX_PRUNE]_vars

\* Only an acceptance consumes a challenge: a verify that is refused, for
\* whatever reason, leaves the challenge as usable as it was ("mark consumed /
\* spent only after a passing verification", main.mo:445).
RefusalConsumesNothing ==
  [][receipts' = receipts =>
       \A id \in DOMAIN challenges \cap DOMAIN challenges' :
         challenges'[id] = challenges[id]]_vars

\* Every challenge that is issued is eventually pruned: the store does not
\* grow without bound ("no cleanup path", main.mo:453).
EveryChallengePruned ==
  \A id \in Ids : id < nextChallengeId ~> id \notin DOMAIN challenges

\* requestChallenge is a throttled endpoint over its own store of calls.
RequestEndpoint ==
  INSTANCE ThrottledEndpoint
    WITH lastCallAt <- lastChallengeCallAt,
         throttleEntries <- challengeThrottleEntries,
         served <- [i \in DOMAIN issued |->
                      [caller |-> issued[i].caller, at |-> issued[i].at]]

RequestsAreThrottled == RequestEndpoint!Spec

\* What a client has been told of a challenge: accepted by a receipt, and
\* otherwise open until its expiresAt passes, whether or not it is on file.
Status(id) ==
  IF id >= nextChallengeId THEN "unissued"
  ELSE IF Accepted(id) THEN "accepted"
  ELSE IF Expired(issued[id + 1].challenge) THEN "lapsed"
  ELSE "open"

Client ==
  INSTANCE SingleUseChallenge
    WITH ChallengeIds <- Ids,
         NullifierNames <- Nullifiers,
         status <- [id \in Ids |-> Status(id)],
         spent <- {n \in Nullifiers : Spent(n)}

\* The store keeps the promise of SingleUseChallenge: what it accepts, forgets,
\* restores and prunes never shows a client a challenge that goes back.
KeepsPromise == Client!Promise
=============================================================================
