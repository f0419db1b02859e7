------------------------- MODULE SingleUseChallenge -------------------------
(***************************************************************************)
(* What the challenge store promises its clients, without stores, clocks,  *)
(* sweeps or upgrades: a challenge is issued once, in id order, and then   *)
(* is either accepted once, spending a nullifier for good, or lapses.      *)
(***************************************************************************)
EXTENDS Integers

CONSTANTS ChallengeIds,   \* an initial segment of the naturals
          NullifierNames

VARIABLES status,         \* of each challenge
          spent           \* nullifiers that were accepted

promiseVars == <<status, spent>>

PromiseInit == /\ status = [id \in ChallengeIds |-> "unissued"]
               /\ spent = {}

Issue(id) == /\ status[id] = "unissued"
             /\ \A older \in ChallengeIds : older < id => status[older] # "unissued"
             /\ status' = [status EXCEPT ![id] = "open"]
             /\ UNCHANGED spent

Accept(id, nullifier) == /\ status[id] = "open"
                         /\ nullifier \notin spent
                         /\ status' = [status EXCEPT ![id] = "accepted"]
                         /\ spent' = spent \cup {nullifier}

\* The clock can take several challenges past their lifetime at once.
Lapse(ids) == /\ \A id \in ids : status[id] = "open"
              /\ status' = [id \in ChallengeIds |->
                              IF id \in ids THEN "lapsed" ELSE status[id]]
              /\ UNCHANGED spent

PromiseNext == \/ \E id \in ChallengeIds : Issue(id)
               \/ \E id \in ChallengeIds, n \in NullifierNames : Accept(id, n)
               \/ \E ids \in SUBSET ChallengeIds : Lapse(ids)

Promise == PromiseInit /\ [][PromiseNext]_promiseVars
=============================================================================
