------------------------- MODULE ThrottledEndpoint --------------------------
(***************************************************************************)
(* One gated endpoint of the canister (requestChallenge or verify) reduced *)
(* to its throttle: the store of last calls, the stable array that carries *)
(* it over an upgrade, and the log of the calls that were let through.     *)
(* The log is an observer: the canister does not keep it.                  *)
(***************************************************************************)
EXTENDS Canister, Throttle, Sequences

VARIABLES lastCallAt,       \* lastChallengeCallAt or lastVerifyCallAt
          throttleEntries,  \* its stable array
          served            \* observer: calls let through, in order

endpointVars == <<lastCallAt, throttleEntries, served>>
vars == <<canisterVars, endpointVars>>

Callers == Principals \ {Anonymous}

CallRecord == [caller : Callers, at : 0..MaxTime]

TypeOK ==
  /\ CanisterTypeOK
  /\ DOMAIN lastCallAt \subseteq Callers
  /\ \A c \in DOMAIN lastCallAt : lastCallAt[c] \in 0..now
  /\ throttleEntries \in SUBSET (Callers \X (0..MaxTime))
  /\ served \in Seq(CallRecord)

Init == /\ CanisterInit
        /\ lastCallAt = EmptyMap
        /\ throttleEntries = {}
        /\ served = <<>>

\* A call that the throttle lets through; one that it refuses changes nothing.
Call(caller) ==
  /\ Running
  /\ Admits(lastCallAt, caller, now)
  /\ lastCallAt' = Stamp(lastCallAt, caller, now)
  /\ served' = Append(served, [caller |-> caller, at |-> now])
  /\ UNCHANGED <<canisterVars, throttleEntries>>

TimePasses == Tick /\ UNCHANGED endpointVars

PreUpgrade == /\ UpgradeStarts
              /\ throttleEntries' = Entries(lastCallAt)
              /\ UNCHANGED <<lastCallAt, served>>

PostUpgrade == /\ UpgradeEnds
               /\ lastCallAt' = FromIter(throttleEntries)
               /\ throttleEntries' = {}
               /\ UNCHANGED served

UpgradeTraps == /\ UpgradeEnds
                /\ throttleEntries' = {}
                /\ UNCHANGED <<lastCallAt, served>>

Next == \/ \E caller \in Principals : Call(caller)
        \/ TimePasses
        \/ PreUpgrade
        \/ PostUpgrade
        \/ UpgradeTraps

Spec == Init /\ [][Next]_vars
-----------------------------------------------------------------------------
\* Two calls of one principal that were both let through are at least the
\* interval apart, upgrades and rolled-back upgrades in between included
\* (MIN_CALL_INTERVAL_NS, "2s per principal per endpoint").
Spacing ==
  \A i, j \in DOMAIN served :
    (i < j /\ served[i].caller = served[j].caller)
      => served[j].at - served[i].at >= MIN_CALL_INTERVAL

\* The store holds exactly the time of each principal's latest call that was
\* let through: a refused call never extends the wait (checkAndUpdateThrottle
\* returns before store.put), and an upgrade forgets nobody.
StampsLatest ==
  /\ \A i \in DOMAIN served : /\ served[i].caller \in DOMAIN lastCallAt
                               /\ served[i].at <= lastCallAt[served[i].caller]
  /\ \A c \in DOMAIN lastCallAt :
       \E i \in DOMAIN served : served[i] = [caller |-> c, at |-> lastCallAt[c]]
=============================================================================
