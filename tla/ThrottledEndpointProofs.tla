---------------------- MODULE ThrottledEndpointProofs -----------------------
(***************************************************************************)
(* Two calls of one principal to a gated endpoint are never let through    *)
(* closer together than the interval, for any principals, any interval and *)
(* any number of calls and upgrades.                                       *)
(***************************************************************************)
EXTENDS ThrottledEndpoint, DataProofs, TLAPS

\* The array holds the store's pairs while an upgrade is under way, and the
\* store is a map: what it takes to survive an upgrade.
Restorable == /\ IsMap(lastCallAt)
              /\ phase = "upgrading" => throttleEntries = Entries(lastCallAt)

IInv == TypeOK /\ Restorable /\ StampsLatest /\ Spacing

\* An endpoint nobody has called satisfies the invariant.
LEMMA InitIInv == Init => IInv
  BY EmptyIsMap, MaxTimeAssumption
     DEF Init, IInv, TypeOK, CanisterTypeOK, CanisterInit, Restorable,
         StampsLatest, Spacing

\* A call that is let through comes at least the interval after the time on
\* the store, which is the latest of the caller's calls on the log.
LEMMA CallKeepsIInv ==
  ASSUME IInv, NEW caller \in Principals, Call(caller)
  PROVE IInv'
<1> DEFINE entry == [caller |-> caller, at |-> now]
<1> USE MaxTimeAssumption, ThrottleAssumption
<1>1. /\ caller \in Callers
      /\ now \in 0..MaxTime
      /\ now' = now /\ phase' = phase /\ phase = "running"
      /\ throttleEntries' = throttleEntries
      /\ entry \in CallRecord
      /\ served \in Seq(CallRecord)
  BY DEF IInv, TypeOK, CanisterTypeOK, Call, Running, Admits, Callers, canisterVars,
         CallRecord
<1>2. /\ served' = Append(served, entry)
      /\ Len(served) \in Nat
      /\ DOMAIN served = 1..Len(served)
      /\ DOMAIN served' = 1..(Len(served) + 1)
      /\ \A i \in DOMAIN served : served'[i] = served[i]
      /\ served'[Len(served) + 1] = entry
  BY <1>1 DEF Call
<1>3. /\ IsMap(lastCallAt')
      /\ DOMAIN lastCallAt' = DOMAIN lastCallAt \cup {caller}
      /\ lastCallAt'[caller] = now
      /\ \A c \in DOMAIN lastCallAt \ {caller} : lastCallAt'[c] = lastCallAt[c]
  <2>1. lastCallAt' = Put(lastCallAt, caller, now)
    BY DEF Call, Stamp
  <2> QED BY <2>1 DEF Put, IsMap
<1>4. TypeOK'
  <2>1. CanisterTypeOK' /\ throttleEntries' \in SUBSET (Callers \X (0..MaxTime))
    BY <1>1 DEF IInv, TypeOK, CanisterTypeOK
  <2>2. /\ DOMAIN lastCallAt' \subseteq Callers
        /\ \A c \in DOMAIN lastCallAt' : lastCallAt'[c] \in 0..now'
    BY <1>1, <1>3 DEF IInv, TypeOK
  <2>3. served' \in Seq(CallRecord)
    BY <1>1, <1>2
  <2> QED BY <2>1, <2>2, <2>3 DEF TypeOK
<1>5. Restorable'
  BY <1>1, <1>3 DEF Restorable
<1>6. \A i \in DOMAIN served : /\ served[i].caller \in DOMAIN lastCallAt
                               /\ served[i].at \in 0..MaxTime
                               /\ lastCallAt[served[i].caller] \in 0..now
                               /\ served[i].at <= lastCallAt[served[i].caller]
  <2> SUFFICES ASSUME NEW i \in DOMAIN served
               PROVE /\ served[i].caller \in DOMAIN lastCallAt
                     /\ served[i].at \in 0..MaxTime
                     /\ lastCallAt[served[i].caller] \in 0..now
                     /\ served[i].at <= lastCallAt[served[i].caller]
    OBVIOUS
  <2>1. served[i] \in CallRecord
    BY <1>1, <1>2
  <2>2. served[i].caller \in DOMAIN lastCallAt
    BY DEF IInv, StampsLatest
  <2> QED BY <2>1, <2>2 DEF IInv, TypeOK, StampsLatest, CallRecord
<1>7. StampsLatest'
  <2>1. \A i \in DOMAIN served' : /\ served'[i].caller \in DOMAIN lastCallAt'
                                  /\ served'[i].at <= lastCallAt'[served'[i].caller]
    BY <1>1, <1>2, <1>3, <1>6
  <2>2. ASSUME NEW c \in DOMAIN lastCallAt'
        PROVE \E i \in DOMAIN served' : served'[i] = [caller |-> c, at |-> lastCallAt'[c]]
    <3>1. CASE c = caller
      BY <1>2, <1>3, <3>1
    <3>2. CASE c # caller
      BY <1>2, <1>3, <3>2 DEF IInv, StampsLatest
    <3> QED BY <3>1, <3>2
  <2> QED BY <2>1, <2>2 DEF StampsLatest
<1>8. Spacing'
  <2> SUFFICES ASSUME NEW i \in DOMAIN served', NEW j \in DOMAIN served', i < j,
                      served'[i].caller = served'[j].caller
               PROVE served'[j].at - served'[i].at >= MIN_CALL_INTERVAL
    BY DEF Spacing
  <2>1. i \in DOMAIN served
    BY <1>2
  <2>2. CASE j \in DOMAIN served
    BY <1>2, <2>1, <2>2 DEF IInv, Spacing
  <2>3. CASE j = Len(served) + 1
    <3>1. served[i].caller = caller /\ served'[j].at = now
      BY <1>2, <2>1, <2>3
    <3>2. now - lastCallAt[caller] >= MIN_CALL_INTERVAL
      BY <1>6, <2>1, <3>1 DEF Call, Admits
    <3> QED BY <1>1, <1>2, <1>6, <2>1, <3>1, <3>2
  <2> QED BY <1>2, <2>2, <2>3
<1> QED BY <1>4, <1>5, <1>7, <1>8 DEF IInv

\* Time, upgrades and trapped upgrades keep the invariant.
LEMMA OthersKeepIInv ==
  ASSUME IInv, TimePasses \/ PreUpgrade \/ PostUpgrade \/ UpgradeTraps \/ UNCHANGED vars
  PROVE IInv'
<1> USE MaxTimeAssumption
<1>1. /\ served' = served /\ lastCallAt' = lastCallAt
      /\ now \in Nat /\ now' \in 0..MaxTime /\ now <= now'
  <2>1. CASE PostUpgrade
    <3>1. FromIter(throttleEntries) = lastCallAt
      BY <2>1, FromIterEntries DEF IInv, Restorable, PostUpgrade, UpgradeEnds
    <3> QED BY <2>1, <3>1 DEF PostUpgrade, UpgradeEnds, IInv, TypeOK, CanisterTypeOK
  <2>2. CASE TimePasses \/ PreUpgrade \/ UpgradeTraps \/ UNCHANGED vars
    BY <2>2 DEF TimePasses, Tick, PreUpgrade, UpgradeStarts, UpgradeTraps, UpgradeEnds,
                vars, canisterVars, endpointVars, IInv, TypeOK, CanisterTypeOK
  <2> QED BY <2>1, <2>2
<1>2. StampsLatest' /\ Spacing'
  BY <1>1 DEF IInv, StampsLatest, Spacing
<1>3. Restorable'
  BY <1>1 DEF IInv, Restorable, TimePasses, Tick, Running, PreUpgrade, UpgradeStarts,
              PostUpgrade, UpgradeTraps, UpgradeEnds, vars, canisterVars, endpointVars
<1>4. TypeOK'
  <2>1. /\ DOMAIN lastCallAt \subseteq Callers
        /\ \A c \in DOMAIN lastCallAt : lastCallAt[c] \in 0..now'
    BY <1>1 DEF IInv, TypeOK
  <2>2. served \in Seq(CallRecord)
    BY DEF IInv, TypeOK
  <2>3. throttleEntries' \in SUBSET (Callers \X (0..MaxTime))
    <3>1. CASE PreUpgrade
      BY <1>1, <2>1, <3>1 DEF PreUpgrade, Entries
    <3>2. CASE PostUpgrade \/ UpgradeTraps
      BY <3>2 DEF PostUpgrade, UpgradeTraps
    <3>3. CASE TimePasses \/ UNCHANGED vars
      BY <1>1, <3>3 DEF TimePasses, vars, endpointVars, IInv, TypeOK
    <3> QED BY <3>1, <3>2, <3>3
  <2>4. phase' \in {"running", "upgrading"}
    BY DEF IInv, TypeOK, CanisterTypeOK, TimePasses, Tick, PreUpgrade, UpgradeStarts,
           PostUpgrade, UpgradeTraps, UpgradeEnds, vars, canisterVars
  <2> QED BY <1>1, <2>1, <2>2, <2>3, <2>4 DEF TypeOK, CanisterTypeOK
<1> QED BY <1>2, <1>3, <1>4 DEF IInv

\* The invariant holds in every reachable state of the endpoint.
LEMMA Invariance == Spec => []IInv
<1>1. IInv /\ [Next]_vars => IInv'
  BY CallKeepsIInv, OthersKeepIInv DEF Next
<1> QED BY InitIInv, <1>1, PTL DEF Spec

\* The throttle's state has the types checkAndUpdateThrottle relies on.
THEOREM EndpointTypes == Spec => []TypeOK
  BY Invariance, PTL DEF IInv

\* The store says exactly when each principal was last let through.
THEOREM EndpointStamps == Spec => []StampsLatest
  BY Invariance, PTL DEF IInv

\* "2s per principal per endpoint" holds over the whole life of the canister.
THEOREM EndpointSpacing == Spec => []Spacing
  BY Invariance, PTL DEF IInv
=============================================================================
