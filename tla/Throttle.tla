------------------------------ MODULE Throttle ------------------------------
(***************************************************************************)
(* checkAndUpdateThrottle: the floor on the interval between two calls of  *)
(* one principal to one gated endpoint, and the refusal of the anonymous   *)
(* principal.  A store maps a principal to the time of its last call that  *)
(* was let through.                                                        *)
(***************************************************************************)
EXTENDS Integers, StableMap

CONSTANTS Principals,         \* everyone who can call the canister
          Anonymous,          \* the anonymous principal
          MIN_CALL_INTERVAL   \* MIN_CALL_INTERVAL_NS, in clock ticks

ASSUME ThrottleAssumption == /\ Anonymous \in Principals
                             /\ MIN_CALL_INTERVAL \in Nat \ {0}

\* Mutants: the interval one tick short; the anonymous principal let in.
Admits_IntervalShort(store, caller, time) ==
  /\ caller # Anonymous
  /\ caller \in DOMAIN store => time - store[caller] >= MIN_CALL_INTERVAL - 1

Admits_Anonymous(store, caller, time) ==
  caller \in DOMAIN store => time - store[caller] >= MIN_CALL_INTERVAL

Admits(store, caller, time) ==
  /\ caller # Anonymous
  /\ caller \in DOMAIN store => time - store[caller] >= MIN_CALL_INTERVAL

\* Mutant: only the first call is recorded.
Stamp_FirstOnly(store, caller, time) ==
  IF caller \in DOMAIN store THEN store ELSE Put(store, caller, time)

\* The store after a call that was let through, whatever the call returns.
Stamp(store, caller, time) == Put(store, caller, time)
=============================================================================
