------------------------------ MODULE Canister ------------------------------
(***************************************************************************)
(* What the registry canister takes from its platform.  Messages run one   *)
(* at a time and to completion, so each handler of the other modules is    *)
(* one action.  Time.now() never decreases and is constant within a        *)
(* message.  An upgrade runs preupgrade, then the actor body and           *)
(* postupgrade of the new code, with no message in between; if any of it   *)
(* traps, the platform restores the state from before the upgrade.         *)
(***************************************************************************)
EXTENDS Integers

CONSTANT MaxTime      \* bound on the clock

ASSUME MaxTimeAssumption == MaxTime \in Nat

VARIABLES now,        \* Time.now()
          phase       \* whether an upgrade is under way

canisterVars == <<now, phase>>

CanisterTypeOK == /\ now \in 0..MaxTime
                  /\ phase \in {"running", "upgrading"}

CanisterInit == now = 0 /\ phase = "running"

\* The guard of every message: the canister is installed and started.
Running == phase = "running"

Tick == /\ Running
        /\ now < MaxTime
        /\ now' = now + 1
        /\ UNCHANGED phase

\* preupgrade runs.
UpgradeStarts == /\ phase = "running"
                 /\ phase' = "upgrading"
                 /\ UNCHANGED now

\* The new actor body and postupgrade ran, or the platform rolled back.
UpgradeEnds == /\ phase = "upgrading"
               /\ phase' = "running"
               /\ UNCHANGED now
=============================================================================
