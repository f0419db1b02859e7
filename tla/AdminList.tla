----------------------------- MODULE AdminList ------------------------------
(***************************************************************************)
(* The allow-list that gates submitRecord, setVerifyingKey and its own     *)
(* upkeep: a one-time bootstrap, additions and removals by its members,    *)
(* and the part of the upgrade hooks that carries it over.                 *)
(***************************************************************************)
EXTENDS Canister, StableMap, Sequences, FiniteSets

CONSTANTS Principals,
          MaxGrants     \* bound on the successful bootstraps and additions

ASSUME AdminAssumption == IsFiniteSet(Principals) /\ MaxGrants \in Nat

VARIABLES admins,         \* HashMap<Principal, ()>, as the set of its keys
          adminsEntries,  \* its stable array
          grants          \* observer: successful bootstrapAdmin and addAdmin calls

adminVars == <<admins, adminsEntries, grants>>
vars == <<canisterVars, adminVars>>

Grant == [by : {"bootstrapAdmin", "addAdmin"}, caller : Principals, to : Principals]

TypeOK == /\ CanisterTypeOK
          /\ admins \in SUBSET Principals
          /\ adminsEntries \in SUBSET Principals
          /\ grants \in Seq(Grant)

Init == /\ CanisterInit
        /\ admins = {}
        /\ adminsEntries = {}
        /\ grants = <<>>

isAdmin(p) == p \in admins

Admit(by, caller, p) ==
  /\ Running
  /\ Len(grants) < MaxGrants
  /\ admins' = admins \cup {p}
  /\ grants' = Append(grants, [by |-> by, caller |-> caller, to |-> p])
  /\ UNCHANGED <<canisterVars, adminsEntries>>

\* Mutants: no check that the list is empty; no check that the caller is an
\* admin; a size check that is off by one.
bootstrapAdmin_Again(caller, realAdmin) ==
  Admit("bootstrapAdmin", caller, realAdmin)

addAdmin_Anyone(caller, newAdmin) ==
  Admit("addAdmin", caller, newAdmin)

removeAdmin_Last(caller, oldAdmin) ==
  /\ Running
  /\ isAdmin(caller)
  /\ Cardinality(admins) >= 1
  /\ admins' = admins \ {oldAdmin}
  /\ UNCHANGED <<canisterVars, adminsEntries, grants>>

\* The code does not look at the caller.
bootstrapAdmin(caller, realAdmin) ==
  /\ Cardinality(admins) = 0
  /\ Admit("bootstrapAdmin", caller, realAdmin)

addAdmin(caller, newAdmin) ==
  /\ isAdmin(caller)
  /\ Admit("addAdmin", caller, newAdmin)

\* Removing a principal that is not on the list succeeds and changes nothing.
removeAdmin(caller, oldAdmin) ==
  /\ Running
  /\ isAdmin(caller)
  /\ Cardinality(admins) > 1
  /\ admins' = admins \ {oldAdmin}
  /\ UNCHANGED <<canisterVars, adminsEntries, grants>>

TimePasses == Tick /\ UNCHANGED adminVars

\* Mutant: the list is not saved.
PreUpgrade_Forgets == /\ UpgradeStarts
                      /\ UNCHANGED adminVars

PreUpgrade == /\ UpgradeStarts
              /\ adminsEntries' = admins
              /\ UNCHANGED <<admins, grants>>

PostUpgrade == /\ UpgradeEnds
               /\ admins' = adminsEntries
               /\ adminsEntries' = {}
               /\ UNCHANGED grants

UpgradeTraps == /\ UpgradeEnds
                /\ adminsEntries' = {}
                /\ UNCHANGED <<admins, grants>>

Next == \/ \E caller, p \in Principals : \/ bootstrapAdmin(caller, p)
                                         \/ addAdmin(caller, p)
                                         \/ removeAdmin(caller, p)
        \/ TimePasses
        \/ PreUpgrade
        \/ PostUpgrade
        \/ UpgradeTraps

Spec == Init /\ [][Next]_vars
-----------------------------------------------------------------------------
\* Once bootstrapped, the list is never empty again, through removals in any
\* order and upgrades: the admin-gated functions stay reachable
\* ("the last remaining admin can never be removed", main.mo:44-45).
NeverBricked == grants # <<>> => admins # {}

\* The bootstrap succeeds at most once in the life of the canister, and only
\* as the first grant ("One-time bootstrap", main.mo:61).
BootstrappedOnce ==
  \A i \in DOMAIN grants : grants[i].by = "bootstrapAdmin" <=> i = 1

\* Every admin owes its place to the bootstrapped one through a chain of
\* additions, each made by a principal that had been admitted before.
Lineage ==
  /\ \A p \in admins : \E i \in DOMAIN grants : grants[i].to = p
  /\ \A i \in DOMAIN grants :
       i > 1 => \E j \in 1..(i - 1) : grants[j].to = grants[i].caller

\* Nobody is dropped from the list but by one call, naming one principal,
\* and never the one that is left: an upgrade drops nobody.
OneRemovedAtATime ==
  [][LET dropped == admins \ admins'
     IN dropped # {} => /\ Running
                        /\ Cardinality(dropped) = 1
                        /\ admins' # {}]_vars
=============================================================================
