-------------------------- MODULE AdminListProofs ---------------------------
(***************************************************************************)
(* The admin list is never emptied again, is bootstrapped once, and grows  *)
(* only through its members, for any principals and any number of calls.   *)
(***************************************************************************)
EXTENDS AdminList, FiniteSetTheorems, TLAPS

Restorable == phase = "upgrading" => adminsEntries = admins

IInv == TypeOK /\ Restorable /\ NeverBricked /\ BootstrappedOnce /\ Lineage

\* The size checks of bootstrapAdmin and removeAdmin say what they mean.
LEMMA SizeChecks ==
  ASSUME NEW S \in SUBSET Principals, NEW x
  PROVE /\ Cardinality(S) = 0 <=> S = {}
        /\ Cardinality(S) > 1 => S \ {x} # {}
<1>1. IsFiniteSet(S)
  BY AdminAssumption, FS_Subset
<1>2. Cardinality(S) = 0 <=> S = {}
  BY <1>1, FS_EmptySet
<1>3. ASSUME Cardinality(S) > 1, S \ {x} = {} PROVE FALSE
  <2>1. CASE S = {}
    BY <1>2, <1>3, <2>1
  <2>2. CASE S = {x}
    <3>1. Cardinality(S) = 1
      BY <2>2, FS_Singleton
    <3> QED BY <1>3, <3>1
  <2> QED BY <1>3, <2>1, <2>2
<1> QED BY <1>2, <1>3

\* The empty admin list satisfies the strengthening.
LEMMA InitIInv == Init => IInv
  BY MaxTimeAssumption
     DEF Init, IInv, TypeOK, CanisterTypeOK, CanisterInit, Restorable,
         NeverBricked, BootstrappedOnce, Lineage

\* A grant comes from the bootstrap of an empty list or from an admin, who by
\* Lineage had been admitted before.
LEMMA GrantKeepsIInv ==
  ASSUME IInv, NEW caller \in Principals, NEW p \in Principals,
         bootstrapAdmin(caller, p) \/ addAdmin(caller, p)
  PROVE IInv'
<1>1. PICK by \in {"bootstrapAdmin", "addAdmin"} :
        /\ Admit(by, caller, p)
        /\ by = "bootstrapAdmin" => grants = <<>>
        /\ by = "addAdmin" => grants # <<>> /\ caller \in admins
  <2>1. CASE bootstrapAdmin(caller, p)
    <3>1. admins = {}
      BY <2>1, SizeChecks DEF bootstrapAdmin, IInv, TypeOK
    <3> QED BY <2>1, <3>1 DEF bootstrapAdmin, IInv, NeverBricked
  <2>2. CASE addAdmin(caller, p)
    <3>1. caller \in admins
      BY <2>2 DEF addAdmin, isAdmin
    <3>2. grants # <<>>
      BY <3>1 DEF IInv, Lineage
    <3> QED BY <2>2, <3>1, <3>2 DEF addAdmin
  <2> QED BY <2>1, <2>2
<1> DEFINE grant == [by |-> by, caller |-> caller, to |-> p]
<1>2. /\ grant \in Grant
      /\ grants \in Seq(Grant)
      /\ grants' = Append(grants, grant)
      /\ admins' = admins \cup {p}
      /\ now' = now /\ phase' = phase /\ phase = "running"
      /\ adminsEntries' = adminsEntries
  BY <1>1 DEF Admit, Running, canisterVars, Grant, IInv, TypeOK
<1> HIDE DEF grant
<1>3. /\ Len(grants) \in Nat
      /\ DOMAIN grants = 1..Len(grants)
      /\ DOMAIN grants' = 1..(Len(grants) + 1)
      /\ \A i \in DOMAIN grants : grants'[i] = grants[i]
      /\ grants'[Len(grants) + 1] = grant
      /\ grants' # <<>>
      /\ grants = <<>> <=> Len(grants) = 0
  BY <1>2
<1>4. grant.by = by /\ grant.caller = caller /\ grant.to = p
  BY DEF grant
<1>5. TypeOK'
  BY <1>2 DEF IInv, TypeOK, CanisterTypeOK
<1>6. Restorable' /\ NeverBricked'
  BY <1>2 DEF Restorable, NeverBricked
<1>7. BootstrappedOnce'
  BY <1>1, <1>3, <1>4 DEF IInv, BootstrappedOnce
<1>8. Lineage'
  <2>1. ASSUME NEW q \in admins'
        PROVE \E i \in DOMAIN grants' : grants'[i].to = q
    <3>1. CASE q = p
      BY <1>3, <1>4, <3>1
    <3>2. CASE q \in admins
      BY <1>3, <3>2 DEF IInv, Lineage
    <3> QED BY <1>2, <3>1, <3>2
  <2>2. ASSUME NEW i \in DOMAIN grants', i > 1
        PROVE \E j \in 1..(i - 1) : grants'[j].to = grants'[i].caller
    <3>1. CASE i \in DOMAIN grants
      <4>1. PICK j \in 1..(i - 1) : grants[j].to = grants[i].caller
        BY <2>2, <3>1 DEF IInv, Lineage
      <4>2. j \in DOMAIN grants
        BY <1>3, <3>1
      <4> QED BY <1>3, <3>1, <4>1, <4>2
    <3>2. CASE i = Len(grants) + 1
      <4>1. caller \in admins
        BY <1>1, <1>3, <2>2, <3>2
      <4>2. PICK j \in DOMAIN grants : grants[j].to = caller
        BY <4>1 DEF IInv, Lineage
      <4> QED BY <1>3, <1>4, <3>2, <4>2
    <3> QED BY <1>3, <3>1, <3>2
  <2> QED BY <2>1, <2>2 DEF Lineage
<1> QED BY <1>5, <1>6, <1>7, <1>8 DEF IInv

\* Any other step keeps the log and, removeAdmin apart, the list.
LEMMA OthersKeepIInv ==
  ASSUME IInv,
         \/ \E caller, p \in Principals : removeAdmin(caller, p)
         \/ TimePasses \/ PreUpgrade \/ PostUpgrade \/ UpgradeTraps \/ UNCHANGED vars
  PROVE IInv'
<1>1. /\ grants' = grants
      /\ admins' \subseteq admins
      /\ admins # {} => admins' # {}
  <2>1. ASSUME NEW caller \in Principals, NEW p \in Principals, removeAdmin(caller, p)
        PROVE <1>1!:
    BY <2>1, SizeChecks DEF removeAdmin, IInv, TypeOK
  <2>2. CASE PostUpgrade
    BY <2>2 DEF PostUpgrade, UpgradeEnds, IInv, Restorable
  <2>3. CASE TimePasses \/ PreUpgrade \/ UpgradeTraps \/ UNCHANGED vars
    BY <2>3 DEF TimePasses, PreUpgrade, UpgradeTraps, vars, adminVars
  <2> QED BY <2>1, <2>2, <2>3
<1>2. NeverBricked' /\ BootstrappedOnce' /\ Lineage'
  BY <1>1 DEF IInv, NeverBricked, BootstrappedOnce, Lineage
<1>3. Restorable'
  BY DEF IInv, Restorable, removeAdmin, Running, TimePasses, Tick, PreUpgrade,
         UpgradeStarts, PostUpgrade, UpgradeTraps, UpgradeEnds, vars, canisterVars,
         adminVars
<1>4. TypeOK'
  BY <1>1, MaxTimeAssumption
     DEF IInv, TypeOK, CanisterTypeOK, removeAdmin, TimePasses, Tick, PreUpgrade,
         UpgradeStarts, PostUpgrade, UpgradeTraps, UpgradeEnds, vars, canisterVars,
         adminVars
<1> QED BY <1>2, <1>3, <1>4 DEF IInv

\* The strengthening holds in every reachable state of the admin list.
LEMMA Invariance == Spec => []IInv
<1>1. IInv /\ [Next]_vars => IInv'
  BY GrantKeepsIInv, OthersKeepIInv DEF Next
<1> QED BY InitIInv, <1>1, PTL DEF Spec

\* The list, its array and the log of grants are well typed in every reachable
\* state, whatever members add, remove or upgrade (main.mo:56-81).
THEOREM AdminsTypes == Spec => []TypeOK
  BY Invariance, PTL DEF IInv

\* The admin-gated functions never become unreachable once the list has been
\* bootstrapped ("the last remaining admin can never be removed").
THEOREM AdminsNeverBricked == Spec => []NeverBricked
  BY Invariance, PTL DEF IInv

\* bootstrapAdmin succeeds once in the life of the canister, before any other
\* grant, whatever is removed or upgraded later.
THEOREM AdminsBootstrappedOnce == Spec => []BootstrappedOnce
  BY Invariance, PTL DEF IInv

\* Every admin goes back to the bootstrapped one through members' additions.
THEOREM AdminsLineage == Spec => []Lineage
  BY Invariance, PTL DEF IInv

\* No step drops more than one admin, and none drops the last one: upgrades
\* keep the list whole.
THEOREM AdminsLeaveOneByOne == Spec => OneRemovedAtATime
<1> DEFINE dropped == admins \ admins'
           Goal == dropped # {} => /\ Running
                                   /\ Cardinality(dropped) = 1
                                   /\ admins' # {}
<1>1. IInv /\ [Next]_vars => [Goal]_vars
  <2> SUFFICES ASSUME IInv, Next, dropped # {}
               PROVE Running /\ Cardinality(dropped) = 1 /\ admins' # {}
    OBVIOUS
  <2>1. PICK caller \in Principals, p \in Principals : removeAdmin(caller, p)
    BY DEF Next, bootstrapAdmin, addAdmin, Admit, TimePasses, PreUpgrade, PostUpgrade,
           UpgradeTraps, UpgradeEnds, IInv, Restorable, adminVars
  <2>2. dropped = {p}
    BY <2>1 DEF removeAdmin
  <2> QED BY <2>1, <2>2, FS_Singleton, SizeChecks DEF removeAdmin, IInv, TypeOK
<1> QED BY Invariance, <1>1, PTL DEF Spec, OneRemovedAtATime
=============================================================================
