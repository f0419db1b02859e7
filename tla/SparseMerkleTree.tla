-------------------------- MODULE SparseMerkleTree --------------------------
(***************************************************************************)
(* The registry's records and the sparse Merkle tree over them:            *)
(* submitRecord (behind its admin check, which TitleRegistry adds),        *)
(* insertLeaf, getMerkleProof, and the part of the upgrade hooks that      *)
(* carries them over.                                                      *)
(***************************************************************************)
EXTENDS Canister, StableMap, TitleHashes

CONSTANTS Properties, Owners, Flags, Statuses, Expiries   \* what a record holds

VARIABLES records, leafIndexByProperty, nodes,
          currentRoot, nextLeafIndex,
          recordsEntries, leafIndexEntries, nodesEntries

mapVars == <<records, leafIndexByProperty, nodes>>
rootVars == <<currentRoot, nextLeafIndex>>
entryVars == <<recordsEntries, leafIndexEntries, nodesEntries>>
treeVars == <<mapVars, rootVars, entryVars>>
vars == <<canisterVars, treeVars>>

Record == [ownerCommitment : Owners, encumbranceFlag : Flags,
           licenseStatus : Statuses, licenseExpiry : Expiries]

\* A key is the pair (level, index); the code writes it as a text.
nodeAt(level, index) ==
  IF <<level, index>> \in DOMAIN nodes THEN nodes[<<level, index>>]
                                       ELSE zeroHashes[level]

Sibling(index) == IF index % 2 = 0 THEN index + 1 ELSE index - 1

\* The indices visited from a leaf to the top: idx := idx / 2 at each level.
Ancestors(index) ==
  LET up[level \in 0..treeDepth] ==
        IF level = 0 THEN index ELSE up[level - 1] \div 2
  IN up

Init ==
  /\ CanisterInit
  /\ records = EmptyMap
  /\ leafIndexByProperty = EmptyMap
  /\ nodes = EmptyMap
  /\ currentRoot = zeroHashes[treeDepth]
  /\ nextLeafIndex = 0
  /\ recordsEntries = {}
  /\ leafIndexEntries = {}
  /\ nodesEntries = {}
-----------------------------------------------------------------------------
\* The node computed at each level of the climb from a leaf to the root.
Climb(index, leaf) ==
  LET up == Ancestors(index)
      cur[level \in 0..treeDepth] ==
        IF level = 0 THEN leaf
        ELSE LET idx == up[level - 1]
                 sibling == nodeAt(level - 1, Sibling(idx))
             IN IF idx % 2 = 0 THEN nodeHash(cur[level - 1], sibling)
                               ELSE nodeHash(sibling, cur[level - 1])
  IN cur

\* The code has no check that the index fits the tree.
insertLeaf(index, leaf) ==
  LET up == Ancestors(index)
      cur == Climb(index, leaf)
      path == {<<level, up[level]>> : level \in 0..treeDepth}
  IN /\ nodes' = [key \in DOMAIN nodes \cup path |->
                    IF key \in path THEN cur[key[1]] ELSE nodes[key]]
     /\ currentRoot' = cur[treeDepth]

\* Mutant: every submission appends a leaf, as before the fix of main.mo:99-106.
submitRecord_Appends(p, record) ==
  /\ Running
  /\ records' = Put(records, p, record)
  /\ insertLeaf(nextLeafIndex, leafHash(record))
  /\ leafIndexByProperty' = Put(leafIndexByProperty, p, nextLeafIndex)
  /\ nextLeafIndex' = nextLeafIndex + 1
  /\ UNCHANGED <<canisterVars, entryVars>>

submitRecord(p, record) ==
  /\ Running
  /\ records' = Put(records, p, record)
  /\ IF p \in DOMAIN leafIndexByProperty
       THEN /\ insertLeaf(leafIndexByProperty[p], leafHash(record))
            /\ UNCHANGED <<leafIndexByProperty, nextLeafIndex>>
       ELSE /\ insertLeaf(nextLeafIndex, leafHash(record))
            /\ leafIndexByProperty' = Put(leafIndexByProperty, p, nextLeafIndex)
            /\ nextLeafIndex' = nextLeafIndex + 1
  /\ UNCHANGED <<canisterVars, entryVars>>

\* The reply for a property that has a leaf.
getMerkleProof(p) ==
  LET index == leafIndexByProperty[p]
      up == Ancestors(index)
  IN [leafIndex |-> index,
      siblings |-> [level \in 0..(treeDepth - 1) |-> nodeAt(level, Sibling(up[level]))],
      pathBits |-> [level \in 0..(treeDepth - 1) |-> up[level] % 2 = 1],
      root |-> currentRoot]

-----------------------------------------------------------------------------
\* Mutant: a map is not saved.
PreUpgrade_ForgetsNodes ==
  /\ UpgradeStarts
  /\ recordsEntries' = Entries(records)
  /\ leafIndexEntries' = Entries(leafIndexByProperty)
  /\ UNCHANGED <<mapVars, rootVars, nodesEntries>>

PreUpgrade == /\ UpgradeStarts
              /\ recordsEntries' = Entries(records)
              /\ leafIndexEntries' = Entries(leafIndexByProperty)
              /\ nodesEntries' = Entries(nodes)
              /\ UNCHANGED <<mapVars, rootVars>>

StableArraysDrained == /\ recordsEntries' = {}
                       /\ leafIndexEntries' = {}
                       /\ nodesEntries' = {}

PostUpgrade == /\ UpgradeEnds
               /\ records' = FromIter(recordsEntries)
               /\ leafIndexByProperty' = FromIter(leafIndexEntries)
               /\ nodes' = FromIter(nodesEntries)
               /\ StableArraysDrained
               /\ UNCHANGED rootVars

UpgradeTraps == /\ UpgradeEnds
                /\ StableArraysDrained
                /\ UNCHANGED <<mapVars, rootVars>>

TimePasses == Tick /\ UNCHANGED treeVars

Next == \/ \E p \in Properties, record \in Record : submitRecord(p, record)
        \/ TimePasses
        \/ PreUpgrade
        \/ PostUpgrade
        \/ UpgradeTraps

Spec == Init /\ [][Next]_vars
-----------------------------------------------------------------------------
\* The terms found treeDepth levels below a root.  A leaf has a witness that
\* folds to the root exactly when it is one of them: hashes are their inputs.
LeavesUnder(root) ==
  LET at[depth \in 0..treeDepth] ==
        IF depth = 0 THEN {root}
        ELSE UNION {{t[2], t[3]} : t \in at[depth - 1]}
  IN at[treeDepth]

\* The witness getMerkleProof hands out folds the property's leaf to the root
\* it hands out, in every state, upgrades included ("the sibling path from a
\* property's leaf up to `currentRoot`", main.mo:222-223).
WitnessReachesRoot ==
  /\ DOMAIN leafIndexByProperty = DOMAIN records
  /\ \A p \in DOMAIN records :
       LET witness == getMerkleProof(p)
       IN Fold(leafHash(records[p]), witness.siblings, witness.pathBits) = currentRoot

\* The leaves that have a witness at the current root are exactly those of the
\* records on file: a resubmission leaves no earlier leaf provable
\* (main.mo:99-106).
NoStaleLeaf ==
  LeavesUnder(currentRoot) \ {zeroHashes[0]} = {leafHash(records[p]) : p \in DOMAIN records}
=============================================================================
