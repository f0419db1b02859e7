----------------------- MODULE SparseMerkleTreeProofs -----------------------
(***************************************************************************)
(* The sparse Merkle tree for any depth and any number of properties: what *)
(* getMerkleProof hands out leads to the root, and the leaves that have a  *)
(* witness are those of the records on file.                               *)
(*                                                                         *)
(* The properties speak of paths through the whole tree.  The invariant    *)
(* behind them is local: every inner node, stored or implicit, is the hash *)
(* of its two children, which one insertion disturbs along one path only.  *)
(*                                                                         *)
(* The last part is about the circuit over that tree: what a prover can    *)
(* satisfy, whatever witness it makes up, is what the records say.         *)
(***************************************************************************)
EXTENDS TreeCircuit, ProverWitness, DataProofs, FiniteSetTheorems

USE TreeAssumption, MaxTimeAssumption

\* zeroHashes is the table of mo:poseidon: each level hashes the one below.
LEMMA ZeroHashes ==
  /\ zeroHashes[0] = <<"empty">>
  /\ \A level \in 1..treeDepth :
       zeroHashes[level] = nodeHash(zeroHashes[level - 1], zeroHashes[level - 1])
<1> DEFINE Step(g, level) == IF level = 0 THEN <<"empty">>
                             ELSE nodeHash(g[level - 1], g[level - 1])
           S == {m \in Nat : \E g : g = [level \in 0..m |-> Step(g, level)]}
<1>1. 0 \in S
  <2> DEFINE g == [level \in 0..0 |-> <<"empty">>]
  <2>1. g = [level \in 0..0 |-> Step(g, level)]
    OBVIOUS
  <2> HIDE DEF g
  <2> QED BY <2>1
<1>2. ASSUME NEW m \in Nat, m \in S
      PROVE  m + 1 \in S
  <2>1. PICK g : g = [level \in 0..m |-> Step(g, level)]
    BY <1>2
  <2> DEFINE h == [level \in 0..(m + 1) |->
                     IF level = m + 1 THEN nodeHash(g[m], g[m]) ELSE g[level]]
  <2>2. ASSUME NEW level \in 0..(m + 1)
        PROVE h[level] = Step(h, level)
    <3>1. level # 0 => h[level - 1] = g[level - 1]
      OBVIOUS
    <3>2. CASE level = m + 1
      BY <3>1, <3>2
    <3>3. CASE level # m + 1
      <4>1. level \in 0..m /\ h[level] = g[level]
        BY <3>3
      <4>2. g[level] = Step(g, level)
        BY <2>1, <4>1
      <4> QED BY <3>1, <4>1, <4>2
    <3> QED BY <3>2, <3>3
  <2>3. h = [level \in 0..(m + 1) |-> Step(h, level)]
    BY <2>2
  <2> HIDE DEF h
  <2> QED BY <2>3
<1>3. treeDepth \in S
  <2> HIDE DEF S
  <2> QED BY <1>1, <1>2, SetInduction
<1>4. \E g : g = [level \in 0..treeDepth |-> Step(g, level)]
  BY <1>3
<1>5. zeroHashes = [level \in 0..treeDepth |-> Step(zeroHashes, level)]
  BY <1>4 DEF zeroHashes
<1> QED BY <1>5

\* Any function that climbs the way Fold does ends where Fold ends.
LEMMA FoldIs ==
  ASSUME NEW leaf, NEW siblings, NEW pathBits, NEW g,
         g[0] = leaf,
         \A level \in 1..treeDepth :
           g[level] = IF pathBits[level - 1]
                        THEN nodeHash(siblings[level - 1], g[level - 1])
                        ELSE nodeHash(g[level - 1], siblings[level - 1])
  PROVE  Fold(leaf, siblings, pathBits) = g[treeDepth]
<1> DEFINE Up(level, below) ==
             IF pathBits[level - 1] THEN nodeHash(siblings[level - 1], below)
                                    ELSE nodeHash(below, siblings[level - 1])
           Step(f, level) == IF level = 0 THEN leaf ELSE Up(level, f[level - 1])
           h == [level \in 0..treeDepth |-> g[level]]
           cur == CHOOSE f : f = [level \in 0..treeDepth |-> Step(f, level)]
<1>1. h = [level \in 0..treeDepth |-> Step(h, level)]
  <2>1. ASSUME NEW level \in 0..treeDepth
        PROVE h[level] = Step(h, level)
    <3>1. level # 0 => level \in 1..treeDepth /\ h[level - 1] = g[level - 1]
      OBVIOUS
    <3> QED BY <3>1
  <2> QED BY <2>1
<1>2. cur = [level \in 0..treeDepth |-> Step(cur, level)]
  <2> HIDE DEF h
  <2> QED BY <1>1
<1>3. Fold(leaf, siblings, pathBits) = cur[treeDepth]
  BY DEF Fold
<1> HIDE DEF cur
<1> DEFINE S == {level \in 0..treeDepth : cur[level] = g[level]}
<1>4. 0 \in S
  BY <1>2
<1>5. ASSUME NEW level \in 0..(treeDepth - 1), level \in S
      PROVE level + 1 \in S
  <2>1. level + 1 \in 1..treeDepth /\ level + 1 \in 0..treeDepth
        /\ (level + 1) - 1 = level /\ level + 1 # 0
    OBVIOUS
  <2>2. cur[level + 1] = Up(level + 1, cur[level])
    BY <1>2, <2>1
  <2>3. g[level + 1] = Up(level + 1, g[level])
    BY <2>1
  <2> QED BY <1>5, <2>1, <2>2, <2>3
<1>6. 0..treeDepth \subseteq S
  <2> HIDE DEF S
  <2> QED BY <1>4, <1>5, BoundedInduction
<1> QED BY <1>3, <1>6

\* Fold is a climb: each level hashes what is below with the sibling.
LEMMA FoldSteps ==
  ASSUME NEW leaf, NEW siblings, NEW pathBits
  PROVE  \E g : /\ g[0] = leaf
                /\ \A level \in 1..treeDepth :
                     g[level] = IF pathBits[level - 1]
                                  THEN nodeHash(siblings[level - 1], g[level - 1])
                                  ELSE nodeHash(g[level - 1], siblings[level - 1])
                /\ Fold(leaf, siblings, pathBits) = g[treeDepth]
<1> DEFINE Up(level, below) ==
             IF pathBits[level - 1] THEN nodeHash(siblings[level - 1], below)
                                    ELSE nodeHash(below, siblings[level - 1])
           Step(g, level) == IF level = 0 THEN leaf ELSE Up(level, g[level - 1])
           S == {m \in Nat : \E g : g = [level \in 0..m |-> Step(g, level)]}
<1> HIDE DEF Up
<1>1. 0 \in S
  <2> DEFINE g == [level \in 0..0 |-> leaf]
  <2>1. g = [level \in 0..0 |-> Step(g, level)]
    OBVIOUS
  <2> HIDE DEF g
  <2> QED BY <2>1
<1>2. ASSUME NEW m \in Nat, m \in S
      PROVE  m + 1 \in S
  <2>1. PICK g : g = [level \in 0..m |-> Step(g, level)]
    BY <1>2
  <2> DEFINE h == [level \in 0..(m + 1) |->
                     IF level = m + 1 THEN Up(m + 1, g[m]) ELSE g[level]]
  <2>2. ASSUME NEW level \in 0..(m + 1)
        PROVE h[level] = Step(h, level)
    <3>1. level # 0 => h[level - 1] = g[level - 1]
      OBVIOUS
    <3>2. CASE level = m + 1
      <4>1. h[level] = Up(m + 1, g[m]) /\ level # 0 /\ level - 1 = m
        BY <3>2
      <4> QED BY <3>1, <3>2, <4>1
    <3>3. CASE level # m + 1
      <4>1. level \in 0..m /\ h[level] = g[level]
        BY <3>3
      <4>2. g[level] = Step(g, level)
        BY <2>1, <4>1
      <4> QED BY <3>1, <4>1, <4>2
    <3> QED BY <3>2, <3>3
  <2>3. h = [level \in 0..(m + 1) |-> Step(h, level)]
    BY <2>2
  <2> HIDE DEF h
  <2> QED BY <2>3
<1>3. treeDepth \in S
  <2> HIDE DEF S
  <2> QED BY <1>1, <1>2, SetInduction
<1>4. PICK g : g = [level \in 0..treeDepth |-> Step(g, level)]
  BY <1>3
<1>5. g[0] = leaf /\ \A level \in 1..treeDepth : g[level] = Up(level, g[level - 1])
  BY <1>4
<1>6. Fold(leaf, siblings, pathBits) = g[treeDepth]
  BY <1>5, FoldIs DEF Up
<1> QED BY <1>5, <1>6 DEF Up

\* The indices on the way up: each is half of the one below.
LEMMA Halving ==
  ASSUME NEW index \in Nat
  PROVE  /\ Ancestors(index) \in [0..treeDepth -> Nat]
         /\ Ancestors(index)[0] = index
         /\ \A level \in 1..treeDepth :
              Ancestors(index)[level] = Ancestors(index)[level - 1] \div 2
<1>1. PICK g \in [0..treeDepth -> Nat] :
        /\ g[0] = index
        /\ \A level \in 1..treeDepth : g[level] = g[level - 1] \div 2
  <2> DEFINE halve == [level \in 1..treeDepth |-> [i \in Nat |-> i \div 2]]
  <2>1. halve \in StepMaps(treeDepth, Nat)
    BY DEF StepMaps
  <2>2. PICK g : IsRecursion(g, treeDepth, Nat, index, halve)
    <3> HIDE DEF halve
    <3> QED BY <2>1, Recursion
  <2>3. ASSUME NEW level \in 1..treeDepth
        PROVE g[level] = g[level - 1] \div 2
    <3>1. g[level - 1] \in Nat
      BY <2>2 DEF IsRecursion
    <3> QED BY <2>2, <3>1 DEF IsRecursion
  <2> QED BY <2>2, <2>3 DEF IsRecursion
<1>2. g = [level \in 0..treeDepth |-> IF level = 0 THEN index ELSE g[level - 1] \div 2]
  BY <1>1
<1>3. LET up == Ancestors(index)
      IN up = [level \in 0..treeDepth |-> IF level = 0 THEN index ELSE up[level - 1] \div 2]
  BY <1>2 DEF Ancestors
<1> DEFINE up == Ancestors(index)
<1>4. /\ up[0] = index
      /\ \A level \in 1..treeDepth : up[level] = up[level - 1] \div 2
  <2> HIDE DEF up
  <2> QED BY <1>3 DEF up
<1>5. up \in [0..treeDepth -> Nat]
  <2> DEFINE S == {level \in 0..treeDepth : up[level] \in Nat}
  <2>1. 0 \in S
    BY <1>4
  <2>2. ASSUME NEW level \in 0..(treeDepth - 1), level \in S
        PROVE level + 1 \in S
    BY <1>4, <2>2
  <2>3. 0..treeDepth \subseteq S
    <3> HIDE DEF S
    <3> QED BY <2>1, <2>2, BoundedInduction
  <2> QED BY <1>3, <2>3
<1> QED BY <1>4, <1>5

\* The climb of insertLeaf: the leaf, then at each level the hash of the node
\* below and its sibling, on the side the index says.
LEMMA ClimbSteps ==
  ASSUME NEW index \in Nat, NEW leaf
  PROVE  /\ Climb(index, leaf)[0] = leaf
         /\ \A level \in 1..treeDepth :
              LET idx == Ancestors(index)[level - 1]
                  below == Climb(index, leaf)[level - 1]
                  sibling == nodeAt(level - 1, Sibling(idx))
              IN Climb(index, leaf)[level] =
                   IF idx % 2 = 0 THEN nodeHash(below, sibling)
                                  ELSE nodeHash(sibling, below)
<1> DEFINE up == Ancestors(index)
           Up(level, below) ==
             IF up[level - 1] % 2 = 0
               THEN nodeHash(below, nodeAt(level - 1, Sibling(up[level - 1])))
               ELSE nodeHash(nodeAt(level - 1, Sibling(up[level - 1])), below)
           Step(g, level) == IF level = 0 THEN leaf ELSE Up(level, g[level - 1])
           S == {m \in Nat : \E g : g = [level \in 0..m |-> Step(g, level)]}
<1> HIDE DEF Up
<1>1. 0 \in S
  <2> DEFINE g == [level \in 0..0 |-> leaf]
  <2>1. g = [level \in 0..0 |-> Step(g, level)]
    OBVIOUS
  <2> HIDE DEF g
  <2> QED BY <2>1
<1>2. ASSUME NEW m \in Nat, m \in S
      PROVE  m + 1 \in S
  <2>1. PICK g : g = [level \in 0..m |-> Step(g, level)]
    BY <1>2
  <2> DEFINE h == [level \in 0..(m + 1) |->
                     IF level = m + 1 THEN Up(m + 1, g[m]) ELSE g[level]]
  <2>2. ASSUME NEW level \in 0..(m + 1)
        PROVE h[level] = Step(h, level)
    <3>1. level # 0 => h[level - 1] = g[level - 1]
      OBVIOUS
    <3>2. CASE level = m + 1
      <4>1. h[level] = Up(m + 1, g[m]) /\ level # 0 /\ level - 1 = m
        BY <3>2
      <4> QED BY <3>1, <3>2, <4>1
    <3>3. CASE level # m + 1
      <4>1. level \in 0..m /\ h[level] = g[level]
        BY <3>3
      <4>2. g[level] = Step(g, level)
        BY <2>1, <4>1
      <4> QED BY <3>1, <4>1, <4>2
    <3> QED BY <3>2, <3>3
  <2>3. h = [level \in 0..(m + 1) |-> Step(h, level)]
    BY <2>2
  <2> HIDE DEF h
  <2> QED BY <2>3
<1>3. treeDepth \in S
  <2> HIDE DEF S
  <2> QED BY <1>1, <1>2, SetInduction
<1>4. \E g : g = [level \in 0..treeDepth |-> Step(g, level)]
  BY <1>3
<1>5. LET cur == Climb(index, leaf)
      IN cur = [level \in 0..treeDepth |-> Step(cur, level)]
  BY <1>4 DEF Climb, Up
<1> DEFINE cur == Climb(index, leaf)
<1>6. cur[0] = leaf /\ \A level \in 1..treeDepth : cur[level] = Up(level, cur[level - 1])
  <2> HIDE DEF cur
  <2> QED BY <1>5 DEF cur
<1> QED BY <1>6 DEF Up

-----------------------------------------------------------------------------
\* Every inner node of the tree is the hash of its two children, whether it is
\* stored in nodes or stands for a subtree that nothing was filed in.
Hashed ==
  \A level \in 1..treeDepth, i \in Nat :
    nodeAt(level, i) = nodeHash(nodeAt(level - 1, 2 * i), nodeAt(level - 1, 2 * i + 1))

\* Climbing one level first and then d more is climbing d + 1 levels.
LEMMA ParentFirst ==
  ASSUME NEW index \in Nat
  PROVE  /\ index \div 2 \in Nat
         /\ \A d \in 0..(treeDepth - 1) :
              Ancestors(index)[d + 1] = Ancestors(index \div 2)[d]
<1> DEFINE up == Ancestors(index)
           over == Ancestors(index \div 2)
           S == {d \in Nat : d < treeDepth => up[d + 1] = over[d]}
<1>1. index \div 2 \in Nat
  OBVIOUS
<1>2. /\ up[0] = index /\ over[0] = index \div 2
      /\ \A level \in 1..treeDepth : /\ up[level] = up[level - 1] \div 2
                                     /\ over[level] = over[level - 1] \div 2
  BY <1>1, Halving
<1> HIDE DEF up, over
<1>3. 0 \in S
  <2>1. 0 < treeDepth => up[1] = up[0] \div 2
    BY <1>2
  <2> QED BY <1>2, <2>1
<1>4. ASSUME NEW d \in Nat, d \in S
      PROVE d + 1 \in S
  <2>1. CASE d + 1 < treeDepth
    <3>1. /\ d + 1 \in 1..treeDepth /\ d + 2 \in 1..treeDepth
          /\ (d + 1) - 1 = d /\ (d + 2) - 1 = d + 1 /\ (d + 1) + 1 = d + 2
          /\ d < treeDepth
      BY <2>1
    <3>2. up[d + 2] = up[d + 1] \div 2 /\ over[d + 1] = over[d] \div 2
      BY <1>2, <3>1
    <3> QED BY <1>4, <3>1, <3>2
  <2> QED BY <2>1
<1>5. Nat \subseteq S
  <2> HIDE DEF S
  <2> QED BY <1>3, <1>4, SetInduction
<1> QED BY <1>1, <1>5 DEF up, over

\* insertLeaf keeps the tree hashed: it writes one leaf and the path above it,
\* and its root is the node at the top of that path.
LEMMA InsertKeepsHashed ==
  ASSUME Hashed, NEW index \in Nat, NEW leaf, insertLeaf(index, leaf)
  PROVE  /\ Hashed'
         /\ nodeAt(0, index)' = leaf
         /\ \A k \in Nat : k # index => nodeAt(0, k)' = nodeAt(0, k)
         /\ currentRoot' = nodeAt(treeDepth, Ancestors(index)[treeDepth])'
         /\ nodes' = [key \in DOMAIN nodes' |-> nodes'[key]]
<1> DEFINE up == Ancestors(index)
           cur == Climb(index, leaf)
           path == {<<level, up[level]>> : level \in 0..treeDepth}
<1>1. /\ nodes' = [key \in DOMAIN nodes \cup path |->
                     IF key \in path THEN cur[key[1]] ELSE nodes[key]]
      /\ currentRoot' = cur[treeDepth]
  BY DEF insertLeaf
<1>2. /\ up[0] = index
      /\ \A level \in 0..treeDepth : up[level] \in Nat
      /\ \A level \in 1..treeDepth : up[level] = up[level - 1] \div 2
  BY Halving
<1>3. /\ cur[0] = leaf
      /\ \A level \in 1..treeDepth :
           cur[level] = IF up[level - 1] % 2 = 0
                          THEN nodeHash(cur[level - 1], nodeAt(level - 1, Sibling(up[level - 1])))
                          ELSE nodeHash(nodeAt(level - 1, Sibling(up[level - 1])), cur[level - 1])
  BY ClimbSteps
<1> HIDE DEF up, cur
<1>4. ASSUME NEW level \in 0..treeDepth, NEW i \in Nat
      PROVE  nodeAt(level, i)' = IF i = up[level] THEN cur[level] ELSE nodeAt(level, i)
  <2>1. <<level, i>> \in path <=> i = up[level]
    <3>1. ASSUME <<level, i>> \in path
          PROVE i = up[level]
      <4>1. PICK l \in 0..treeDepth : <<level, i>> = <<l, up[l]>>
        BY <3>1
      <4> QED BY <4>1
    <3> QED BY <3>1
  <2> HIDE DEF path
  <2>2. <<level, i>>[1] = level
    OBVIOUS
  <2>3. CASE i = up[level]
    <3>1. <<level, i>> \in DOMAIN nodes' /\ nodes'[<<level, i>>] = cur[<<level, i>>[1]]
      BY <1>1, <2>1, <2>3
    <3> QED BY <2>2, <2>3, <3>1 DEF nodeAt
  <2>4. CASE i # up[level]
    <3>1. <<level, i>> \in DOMAIN nodes' <=> <<level, i>> \in DOMAIN nodes
      BY <1>1, <2>1, <2>4
    <3>2. <<level, i>> \in DOMAIN nodes => nodes'[<<level, i>>] = nodes[<<level, i>>]
      BY <1>1, <2>1, <2>4
    <3> QED BY <2>4, <3>1, <3>2 DEF nodeAt
  <2> QED BY <2>3, <2>4
<1>5. ASSUME NEW level \in 1..treeDepth, NEW i \in Nat
      PROVE  nodeAt(level, i)'
               = nodeHash(nodeAt(level - 1, 2 * i)', nodeAt(level - 1, 2 * i + 1)')
  <2> DEFINE child == up[level - 1]
  <2>1. /\ level \in 0..treeDepth /\ level - 1 \in 0..treeDepth
        /\ 2 * i \in Nat /\ 2 * i + 1 \in Nat
        /\ child \in Nat /\ up[level] = child \div 2
    BY <1>2
  <2>2. nodeAt(level, i) = nodeHash(nodeAt(level - 1, 2 * i), nodeAt(level - 1, 2 * i + 1))
    BY DEF Hashed
  <2>3. CASE i # up[level]
    <3>1. 2 * i # child /\ 2 * i + 1 # child
      BY <2>1, <2>3
    <3> QED BY <1>4, <2>1, <2>2, <2>3, <3>1
  <2>4. CASE i = up[level] /\ child % 2 = 0
    <3>1. child = 2 * i /\ Sibling(child) = 2 * i + 1
      BY <2>1, <2>4 DEF Sibling
    <3>2. cur[level] = nodeHash(cur[level - 1], nodeAt(level - 1, 2 * i + 1))
      BY <1>3, <2>4, <3>1
    <3>3. /\ nodeAt(level - 1, 2 * i)' = cur[level - 1]
          /\ nodeAt(level - 1, 2 * i + 1)' = nodeAt(level - 1, 2 * i + 1)
      BY <1>4, <2>1, <3>1
    <3> QED BY <1>4, <2>1, <2>4, <3>2, <3>3
  <2>5. CASE i = up[level] /\ child % 2 # 0
    <3>1. child = 2 * i + 1 /\ Sibling(child) = 2 * i
      BY <2>1, <2>5 DEF Sibling
    <3>2. cur[level] = nodeHash(nodeAt(level - 1, 2 * i), cur[level - 1])
      BY <1>3, <2>5, <3>1
    <3>3. /\ nodeAt(level - 1, 2 * i + 1)' = cur[level - 1]
          /\ nodeAt(level - 1, 2 * i)' = nodeAt(level - 1, 2 * i)
      BY <1>4, <2>1, <3>1
    <3> QED BY <1>4, <2>1, <2>5, <3>2, <3>3
  <2> QED BY <2>3, <2>4, <2>5
<1>6. Hashed'
  BY <1>5 DEF Hashed, nodeHash
<1>7. currentRoot' = nodeAt(treeDepth, up[treeDepth])'
  BY <1>1, <1>2, <1>4
<1>8. nodes' = [key \in DOMAIN nodes' |-> nodes'[key]]
  BY <1>1
<1>9. /\ nodeAt(0, index)' = leaf
      /\ \A k \in Nat : k # index => nodeAt(0, k)' = nodeAt(0, k)
  BY <1>2, <1>3, <1>4
<1> QED BY <1>6, <1>7, <1>8, <1>9 DEF up
-----------------------------------------------------------------------------
\* The nodes d levels below node j of the top.
NodesUnder(j, d) == {nodeAt(treeDepth - d, k) : k \in {i \in Nat : Ancestors(i)[d] = j}}

\* They are the node itself and, level by level, the children of those above.
LEMMA NodesUnderSteps ==
  ASSUME Hashed, NEW j \in Nat
  PROVE  /\ NodesUnder(j, 0) = {nodeAt(treeDepth, j)}
         /\ \A d \in 0..(treeDepth - 1) :
              /\ NodesUnder(j, d + 1) = UNION {{t[2], t[3]} : t \in NodesUnder(j, d)}
              /\ \A t \in NodesUnder(j, d) : t[1] = "node"
<1> DEFINE root == nodeAt(treeDepth, j)
           Below(d) == {i \in Nat : Ancestors(i)[d] = j}
           Found(d) == {nodeAt(treeDepth - d, k) : k \in Below(d)}
<1>1. Found(0) = {root}
  <2>1. Below(0) = {j}
    BY Halving
  <2>2. treeDepth - 0 = treeDepth
    OBVIOUS
  <2> HIDE DEF Below
  <2> QED BY <2>1, <2>2
<1>2. ASSUME NEW d \in 0..(treeDepth - 1)
      PROVE  /\ Found(d + 1) = UNION {{t[2], t[3]} : t \in Found(d)}
             /\ \A t \in Found(d) : t[1] = "node"
  <2> DEFINE level == treeDepth - d
  <2>1. level \in 1..treeDepth /\ treeDepth - (d + 1) = level - 1
    OBVIOUS
  <2>2. ASSUME NEW k \in Nat
        PROVE  /\ nodeAt(level, k)[1] = "node"
               /\ nodeAt(level, k)[2] = nodeAt(level - 1, 2 * k)
               /\ nodeAt(level, k)[3] = nodeAt(level - 1, 2 * k + 1)
    BY <2>1 DEF Hashed, nodeHash
  <2>3. ASSUME NEW i \in Nat
        PROVE  i \in Below(d + 1) <=> i \div 2 \in Below(d)
    BY ParentFirst
  <2>4. ASSUME NEW i \in Below(d + 1)
        PROVE  nodeAt(level - 1, i) \in UNION {{t[2], t[3]} : t \in Found(d)}
    <3>1. i \in Nat /\ i \div 2 \in Below(d) /\ i \div 2 \in Nat
      BY <2>3
    <3>2. nodeAt(level, i \div 2) \in Found(d)
      BY <3>1
    <3>3. i = 2 * (i \div 2) \/ i = 2 * (i \div 2) + 1
      BY <3>1
    <3>4. nodeAt(level - 1, i) \in {nodeAt(level, i \div 2)[2], nodeAt(level, i \div 2)[3]}
      BY <2>2, <3>1, <3>3
    <3> HIDE DEF Found
    <3> QED BY <3>2, <3>4
  <2>5. ASSUME NEW t \in Found(d), NEW u \in {t[2], t[3]}
        PROVE  \E i \in Below(d + 1) : u = nodeAt(level - 1, i)
    <3>1. PICK k \in Below(d) : t = nodeAt(level, k)
      OBVIOUS
    <3>2. /\ k \in Nat /\ 2 * k \in Nat /\ 2 * k + 1 \in Nat
          /\ (2 * k) \div 2 = k /\ (2 * k + 1) \div 2 = k
      OBVIOUS
    <3>3. 2 * k \in Below(d + 1) /\ 2 * k + 1 \in Below(d + 1)
      BY <2>3, <3>2
    <3>4. u = nodeAt(level - 1, 2 * k) \/ u = nodeAt(level - 1, 2 * k + 1)
      BY <2>2, <2>5, <3>1, <3>2
    <3> HIDE DEF Below
    <3> QED BY <3>3, <3>4
  <2>6. Found(d + 1) = {nodeAt(level - 1, i) : i \in Below(d + 1)}
    BY <2>1
  <2>7. \A t \in Found(d) : t[1] = "node"
    BY <2>2
  <2> HIDE DEF Found, Below, level
  <2> QED BY <2>4, <2>5, <2>6, <2>7
<1> QED BY <1>1, <1>2 DEF NodesUnder

\* What is found treeDepth levels below a node at the top: the leaves whose
\* path leads to it.
LEMMA LeavesUnderTop ==
  ASSUME Hashed, NEW j \in Nat
  PROVE  LeavesUnder(nodeAt(treeDepth, j))
           = {nodeAt(0, k) : k \in {i \in Nat : Ancestors(i)[treeDepth] = j}}
<1> DEFINE root == nodeAt(treeDepth, j)
           Found(d) == NodesUnder(j, d)
           Step(f, d) == IF d = 0 THEN {root} ELSE UNION {{t[2], t[3]} : t \in f[d - 1]}
           h == [d \in 0..treeDepth |-> Found(d)]
           at == CHOOSE f : f = [d \in 0..treeDepth |-> Step(f, d)]
<1>1. Found(0) = {root}
  BY NodesUnderSteps
<1>2. ASSUME NEW d \in 0..(treeDepth - 1)
      PROVE  Found(d + 1) = UNION {{t[2], t[3]} : t \in Found(d)}
  BY NodesUnderSteps
<1>3. h = [d \in 0..treeDepth |-> Step(h, d)]
  <2>1. ASSUME NEW d \in 0..treeDepth
        PROVE  Found(d) = Step(h, d)
    <3>1. CASE d = 0
      BY <1>1, <3>1
    <3>2. CASE d # 0
      <4>1. d - 1 \in 0..(treeDepth - 1) /\ (d - 1) + 1 = d /\ d - 1 \in 0..treeDepth
        BY <3>2
      <4>2. Found(d) = UNION {{t[2], t[3]} : t \in Found(d - 1)}
        <5> HIDE DEF Found
        <5> QED BY <1>2, <4>1
      <4> HIDE DEF Found
      <4> QED BY <3>2, <4>1, <4>2
    <3> QED BY <3>1, <3>2
  <2> HIDE DEF Found
  <2> QED BY <2>1
<1>4. at = [d \in 0..treeDepth |-> Step(at, d)]
  <2> HIDE DEF h
  <2> QED BY <1>3
<1>5. LeavesUnder(root) = at[treeDepth]
  BY DEF LeavesUnder
<1> HIDE DEF at, Found
<1> DEFINE S == {d \in 0..treeDepth : at[d] = Found(d)}
<1>6. 0 \in S
  BY <1>1, <1>4
<1>7. ASSUME NEW d \in 0..(treeDepth - 1), d \in S
      PROVE d + 1 \in S
  <2>1. d + 1 \in 0..treeDepth /\ d + 1 # 0 /\ (d + 1) - 1 = d
    OBVIOUS
  <2>2. at[d + 1] = UNION {{t[2], t[3]} : t \in at[d]}
    BY <1>4, <2>1
  <2> QED BY <1>2, <1>7, <2>1, <2>2
<1>8. 0..treeDepth \subseteq S
  <2> HIDE DEF S
  <2> QED BY <1>6, <1>7, BoundedInduction
<1>9. at[treeDepth] = Found(treeDepth) /\ treeDepth - treeDepth = 0
  BY <1>8
<1> QED BY <1>5, <1>9 DEF Found, NodesUnder

\* The number of leaves of the tree, 2^treeDepth, which insertLeaf never
\* compares an index with.
Capacity ==
  LET leaves[level \in 0..treeDepth] ==
        IF level = 0 THEN 1 ELSE 2 * leaves[level - 1]
  IN leaves[treeDepth]

\* An index below the capacity leads to index 0 at the top.
LEMMA FittingIndex ==
  /\ Capacity \in Nat
  /\ \A index \in Nat : index < Capacity => Ancestors(index)[treeDepth] = 0
<1> DEFINE leaves == CHOOSE f : f = [level \in 0..treeDepth |->
                                       IF level = 0 THEN 1 ELSE 2 * f[level - 1]]
           double == [level \in 1..treeDepth |-> [n \in Nat |-> 2 * n]]
<1>1. PICK g : IsRecursion(g, treeDepth, Nat, 1, double)
  <2>1. double \in StepMaps(treeDepth, Nat)
    BY DEF StepMaps
  <2> HIDE DEF double
  <2> QED BY <2>1, Recursion
<1>2. ASSUME NEW level \in 1..treeDepth
      PROVE  g[level] = 2 * g[level - 1]
  <2>1. g[level - 1] \in Nat
    BY <1>1 DEF IsRecursion
  <2> QED BY <1>1, <2>1 DEF IsRecursion
<1>3. g = [level \in 0..treeDepth |-> IF level = 0 THEN 1 ELSE 2 * g[level - 1]]
  BY <1>1, <1>2 DEF IsRecursion
<1>4. leaves = [level \in 0..treeDepth |-> IF level = 0 THEN 1 ELSE 2 * leaves[level - 1]]
  BY <1>3
<1>5. Capacity = leaves[treeDepth]
  BY DEF Capacity
<1> HIDE DEF leaves
<1> DEFINE S == {d \in 0..treeDepth :
                   /\ leaves[d] \in Nat
                   /\ \A index \in Nat : index < leaves[d] => Ancestors(index)[d] = 0}
<1>6. 0 \in S
  BY <1>4, Halving
<1>7. ASSUME NEW d \in 0..(treeDepth - 1), d \in S
      PROVE d + 1 \in S
  <2>1. d + 1 \in 0..treeDepth /\ d + 1 # 0 /\ (d + 1) - 1 = d
    OBVIOUS
  <2>2. leaves[d + 1] = 2 * leaves[d] /\ leaves[d] \in Nat
    BY <1>4, <1>7, <2>1
  <2>3. ASSUME NEW index \in Nat, index < leaves[d + 1]
        PROVE  Ancestors(index)[d + 1] = 0
    <3>1. index \div 2 \in Nat /\ index \div 2 < leaves[d]
      BY <2>2, <2>3
    <3>2. Ancestors(index)[d + 1] = Ancestors(index \div 2)[d]
      BY ParentFirst
    <3> QED BY <1>7, <3>1, <3>2
  <2> QED BY <2>1, <2>2, <2>3
<1>8. 0..treeDepth \subseteq S
  <2> HIDE DEF S
  <2> QED BY <1>6, <1>7, BoundedInduction
<1> QED BY <1>5, <1>8
-----------------------------------------------------------------------------
\* The root is a node at the top of the tree, and the only one there while
\* every index fits.
RootOnTop ==
  \E j \in Nat : /\ currentRoot = nodeAt(treeDepth, j)
                 /\ nextLeafIndex <= Capacity => j = 0

\* Every record has a leaf of its own, which holds its hash, and no other leaf
\* holds anything.
LeavesOnFile ==
  /\ DOMAIN leafIndexByProperty = DOMAIN records
  /\ nextLeafIndex \in Nat
  /\ \A p \in DOMAIN records :
       /\ leafIndexByProperty[p] \in 0..(nextLeafIndex - 1)
       /\ nodeAt(0, leafIndexByProperty[p]) = leafHash(records[p])
  /\ \A p, q \in DOMAIN records :
       leafIndexByProperty[p] = leafIndexByProperty[q] => p = q
  /\ \A k \in Nat : nodeAt(0, k) # zeroHashes[0] =>
       \E p \in DOMAIN records : leafIndexByProperty[p] = k

Restorable ==
  /\ IsMap(records)
  /\ IsMap(leafIndexByProperty)
  /\ IsMap(nodes)
  /\ phase = "upgrading" => /\ recordsEntries = Entries(records)
                            /\ leafIndexEntries = Entries(leafIndexByProperty)
                            /\ nodesEntries = Entries(nodes)

IInv == /\ Hashed
        /\ RootOnTop
        /\ LeavesOnFile
        /\ Restorable

\* An empty tree is hashed: all its nodes are the table of empty subtrees.
LEMMA InitIInv == Init => IInv
<1> SUFFICES ASSUME Init PROVE IInv
  OBVIOUS
<1>1. \A level, i : nodeAt(level, i) = zeroHashes[level]
  BY EmptyIsMap DEF Init, nodeAt
<1>2. Hashed
  BY <1>1, ZeroHashes DEF Hashed
<1>3. RootOnTop
  BY <1>1 DEF Init, RootOnTop
<1>4. LeavesOnFile
  BY <1>1, EmptyIsMap DEF Init, LeavesOnFile
<1>5. Restorable
  BY EmptyIsMap DEF Init, CanisterInit, Restorable
<1> QED BY <1>2, <1>3, <1>4, <1>5 DEF IInv

\* A submission rewrites the property's own leaf, or takes the next index.
LEMMA SubmitKeepsIInv ==
  ASSUME IInv, NEW p, NEW record, submitRecord(p, record)
  PROVE  IInv'
<1> DEFINE known == p \in DOMAIN leafIndexByProperty
<1>1. PICK index : index = IF known THEN leafIndexByProperty[p] ELSE nextLeafIndex
  OBVIOUS
<1>2. /\ records' = Put(records, p, record)
      /\ insertLeaf(index, leafHash(record))
      /\ IF known THEN leafIndexByProperty' = leafIndexByProperty
                  ELSE leafIndexByProperty' = Put(leafIndexByProperty, p, index)
      /\ nextLeafIndex' = IF known THEN nextLeafIndex ELSE nextLeafIndex + 1
      /\ phase' = "running"
  BY <1>1 DEF submitRecord, Running, canisterVars
<1>3. /\ index \in Nat /\ nextLeafIndex \in Nat /\ nextLeafIndex' \in Nat
      /\ index < nextLeafIndex' /\ nextLeafIndex <= nextLeafIndex'
      /\ \A q \in DOMAIN records : /\ leafIndexByProperty[q] \in Nat
                                   /\ leafIndexByProperty[q] < nextLeafIndex
                                   /\ q # p => leafIndexByProperty[q] # index
      /\ DOMAIN leafIndexByProperty = DOMAIN records
  BY <1>1, <1>2 DEF IInv, LeavesOnFile
<1>4. /\ Hashed'
      /\ nodeAt(0, index)' = leafHash(record)
      /\ \A k \in Nat : k # index => nodeAt(0, k)' = nodeAt(0, k)
      /\ currentRoot' = nodeAt(treeDepth, Ancestors(index)[treeDepth])'
      /\ nodes' = [key \in DOMAIN nodes' |-> nodes'[key]]
  BY <1>2, <1>3, InsertKeepsHashed DEF IInv
<1>5. RootOnTop'
  <2>1. Ancestors(index)[treeDepth] \in Nat
    BY <1>3, Halving
  <2>2. nextLeafIndex' <= Capacity => Ancestors(index)[treeDepth] = 0
    BY <1>3, FittingIndex
  <2> QED BY <1>4, <2>1, <2>2 DEF RootOnTop, Capacity
<1>6. /\ IsMap(records') /\ DOMAIN records' = DOMAIN records \cup {p}
      /\ records'[p] = record
      /\ \A q \in DOMAIN records : q # p => records'[q] = records[q]
  <2>1. records' = Put(records, p, record)
    BY <1>2
  <2> QED BY <2>1 DEF Put, IsMap
<1>7. /\ IsMap(leafIndexByProperty')
      /\ DOMAIN leafIndexByProperty' = DOMAIN records \cup {p}
      /\ leafIndexByProperty'[p] = index
      /\ \A q \in DOMAIN records : q # p => leafIndexByProperty'[q] = leafIndexByProperty[q]
  <2>1. CASE known
    <3>1. leafIndexByProperty' = leafIndexByProperty
      BY <1>2, <2>1
    <3>2. IsMap(leafIndexByProperty)
      BY DEF IInv, Restorable
    <3> QED BY <1>1, <1>3, <2>1, <3>1, <3>2
  <2>2. CASE ~known
    <3>1. leafIndexByProperty' = Put(leafIndexByProperty, p, index)
      BY <1>2, <2>2
    <3> QED BY <1>3, <3>1 DEF Put, IsMap
  <2> QED BY <2>1, <2>2
<1>8. LeavesOnFile'
  <2>1. ASSUME NEW q \in DOMAIN records'
        PROVE  /\ leafIndexByProperty'[q] \in 0..(nextLeafIndex' - 1)
               /\ nodeAt(0, leafIndexByProperty[q])' = leafHash(records[q])'
    <3>1. PICK k \in Nat : k = leafIndexByProperty'[q] /\ k < nextLeafIndex'
      BY <1>3, <1>6, <1>7
    <3>2. CASE q = p
      <4>1. k = index /\ records'[q] = record
        BY <1>6, <1>7, <3>1, <3>2
      <4>2. nodeAt(0, k)' = leafHash(record)
        BY <1>4, <4>1
      <4>3. leafHash(records[q])' = leafHash(record)
        BY <4>1 DEF leafHash
      <4>4. nodeAt(0, leafIndexByProperty[q])' = nodeAt(0, k)'
        BY <3>1 DEF nodeAt
      <4> QED BY <1>3, <3>1, <4>2, <4>3, <4>4
    <3>3. CASE q # p
      <4>1. /\ q \in DOMAIN records /\ records'[q] = records[q]
            /\ k = leafIndexByProperty[q] /\ k # index
        BY <1>3, <1>6, <1>7, <3>1, <3>3
      <4>2. nodeAt(0, k)' = nodeAt(0, k)
        BY <1>4, <4>1
      <4>3. nodeAt(0, k) = leafHash(records[q])
        BY <4>1 DEF IInv, LeavesOnFile
      <4>4. leafHash(records[q])' = leafHash(records[q])
        BY <4>1 DEF leafHash
      <4>5. nodeAt(0, leafIndexByProperty[q])' = nodeAt(0, k)'
        BY <3>1 DEF nodeAt
      <4> QED BY <1>3, <3>1, <4>2, <4>3, <4>4, <4>5
    <3> QED BY <3>2, <3>3
  <2>2. ASSUME NEW q \in DOMAIN records', NEW r \in DOMAIN records',
               leafIndexByProperty'[q] = leafIndexByProperty'[r]
        PROVE  q = r
    BY <1>3, <1>6, <1>7, <2>2 DEF IInv, LeavesOnFile
  <2>3. ASSUME NEW k \in Nat, nodeAt(0, k)' # zeroHashes[0]
        PROVE  \E q \in DOMAIN records' : leafIndexByProperty'[q] = k
    <3>1. CASE k = index
      BY <1>6, <1>7, <3>1
    <3>2. CASE k # index
      <4>1. PICK q \in DOMAIN records : leafIndexByProperty[q] = k
        BY <1>4, <2>3, <3>2 DEF IInv, LeavesOnFile
      <4>2. q # p
        BY <1>1, <1>3, <3>2, <4>1
      <4> QED BY <1>6, <1>7, <4>1, <4>2
    <3> QED BY <3>1, <3>2
  <2> QED BY <1>3, <1>6, <1>7, <2>1, <2>2, <2>3 DEF LeavesOnFile
<1>9. Restorable'
  BY <1>2, <1>4, <1>6, <1>7 DEF Restorable, IsMap
<1> QED BY <1>4, <1>5, <1>8, <1>9 DEF IInv

\* Every step that is not a submission.
Others == TimePasses \/ PreUpgrade \/ PostUpgrade \/ UpgradeTraps \/ UNCHANGED vars

\* Time and the upgrade hooks leave the maps and the root as they are.
LEMMA OthersKeepMaps ==
  ASSUME IInv, Others
  PROVE  UNCHANGED <<mapVars, rootVars>>
<1>1. CASE PostUpgrade
  BY <1>1, FromIterEntries DEF PostUpgrade, UpgradeEnds, IInv, Restorable, mapVars
<1>2. CASE TimePasses \/ PreUpgrade \/ UpgradeTraps \/ UNCHANGED vars
  BY <1>2 DEF TimePasses, PreUpgrade, UpgradeTraps, vars, treeVars
<1> QED BY <1>1, <1>2 DEF Others

\* So they keep the invariant.
LEMMA OthersKeepIInv ==
  ASSUME IInv, Others
  PROVE  IInv'
<1>1. UNCHANGED <<mapVars, rootVars>>
  BY OthersKeepMaps
<1>2. /\ records' = records /\ leafIndexByProperty' = leafIndexByProperty
      /\ nodes' = nodes /\ currentRoot' = currentRoot /\ nextLeafIndex' = nextLeafIndex
  BY <1>1 DEF mapVars, rootVars
<1>3. Hashed' /\ RootOnTop' /\ LeavesOnFile'
  BY <1>2 DEF IInv, Hashed, RootOnTop, LeavesOnFile, nodeAt
<1>4. Restorable'
  BY <1>2 DEF IInv, Restorable, Others, TimePasses, Tick, Running, PreUpgrade, UpgradeStarts,
              PostUpgrade, UpgradeTraps, UpgradeEnds, vars, canisterVars, treeVars, entryVars
<1> QED BY <1>3, <1>4 DEF IInv

\* The inductive invariant holds in every reachable state of the tree.
LEMMA Invariance == Spec => []IInv
<1>1. IInv /\ [Next]_vars => IInv'
  BY SubmitKeepsIInv, OthersKeepIInv DEF Next, Others
<1> QED BY InitIInv, <1>1, PTL DEF Spec
-----------------------------------------------------------------------------
\* A witness folds to the node at the top of its leaf's path.
LEMMA WitnessFolds ==
  ASSUME IInv, NEW p \in DOMAIN records
  PROVE  LET witness == getMerkleProof(p)
         IN Fold(leafHash(records[p]), witness.siblings, witness.pathBits)
              = nodeAt(treeDepth, Ancestors(leafIndexByProperty[p])[treeDepth])
<1> DEFINE up == Ancestors(leafIndexByProperty[p])
           witness == getMerkleProof(p)
           g == [level \in 0..treeDepth |-> nodeAt(level, up[level])]
           leaf == leafHash(records[p])
<1>1. leafIndexByProperty[p] \in Nat /\ nodeAt(0, leafIndexByProperty[p]) = leaf
  BY DEF IInv, LeavesOnFile
<1>2. /\ up[0] = leafIndexByProperty[p]
      /\ \A level \in 0..treeDepth : up[level] \in Nat
      /\ \A level \in 1..treeDepth : up[level] = up[level - 1] \div 2
  BY <1>1, Halving
<1>3. ASSUME NEW level \in 0..(treeDepth - 1)
      PROVE  /\ witness.siblings[level] = nodeAt(level, Sibling(up[level]))
             /\ witness.pathBits[level] = (up[level] % 2 = 1)
  BY DEF getMerkleProof
<1> HIDE DEF witness, up, leaf
<1>4. ASSUME NEW level \in 1..treeDepth
      PROVE  g[level] = IF witness.pathBits[level - 1]
                          THEN nodeHash(witness.siblings[level - 1], g[level - 1])
                          ELSE nodeHash(g[level - 1], witness.siblings[level - 1])
  <2> DEFINE child == up[level - 1]
  <2>1. /\ level - 1 \in 0..(treeDepth - 1)
        /\ child \in Nat /\ up[level] \in Nat /\ up[level] = child \div 2
        /\ g[level] = nodeAt(level, up[level]) /\ g[level - 1] = nodeAt(level - 1, child)
    BY <1>2
  <2>2. nodeAt(level, up[level]) = nodeHash(nodeAt(level - 1, 2 * up[level]),
                                            nodeAt(level - 1, 2 * up[level] + 1))
    BY <2>1 DEF IInv, Hashed
  <2> HIDE DEF g
  <2>3. CASE child % 2 = 1
    <3>1. child = 2 * up[level] + 1 /\ Sibling(child) = 2 * up[level]
      BY <2>1, <2>3 DEF Sibling
    <3>2. witness.pathBits[level - 1] /\ witness.siblings[level - 1] = nodeAt(level - 1, Sibling(child))
      BY <1>3, <2>1, <2>3
    <3> QED BY <2>1, <2>2, <3>1, <3>2
  <2>4. CASE child % 2 # 1
    <3>1. child = 2 * up[level] /\ Sibling(child) = 2 * up[level] + 1
      BY <2>1, <2>4 DEF Sibling
    <3>2. ~witness.pathBits[level - 1] /\ witness.siblings[level - 1] = nodeAt(level - 1, Sibling(child))
      BY <1>3, <2>1, <2>4
    <3> QED BY <2>1, <2>2, <3>1, <3>2
  <2> QED BY <2>3, <2>4
<1>5. g[0] = leaf /\ g[treeDepth] = nodeAt(treeDepth, up[treeDepth])
  BY <1>1, <1>2
<1>6. Fold(leaf, witness.siblings, witness.pathBits) = g[treeDepth]
  <2> HIDE DEF g
  <2> QED BY <1>4, <1>5, FoldIs
<1> QED BY <1>5, <1>6 DEF witness, up, leaf

\* In a tree that fits, every leaf's path ends at the root.
LEMMA FittingWitnesses ==
  ASSUME IInv, nextLeafIndex <= Capacity
  PROVE  /\ WitnessReachesRoot
         /\ currentRoot = nodeAt(treeDepth, 0)
         /\ \A p \in DOMAIN records : Ancestors(leafIndexByProperty[p])[treeDepth] = 0
<1>1. currentRoot = nodeAt(treeDepth, 0)
  BY DEF IInv, RootOnTop
<1>2. ASSUME NEW p \in DOMAIN records
      PROVE  Ancestors(leafIndexByProperty[p])[treeDepth] = 0
  <2>1. /\ leafIndexByProperty[p] \in Nat /\ nextLeafIndex \in Nat
        /\ leafIndexByProperty[p] < nextLeafIndex
    BY DEF IInv, LeavesOnFile
  <2> QED BY <2>1, FittingIndex
<1>3. WitnessReachesRoot
  BY <1>1, <1>2, WitnessFolds DEF WitnessReachesRoot, IInv, LeavesOnFile
<1> QED BY <1>1, <1>2, <1>3

\* "the sibling path from a property's leaf up to currentRoot"
\* (main.mo:222-223) is that, as long as no index outgrows the tree.
THEOREM TreeWitnessReachesRoot ==
  Spec => [](nextLeafIndex <= Capacity => WitnessReachesRoot)
<1>1. IInv => (nextLeafIndex <= Capacity => WitnessReachesRoot)
  BY FittingWitnesses
<1> QED BY Invariance, <1>1, PTL

\* Whatever has a witness at the root is an empty leaf or a leaf of a record on
\* file, even in a tree that overflows.
LEMMA NoForeignLeaf ==
  ASSUME IInv
  PROVE  LeavesUnder(currentRoot) \ {zeroHashes[0]}
           \subseteq {leafHash(records[p]) : p \in DOMAIN records}
<1>1. PICK j \in Nat : currentRoot = nodeAt(treeDepth, j)
  BY DEF IInv, RootOnTop
<1>2. LeavesUnder(currentRoot)
        = {nodeAt(0, k) : k \in {i \in Nat : Ancestors(i)[treeDepth] = j}}
  BY <1>1, LeavesUnderTop DEF IInv
<1>3. ASSUME NEW k \in Nat, nodeAt(0, k) # zeroHashes[0]
      PROVE  \E p \in DOMAIN records : nodeAt(0, k) = leafHash(records[p])
  <2>1. PICK p \in DOMAIN records : leafIndexByProperty[p] = k
    BY <1>3 DEF IInv, LeavesOnFile
  <2> QED BY <2>1 DEF IInv, LeavesOnFile
<1> QED BY <1>2, <1>3

\* The provable leaves are exactly those of the records on file: a
\* resubmission leaves no earlier leaf provable (main.mo:99-106).
THEOREM TreeNoStaleLeaf ==
  Spec => [](nextLeafIndex <= Capacity => NoStaleLeaf)
<1>1. IInv => (nextLeafIndex <= Capacity => NoStaleLeaf)
  <2> SUFFICES ASSUME IInv, nextLeafIndex <= Capacity PROVE NoStaleLeaf
    OBVIOUS
  <2>1. currentRoot = nodeAt(treeDepth, 0)
    BY DEF IInv, RootOnTop
  <2>2. LeavesUnder(currentRoot)
          = {nodeAt(0, k) : k \in {i \in Nat : Ancestors(i)[treeDepth] = 0}}
    BY <2>1, LeavesUnderTop DEF IInv
  <2>3. ASSUME NEW p \in DOMAIN records
        PROVE  leafHash(records[p]) \in LeavesUnder(currentRoot) \ {zeroHashes[0]}
    <3>1. PICK k \in Nat : /\ k = leafIndexByProperty[p] /\ k < nextLeafIndex
                           /\ nextLeafIndex \in Nat
                           /\ nodeAt(0, k) = leafHash(records[p])
      BY DEF IInv, LeavesOnFile
    <3>2. Ancestors(k)[treeDepth] = 0
      BY <3>1, FittingIndex
    <3>3. leafHash(records[p]) # <<"empty">>
      <4>1. leafHash(records[p])[1] = "leaf" /\ <<"empty">>[1] = "empty"
        BY DEF leafHash
      <4> QED BY <4>1
    <3> QED BY <2>2, <3>1, <3>2, <3>3, ZeroHashes
  <2> QED BY <2>3, NoForeignLeaf DEF NoStaleLeaf
<1> QED BY Invariance, <1>1, PTL
-----------------------------------------------------------------------------
\* An index is taken once for each property, so as many are in use as there
\* are properties on file.
Counted ==
  /\ DOMAIN leafIndexByProperty \subseteq Properties
  /\ IsFiniteSet(DOMAIN leafIndexByProperty)
  /\ nextLeafIndex = Cardinality(DOMAIN leafIndexByProperty)

\* Resubmissions take no index, whatever upgrades come in between.
LEMMA CountedInvariance == Spec => []Counted
<1>1. Init => Counted
  BY EmptyIsMap, FS_EmptySet DEF Init, Counted
<1>2. ASSUME IInv, Counted, [Next]_vars
      PROVE  Counted'
  <2>1. ASSUME NEW p \in Properties, NEW record \in Record, submitRecord(p, record)
        PROVE  Counted'
    <3>1. CASE p \in DOMAIN leafIndexByProperty
      BY <1>2, <2>1, <3>1 DEF submitRecord, Counted
    <3>2. CASE p \notin DOMAIN leafIndexByProperty
      <4>1. /\ DOMAIN leafIndexByProperty' = DOMAIN leafIndexByProperty \cup {p}
            /\ nextLeafIndex' = nextLeafIndex + 1
        BY <2>1, <3>2, PutIsMap DEF submitRecord
      <4>2. /\ IsFiniteSet(DOMAIN leafIndexByProperty \cup {p})
            /\ Cardinality(DOMAIN leafIndexByProperty \cup {p})
                 = Cardinality(DOMAIN leafIndexByProperty) + 1
        BY <1>2, <3>2, FS_AddElement DEF Counted
      <4> QED BY <1>2, <4>1, <4>2 DEF Counted
    <3> QED BY <3>1, <3>2
  <2>2. CASE Others
    BY <1>2, <2>2, OthersKeepMaps DEF mapVars, rootVars, Counted
  <2> QED BY <1>2, <2>1, <2>2 DEF Next, Others
<1> QED BY Invariance, <1>1, <1>2, PTL DEF Spec

\* One leaf per property: properties that fit the tree leave leaves that do.
LEMMA CountedFits ==
  ASSUME IsFiniteSet(Properties), Cardinality(Properties) <= Capacity
  PROVE  Counted => nextLeafIndex <= Capacity
<1> SUFFICES ASSUME Counted PROVE nextLeafIndex <= Capacity
  OBVIOUS
<1>1. Cardinality(DOMAIN leafIndexByProperty) <= Cardinality(Properties)
  BY FS_Subset DEF Counted
<1>2. /\ Cardinality(DOMAIN leafIndexByProperty) \in Nat
      /\ Cardinality(Properties) \in Nat
  BY FS_CardinalityType DEF Counted
<1> QED BY <1>1, <1>2, FittingIndex DEF Counted

\* A registry with no more properties than its tree has leaves never hands out
\* a witness that does not lead to the root, nor keeps a stale leaf provable.
THEOREM FittingTreeIsSound ==
  ASSUME IsFiniteSet(Properties), Cardinality(Properties) <= Capacity
  PROVE  Spec => [](WitnessReachesRoot /\ NoStaleLeaf)
<1>1. Counted => nextLeafIndex <= Capacity
  BY CountedFits
<1> QED BY TreeWitnessReachesRoot, TreeNoStaleLeaf, CountedInvariance, <1>1, PTL
-----------------------------------------------------------------------------
\* The tree that a file of records makes, whatever was submitted in between: its
\* leaves are where the properties have them, and every node above is hashed.
LeafAt(file, i) ==
  IF \E p \in DOMAIN file : leafIndexByProperty[p] = i
    THEN leafHash(file[CHOOSE p \in DOMAIN file : leafIndexByProperty[p] = i])
    ELSE zeroHashes[0]

IsTreeOf(tree, file) ==
  /\ \A i \in Nat : tree[0][i] = LeafAt(file, i)
  /\ \A level \in 1..treeDepth, i \in Nat :
       tree[level][i] = nodeHash(tree[level - 1][2 * i], tree[level - 1][2 * i + 1])

RootOf(root, file) == \E tree : IsTreeOf(tree, file) /\ root = tree[treeDepth][0]

\* The tree of the records on file is the one that the canister keeps.
LEMMA RootOfRecords ==
  ASSUME IInv, nextLeafIndex <= Capacity
  PROVE  RootOf(currentRoot, records)
<1> DEFINE tree == [level \in 0..treeDepth |-> [i \in Nat |-> nodeAt(level, i)]]
<1>1. ASSUME NEW i \in Nat
      PROVE  nodeAt(0, i) = LeafAt(records, i)
  <2>1. CASE \E p \in DOMAIN records : leafIndexByProperty[p] = i
    <3>1. PICK p : /\ p = CHOOSE q \in DOMAIN records : leafIndexByProperty[q] = i
                   /\ p \in DOMAIN records /\ leafIndexByProperty[p] = i
      BY <2>1
    <3>2. nodeAt(0, i) = leafHash(records[p])
      BY <3>1 DEF IInv, LeavesOnFile
    <3> QED BY <2>1, <3>1, <3>2 DEF LeafAt
  <2>2. CASE ~\E p \in DOMAIN records : leafIndexByProperty[p] = i
    BY <2>2 DEF IInv, LeavesOnFile, LeafAt
  <2> QED BY <2>1, <2>2
<1>2. \A i \in Nat : tree[0][i] = LeafAt(records, i)
  BY <1>1
<1>3. ASSUME NEW level \in 1..treeDepth, NEW i \in Nat
      PROVE  tree[level][i] = nodeHash(tree[level - 1][2 * i], tree[level - 1][2 * i + 1])
  <2>1. level \in 0..treeDepth /\ level - 1 \in 0..treeDepth
        /\ 2 * i \in Nat /\ 2 * i + 1 \in Nat
    OBVIOUS
  <2>2. nodeAt(level, i) = nodeHash(nodeAt(level - 1, 2 * i), nodeAt(level - 1, 2 * i + 1))
    BY DEF IInv, Hashed
  <2> QED BY <2>1, <2>2
<1>4. currentRoot = tree[treeDepth][0]
  <2>1. currentRoot = nodeAt(treeDepth, 0)
    BY FittingWitnesses
  <2> QED BY <2>1
<1> HIDE DEF tree
<1> QED BY <1>2, <1>3, <1>4 DEF RootOf, IsTreeOf

\* A file has one root.
LEMMA RootIsUnique ==
  ASSUME NEW file, NEW root1, NEW root2, RootOf(root1, file), RootOf(root2, file)
  PROVE  root1 = root2
<1>1. PICK t1 : IsTreeOf(t1, file) /\ root1 = t1[treeDepth][0]
  BY DEF RootOf
<1>2. PICK t2 : IsTreeOf(t2, file) /\ root2 = t2[treeDepth][0]
  BY DEF RootOf
<1> DEFINE S == {level \in 0..treeDepth : \A i \in Nat : t1[level][i] = t2[level][i]}
<1>3. 0 \in S
  BY <1>1, <1>2 DEF IsTreeOf
<1>4. ASSUME NEW level \in 0..(treeDepth - 1), level \in S
      PROVE  level + 1 \in S
  <2>1. /\ level + 1 \in 1..treeDepth /\ level + 1 \in 0..treeDepth
        /\ (level + 1) - 1 = level
    OBVIOUS
  <2>2. ASSUME NEW i \in Nat
        PROVE  t1[level + 1][i] = t2[level + 1][i]
    <3>1. /\ t1[level][2 * i] = t2[level][2 * i]
          /\ t1[level][2 * i + 1] = t2[level][2 * i + 1]
      BY <1>4
    <3>2. t1[level + 1][i] = nodeHash(t1[level][2 * i], t1[level][2 * i + 1])
      BY <1>1, <2>1 DEF IsTreeOf
    <3>3. t2[level + 1][i] = nodeHash(t2[level][2 * i], t2[level][2 * i + 1])
      BY <1>2, <2>1 DEF IsTreeOf
    <3> QED BY <3>1, <3>2, <3>3
  <2> QED BY <2>1, <2>2
<1>5. treeDepth \in S
  <2> HIDE DEF S
  <2> QED BY <1>3, <1>4, BoundedInduction
<1> QED BY <1>1, <1>2, <1>5

\* It stays the file's root for as long as its properties keep their leaves.
LEMMA RootStays ==
  ASSUME NEW root, NEW file, RootOf(root, file),
         \A p \in DOMAIN file : leafIndexByProperty'[p] = leafIndexByProperty[p]
  PROVE  RootOf(root, file)'
<1>1. PICK tree : IsTreeOf(tree, file) /\ root = tree[treeDepth][0]
  BY DEF RootOf
<1>2. ASSUME NEW i \in Nat
      PROVE  LeafAt(file, i)' = LeafAt(file, i)
  <2>1. (CHOOSE p \in DOMAIN file : leafIndexByProperty'[p] = i)
          = CHOOSE p \in DOMAIN file : leafIndexByProperty[p] = i
    OBVIOUS
  <2> QED BY <2>1 DEF LeafAt
<1>3. IsTreeOf(tree, file)'
  BY <1>1, <1>2 DEF IsTreeOf
<1> QED BY <1>1, <1>3 DEF RootOf

\* A property keeps its leaf for good.
LEMMA LeavesStay ==
  ASSUME IInv, [Next]_vars, NEW p \in DOMAIN leafIndexByProperty
  PROVE  p \in DOMAIN leafIndexByProperty' /\ leafIndexByProperty'[p] = leafIndexByProperty[p]
<1>1. ASSUME NEW q \in Properties, NEW record \in Record, submitRecord(q, record)
      PROVE  p \in DOMAIN leafIndexByProperty' /\ leafIndexByProperty'[p] = leafIndexByProperty[p]
  <2>1. \/ leafIndexByProperty' = leafIndexByProperty
        \/ /\ q \notin DOMAIN leafIndexByProperty
           /\ leafIndexByProperty' = Put(leafIndexByProperty, q, nextLeafIndex)
    BY <1>1 DEF submitRecord
  <2> QED BY <2>1 DEF Put
<1>2. CASE Others
  BY <1>2, OthersKeepMaps DEF mapVars
<1> QED BY <1>1, <1>2 DEF Next, Others

\* What a root that was pinned still says, however long ago it was pinned: it is
\* the root of the records that were on file, which had the first leaves.
Pins(root, file) ==
  /\ DOMAIN file \subseteq DOMAIN leafIndexByProperty
  /\ \A p \in DOMAIN file : leafIndexByProperty[p] \in 0..(Cardinality(DOMAIN file) - 1)
  /\ RootOf(root, file)

\* The current root says it of the records on file.
LEMMA RecordsPin ==
  ASSUME IInv, Counted, nextLeafIndex <= Capacity
  PROVE  Pins(currentRoot, records)
  BY RootOfRecords DEF IInv, LeavesOnFile, Counted, Pins

\* No step changes what it says.
LEMMA PinsStay ==
  ASSUME IInv, [Next]_vars, NEW root, NEW file, Pins(root, file)
  PROVE  Pins(root, file)'
<1>1. \A p \in DOMAIN file : /\ p \in DOMAIN leafIndexByProperty'
                             /\ leafIndexByProperty'[p] = leafIndexByProperty[p]
  BY LeavesStay DEF Pins
<1>2. RootOf(root, file)'
  BY <1>1, RootStays DEF Pins
<1> QED BY <1>1, <1>2 DEF Pins

\* Nothing was filed since: the root is still the current one.
LEMMA PinnedIsCurrent ==
  ASSUME IInv, nextLeafIndex <= Capacity, NEW root, Pins(root, records)
  PROVE  root = currentRoot
  BY RootOfRecords, RootIsUnique DEF Pins

\* Where no leaf from an index on is in use, the nodes are empty subtrees.
LEMMA EmptyBeyond ==
  ASSUME NEW file, NEW tree, IsTreeOf(tree, file),
         \A p \in DOMAIN file : leafIndexByProperty[p] \in {0, 1}
  PROVE  /\ \A i \in Nat : i >= 2 => tree[0][i] = zeroHashes[0]
         /\ \A level \in 1..treeDepth, i \in Nat : i >= 1 => tree[level][i] = zeroHashes[level]
<1> DEFINE S == {level \in 0..treeDepth :
                   \A i \in Nat : i >= 1 /\ (level = 0 => i >= 2)
                                    => tree[level][i] = zeroHashes[level]}
<1>1. 0 \in S
  <2>1. ASSUME NEW i \in Nat, i >= 2
        PROVE  tree[0][i] = zeroHashes[0]
    <3>1. ~\E p \in DOMAIN file : leafIndexByProperty[p] = i
      BY <2>1
    <3> QED BY <3>1 DEF IsTreeOf, LeafAt
  <2> QED BY <2>1
<1>2. ASSUME NEW level \in 0..(treeDepth - 1), level \in S
      PROVE  level + 1 \in S
  <2>1. /\ level + 1 \in 1..treeDepth /\ level + 1 \in 0..treeDepth
        /\ (level + 1) - 1 = level
    OBVIOUS
  <2>2. ASSUME NEW i \in Nat, i >= 1
        PROVE  tree[level + 1][i] = zeroHashes[level + 1]
    <3>1. /\ tree[level][2 * i] = zeroHashes[level]
          /\ tree[level][2 * i + 1] = zeroHashes[level]
      <4>1. 2 * i \in Nat /\ 2 * i >= 2 /\ 2 * i + 1 \in Nat /\ 2 * i + 1 >= 2
        BY <2>2
      <4> QED BY <1>2, <4>1
    <3>2. tree[level + 1][i] = nodeHash(tree[level][2 * i], tree[level][2 * i + 1])
      BY <2>1 DEF IsTreeOf
    <3>3. zeroHashes[level + 1] = nodeHash(zeroHashes[level], zeroHashes[level])
      BY <2>1, ZeroHashes
    <3> QED BY <3>1, <3>2, <3>3
  <2> QED BY <2>1, <2>2
<1>3. 0..treeDepth \subseteq S
  <2> HIDE DEF S
  <2> QED BY <1>1, <1>2, BoundedInduction
<1>4. ASSUME NEW i \in Nat, i >= 2
      PROVE  tree[0][i] = zeroHashes[0]
  <2>1. 0 \in S
    BY <1>3
  <2> QED BY <1>4, <2>1
<1>5. ASSUME NEW level \in 1..treeDepth, NEW i \in Nat, i >= 1
      PROVE  tree[level][i] = zeroHashes[level]
  <2>1. level \in S
    BY <1>3
  <2> QED BY <1>5, <2>1
<1> QED BY <1>4, <1>5

\* The root of one record in the first leaf is the one that prove_live predicts.
LEMMA RootOfFirst ==
  ASSUME NEW file, NEW p, DOMAIN file = {p}, leafIndexByProperty[p] = 0,
         NEW root, RootOf(root, file)
  PROVE  root = Fold(leafHash(file[p]), first_path, first_bits)
<1>1. PICK tree : IsTreeOf(tree, file) /\ root = tree[treeDepth][0]
  BY DEF RootOf
<1>2. tree[0][0] = leafHash(file[p])
  <2>1. (CHOOSE q \in DOMAIN file : leafIndexByProperty[q] = 0) = p
    OBVIOUS
  <2> QED BY <1>1, <2>1 DEF IsTreeOf, LeafAt
<1>3. tree[0][1] = zeroHashes[0]
  BY <1>1 DEF IsTreeOf, LeafAt
<1>4. \A level \in 1..treeDepth : tree[level][1] = zeroHashes[level]
  BY <1>1, EmptyBeyond
<1> DEFINE g == [level \in 0..treeDepth |-> tree[level][0]]
<1>5. g[0] = leafHash(file[p])
  BY <1>2
<1>6. ASSUME NEW level \in 1..treeDepth
      PROVE  g[level] = IF first_bits[level - 1]
                          THEN nodeHash(first_path[level - 1], g[level - 1])
                          ELSE nodeHash(g[level - 1], first_path[level - 1])
  <2>1. /\ level - 1 \in Levels /\ level \in 0..treeDepth /\ level - 1 \in 0..treeDepth
        /\ 2 * 0 = 0 /\ 2 * 0 + 1 = 1
    BY DEF Levels
  <2>2. tree[level][0] = nodeHash(tree[level - 1][0], tree[level - 1][1])
    BY <1>1, <2>1 DEF IsTreeOf
  <2>3. tree[level - 1][1] = zeroHashes[level - 1]
    <3>1. CASE level = 1
      BY <1>3, <3>1
    <3>2. CASE level # 1
      <4>1. level - 1 \in 1..treeDepth
        BY <3>2
      <4> QED BY <1>4, <4>1
    <3> QED BY <3>1, <3>2
  <2>4. first_bits[level - 1] = FALSE /\ first_path[level - 1] = zeroHashes[level - 1]
    BY <2>1 DEF first_bits, first_path
  <2> QED BY <2>1, <2>2, <2>3, <2>4
<1>7. g[treeDepth] = root
  BY <1>1
<1> HIDE DEF g
<1> QED BY <1>5, <1>6, <1>7, FoldIs

\* The root of two records is the one that the second owner's path leads to.
LEMMA RootOfSecond ==
  ASSUME NEW file, NEW p, NEW q, DOMAIN file = {p, q},
         leafIndexByProperty[p] = 0, leafIndexByProperty[q] = 1, treeDepth # 0,
         NEW root, RootOf(root, file),
         NEW owner0, leafHash(file[p]) = leaf_of(owner0)
  PROVE  root = Fold(leafHash(file[q]), second_path(owner0), second_bits)
<1>1. PICK tree : IsTreeOf(tree, file) /\ root = tree[treeDepth][0]
  BY DEF RootOf
<1>2. tree[0][0] = leafHash(file[p]) /\ tree[0][1] = leafHash(file[q])
  <2>1. /\ (CHOOSE r \in DOMAIN file : leafIndexByProperty[r] = 0) = p
        /\ (CHOOSE r \in DOMAIN file : leafIndexByProperty[r] = 1) = q
    OBVIOUS
  <2> QED BY <1>1, <2>1 DEF IsTreeOf, LeafAt
<1>4. \A level \in 1..treeDepth : tree[level][1] = zeroHashes[level]
  BY <1>1, EmptyBeyond
<1> DEFINE g == [level \in 0..treeDepth |-> IF level = 0 THEN leafHash(file[q])
                                                         ELSE tree[level][0]]
<1>5. g[0] = leafHash(file[q])
  OBVIOUS
<1>6. ASSUME NEW level \in 1..treeDepth
      PROVE  g[level] = IF second_bits[level - 1]
                          THEN nodeHash(second_path(owner0)[level - 1], g[level - 1])
                          ELSE nodeHash(g[level - 1], second_path(owner0)[level - 1])
  <2>1. /\ level - 1 \in Levels /\ level \in 0..treeDepth /\ level - 1 \in 0..treeDepth
        /\ 2 * 0 = 0 /\ 2 * 0 + 1 = 1
    BY DEF Levels
  <2>2. tree[level][0] = nodeHash(tree[level - 1][0], tree[level - 1][1])
    BY <1>1, <2>1 DEF IsTreeOf
  <2>3. g[level] = tree[level][0]
    BY <2>1
  <2>4. /\ second_bits[level - 1] = (level = 1)
        /\ second_path(owner0)[level - 1] =
             IF level = 1 THEN leaf_of(owner0) ELSE zeroHashes[level - 1]
    BY <2>1 DEF second_bits, second_path
  <2>5. (IF second_bits[level - 1]
           THEN nodeHash(second_path(owner0)[level - 1], g[level - 1])
           ELSE nodeHash(g[level - 1], second_path(owner0)[level - 1]))
          = IF level = 1 THEN nodeHash(leaf_of(owner0), g[level - 1])
                         ELSE nodeHash(g[level - 1], zeroHashes[level - 1])
    <3> HIDE DEF g
    <3>1. CASE level = 1
      <4>1. second_bits[level - 1]
        BY <2>4, <3>1, Zenon
      <4> QED BY <2>4, <3>1, <4>1, Zenon
    <3>2. CASE level # 1
      <4>1. ~second_bits[level - 1]
        BY <2>4, <3>2, Zenon
      <4> QED BY <2>4, <3>2, <4>1, Zenon
    <3> QED BY <3>1, <3>2
  <2>6. CASE level = 1
    <3>1. g[level - 1] = leafHash(file[q])
      BY <2>1, <2>6
    <3>2. tree[level - 1][0] = leaf_of(owner0) /\ tree[level - 1][1] = leafHash(file[q])
      BY <1>2, <2>6
    <3>3. g[level] = nodeHash(leaf_of(owner0), g[level - 1])
      BY <2>2, <2>3, <3>1, <3>2
    <3> HIDE DEF g
    <3> QED BY <2>5, <2>6, <3>3
  <2>7. CASE level # 1
    <3>1. level - 1 \in 1..treeDepth /\ level - 1 # 0
      BY <2>7
    <3>2. g[level - 1] = tree[level - 1][0] /\ tree[level - 1][1] = zeroHashes[level - 1]
      BY <1>4, <2>1, <3>1
    <3>3. g[level] = nodeHash(g[level - 1], zeroHashes[level - 1])
      BY <2>2, <2>3, <3>2
    <3> HIDE DEF g
    <3> QED BY <2>5, <2>7, <3>3
  <2> HIDE DEF g
  <2> QED BY <2>6, <2>7
<1>7. g[treeDepth] = root
  BY <1>1
<1> HIDE DEF g
<1> QED BY <1>5, <1>6, <1>7, FoldIs
-----------------------------------------------------------------------------
\* What folds to the root is a leaf of the tree, whatever siblings and sides
\* the prover chose: a hash is what was hashed.
LEMMA FoldedIsLeaf ==
  ASSUME Hashed, NEW j \in Nat, NEW leaf, NEW siblings, NEW pathBits,
         Fold(leaf, siblings, pathBits) = nodeAt(treeDepth, j)
  PROVE  \E k \in Nat : leaf = nodeAt(0, k)
<1>1. PICK g :
        /\ g[0] = leaf
        /\ \A level \in 1..treeDepth :
             g[level] = IF pathBits[level - 1]
                          THEN nodeHash(siblings[level - 1], g[level - 1])
                          ELSE nodeHash(g[level - 1], siblings[level - 1])
        /\ Fold(leaf, siblings, pathBits) = g[treeDepth]
  BY FoldSteps
<1> DEFINE S == {n \in 0..treeDepth : \E k \in Nat : g[treeDepth - n] = nodeAt(treeDepth - n, k)}
<1>2. 0 \in S
  <2>1. treeDepth - 0 = treeDepth /\ 0 \in 0..treeDepth
    OBVIOUS
  <2> QED BY <1>1, <2>1
<1>3. ASSUME NEW n \in 0..(treeDepth - 1), n \in S
      PROVE  n + 1 \in S
  <2> DEFINE level == treeDepth - n
  <2>1. /\ level \in 1..treeDepth /\ treeDepth - (n + 1) = level - 1
        /\ n + 1 \in 0..treeDepth
    OBVIOUS
  <2>2. PICK k \in Nat : g[level] = nodeAt(level, k)
    BY <1>3
  <2>3. nodeAt(level, k) = nodeHash(nodeAt(level - 1, 2 * k), nodeAt(level - 1, 2 * k + 1))
    BY <2>1 DEF Hashed
  <2>4. \/ g[level] = nodeHash(siblings[level - 1], g[level - 1])
        \/ g[level] = nodeHash(g[level - 1], siblings[level - 1])
    BY <1>1, <2>1
  <2>5. g[level - 1] = nodeAt(level - 1, 2 * k) \/ g[level - 1] = nodeAt(level - 1, 2 * k + 1)
    BY <2>2, <2>3, <2>4 DEF nodeHash
  <2>6. 2 * k \in Nat /\ 2 * k + 1 \in Nat
    OBVIOUS
  <2> HIDE DEF level
  <2> QED BY <2>1, <2>5, <2>6
<1>4. 0..treeDepth \subseteq S
  <2> HIDE DEF S
  <2> QED BY <1>2, <1>3, BoundedInduction
<1>5. treeDepth \in S /\ treeDepth - treeDepth = 0
  BY <1>4
<1> QED BY <1>1, <1>5
-----------------------------------------------------------------------------
\* The hashes found depth levels below a node at the top.
LEMMA TermsUnderTop ==
  ASSUME Hashed, NEW j \in Nat, NEW depth \in 0..treeDepth
  PROVE  TermsUnder(nodeAt(treeDepth, j), depth) = NodesUnder(j, depth)
<1> DEFINE root == nodeAt(treeDepth, j)
           Found(d) == NodesUnder(j, d)
           Children(T) == UNION {IF t[1] = "node" THEN {t[2], t[3]} ELSE {} : t \in T}
           Step(f, d) == IF d = 0 THEN {root} ELSE Children(f[d - 1])
           h == [d \in 0..depth |-> Found(d)]
           at == CHOOSE f : f = [d \in 0..depth |-> Step(f, d)]
<1>1. Found(0) = {root}
  BY NodesUnderSteps
<1>2. ASSUME NEW d \in 0..(depth - 1)
      PROVE  Found(d + 1) = Children(Found(d))
  <2>1. d \in 0..(treeDepth - 1)
    OBVIOUS
  <2>2. /\ Found(d + 1) = UNION {{t[2], t[3]} : t \in Found(d)}
        /\ \A t \in Found(d) : t[1] = "node"
    BY <2>1, NodesUnderSteps
  <2> HIDE DEF Found
  <2> QED BY <2>2
<1> HIDE DEF Children
<1>3. h = [d \in 0..depth |-> Step(h, d)]
  <2>1. ASSUME NEW d \in 0..depth
        PROVE  Found(d) = Step(h, d)
    <3>1. CASE d = 0
      BY <1>1, <3>1
    <3>2. CASE d # 0
      <4>1. d - 1 \in 0..(depth - 1) /\ (d - 1) + 1 = d /\ d - 1 \in 0..depth
        BY <3>2
      <4>2. Found(d) = Children(Found(d - 1))
        <5> HIDE DEF Found
        <5> QED BY <1>2, <4>1
      <4> HIDE DEF Found
      <4> QED BY <3>2, <4>1, <4>2
    <3> QED BY <3>1, <3>2
  <2> HIDE DEF Found
  <2> QED BY <2>1
<1>4. at = [d \in 0..depth |-> Step(at, d)]
  <2> HIDE DEF h
  <2> QED BY <1>3
<1>5. TermsUnder(root, depth) = at[depth]
  BY DEF TermsUnder, Children
<1> HIDE DEF at, Found
<1> DEFINE S == {d \in 0..depth : at[d] = Found(d)}
<1>6. 0 \in S
  BY <1>1, <1>4
<1>7. ASSUME NEW d \in 0..(depth - 1), d \in S
      PROVE d + 1 \in S
  <2>1. d + 1 \in 0..depth /\ d + 1 # 0 /\ (d + 1) - 1 = d
    OBVIOUS
  <2>2. at[d + 1] = Children(at[d])
    BY <1>4, <2>1
  <2> QED BY <1>2, <1>7, <2>1, <2>2
<1>8. 0..depth \subseteq S
  <2> HIDE DEF S
  <2> QED BY <1>6, <1>7, BoundedInduction
<1> QED BY <1>5, <1>8 DEF Found

\* Climbing to a level and then d more is climbing level + d.
LEMMA AncestorsOfAncestor ==
  ASSUME NEW index \in Nat, NEW level \in 0..treeDepth, NEW d \in 0..(treeDepth - level)
  PROVE  Ancestors(Ancestors(index)[level])[d] = Ancestors(index)[level + d]
<1> DEFINE up == Ancestors(index)
           over == Ancestors(up[level])
           top == treeDepth - level
           S == {e \in 0..top : over[e] = up[level + e]}
<1>1. /\ up[level] \in Nat
      /\ \A l \in 1..treeDepth : up[l] = up[l - 1] \div 2
  BY Halving
<1>2. /\ over[0] = up[level]
      /\ \A l \in 1..treeDepth : over[l] = over[l - 1] \div 2
  <2> HIDE DEF up
  <2> QED BY <1>1, Halving
<1> HIDE DEF up, over
<1>3. 0 \in S
  BY <1>2
<1>4. ASSUME NEW e \in 0..(top - 1), e \in S
      PROVE  e + 1 \in S
  <2>1. /\ e + 1 \in 1..treeDepth /\ level + (e + 1) \in 1..treeDepth
        /\ (e + 1) - 1 = e /\ (level + (e + 1)) - 1 = level + e /\ e + 1 \in 0..top
    OBVIOUS
  <2>2. over[e + 1] = over[e] \div 2 /\ up[level + (e + 1)] = up[level + e] \div 2
    BY <1>1, <1>2, <2>1
  <2> QED BY <1>4, <2>1, <2>2
<1>5. 0..top \subseteq S
  <2>1. top \in Nat
    OBVIOUS
  <2> HIDE DEF S
  <2> QED BY <1>3, <1>4, <2>1, BoundedInduction
<1> QED BY <1>5 DEF up, over

\* What getMerkleProof hands out is one of the paths worth trying.
LEMMA HonestPath ==
  ASSUME IInv, nextLeafIndex <= Capacity, NEW p \in DOMAIN records
  PROVE  /\ getMerkleProof(p).siblings \in Paths(currentRoot)
         /\ getMerkleProof(p).pathBits \in [0..(treeDepth - 1) -> BOOLEAN]
<1> DEFINE index == leafIndexByProperty[p]
           up == Ancestors(index)
           siblings == [level \in 0..(treeDepth - 1) |-> nodeAt(level, Sibling(up[level]))]
<1>1. /\ index \in Nat /\ up[treeDepth] = 0
      /\ currentRoot = nodeAt(treeDepth, 0) /\ Hashed
  BY FittingWitnesses DEF IInv, LeavesOnFile
<1>2. \A level \in 0..treeDepth : up[level] \in Nat
  BY <1>1, Halving
<1>3. ASSUME NEW level \in 0..(treeDepth - 1)
      PROVE  siblings[level] \in TermsUnder(currentRoot, treeDepth - level)
  <2> DEFINE d == treeDepth - level
             i == up[level]
  <2>1. d \in 1..treeDepth /\ d - 1 \in 0..(treeDepth - 1) /\ (d - 1) + 1 = d
        /\ level \in 0..treeDepth /\ d \in 0..(treeDepth - level) /\ d \in 0..treeDepth
        /\ level + d = treeDepth /\ treeDepth - d = level
    OBVIOUS
  <2>2. i \in Nat
    BY <1>2, <2>1
  <2>3. Ancestors(i)[d] = 0
    <3> HIDE DEF d, index
    <3> QED BY <1>1, <2>1, AncestorsOfAncestor
  <2>4. Sibling(i) \in Nat /\ Sibling(i) \div 2 = i \div 2
    <3> HIDE DEF i
    <3>1. CASE i % 2 = 0
      <4>1. Sibling(i) = i + 1 /\ (i + 1) \div 2 = i \div 2
        BY <2>2, <3>1 DEF Sibling
      <4> QED BY <2>2, <4>1
    <3>2. CASE i % 2 # 0
      <4>1. Sibling(i) = i - 1 /\ (i - 1) \div 2 = i \div 2 /\ i - 1 \in Nat
        BY <2>2, <3>2 DEF Sibling
      <4> QED BY <4>1
    <3> QED BY <3>1, <3>2
  <2>5. Ancestors(Sibling(i))[d] = 0
    <3> HIDE DEF d, i
    <3>1. Ancestors(i)[d] = Ancestors(i \div 2)[d - 1]
      BY <2>1, <2>2, ParentFirst
    <3>2. Ancestors(Sibling(i))[d] = Ancestors(Sibling(i) \div 2)[d - 1]
      BY <2>1, <2>4, ParentFirst
    <3> QED BY <2>3, <2>4, <3>1, <3>2
  <2>6. nodeAt(level, Sibling(i)) \in NodesUnder(0, d)
    <3> HIDE DEF d, i
    <3> QED BY <2>1, <2>4, <2>5 DEF NodesUnder
  <2>7. TermsUnder(currentRoot, d) = NodesUnder(0, d)
    <3> HIDE DEF d
    <3> QED BY <1>1, <2>1, TermsUnderTop
  <2> QED BY <2>6, <2>7
<1>4. siblings \in Paths(currentRoot)
  <2> DEFINE Terms == UNION {TermsUnder(currentRoot, d) : d \in 1..treeDepth}
  <2>1. ASSUME NEW level \in 0..(treeDepth - 1) PROVE siblings[level] \in Terms
    <3>1. treeDepth - level \in 1..treeDepth
      OBVIOUS
    <3> HIDE DEF siblings
    <3> QED BY <1>3, <3>1
  <2>2. siblings \in [0..(treeDepth - 1) -> Terms]
    <3> HIDE DEF Terms
    <3> QED BY <2>1
  <2> HIDE DEF siblings
  <2> QED BY <1>3, <2>2 DEF Paths
<1>5. /\ getMerkleProof(p).siblings = siblings
      /\ getMerkleProof(p).pathBits = [level \in 0..(treeDepth - 1) |-> up[level] % 2 = 1]
  BY DEF getMerkleProof
<1> HIDE DEF siblings, up
<1> QED BY <1>4, <1>5
-----------------------------------------------------------------------------
\* A number below the modulus is its own residue.
LEMMA SmallResidue ==
  ASSUME NEW m \in Nat \ {0}, NEW x \in 0..(m - 1)
  PROVE  x % m = x
  OBVIOUS

\* A range check bounds the element: no bit from weight w on means below w.
LEMMA RangeCheckBounds ==
  ASSUME NEW w \in Nat \ {0}, NEW x \in Nat
  PROVE  enforce_fits_in_bits(x, w) <=> x < w
  BY DEF enforce_fits_in_bits

\* Between two range-checked elements the difference does not wrap around.
LEMMA DifferenceIsSmall ==
  ASSUME NEW a \in 0..(TwoN - 1), NEW b \in 0..(TwoN - 1)
  PROVE  (TwoN + a - b - 1) % FrModulus = TwoN + a - b - 1
<1>1. TwoN + a - b - 1 \in 0..(FrModulus - 1)
  BY GadgetAssumption
<1>2. FrModulus \in Nat \ {0}
  BY GadgetAssumption
<1> QED
  BY <1>1, <1>2, SmallResidue

\* The top bit of a number below 2 * w says whether it reaches w.
LEMMA TopBit ==
  ASSUME NEW w \in Nat \ {0}, NEW d \in 0..(2 * w - 1)
  PROVE  /\ Bit(d, w) = 1 <=> d >= w
         /\ enforce_fits_in_bits(d, 2 * w)
<1>1. CASE d < w
  <2>1. d \div w = 0
    BY <1>1
  <2> QED
    BY <1>1, <2>1 DEF Bit, enforce_fits_in_bits
<1>2. CASE d >= w
  <2>1. d \div w = 1
    BY <1>2
  <2> QED
    BY <1>2, <2>1 DEF Bit, enforce_fits_in_bits
<1> QED
  BY <1>1, <1>2

\* Constraint 3 of the circuit (circuit/src/lib.rs:186-194, 253-276) holds of
\* two field elements exactly when both fit in n bits and the expiry is the
\* later one: no underflow, no wrap-around and no equality slips through.
THEOREM ComparisonIsExact ==
  ASSUME NEW license_expiry \in Fr, NEW current_timestamp \in Fr
  PROVE  not_expired(license_expiry, current_timestamp)
           <=> /\ license_expiry < TwoN
               /\ current_timestamp < TwoN
               /\ license_expiry > current_timestamp
<1> DEFINE a == license_expiry
           b == current_timestamp
<1>1. /\ enforce_fits_in_bits(a, TwoN) <=> a < TwoN
      /\ enforce_fits_in_bits(b, TwoN) <=> b < TwoN
  BY GadgetAssumption, RangeCheckBounds DEF Fr
<1>2. CASE a < TwoN /\ b < TwoN
  <2>1. a \in 0..(TwoN - 1) /\ b \in 0..(TwoN - 1)
    BY <1>2, GadgetAssumption DEF Fr
  <2>2. TwoN + a - b - 1 \in 0..(2 * TwoN - 1)
    BY <2>1, GadgetAssumption
  <2>3. enforce_greater_than(a, b) <=> TwoN + a - b - 1 >= TwoN
    BY <2>1, <2>2, DifferenceIsSmall, TopBit, GadgetAssumption
       DEF enforce_greater_than
  <2>4. TwoN + a - b - 1 >= TwoN <=> a > b
    BY <2>1, GadgetAssumption
  <2> QED
    BY <1>1, <1>2, <2>3, <2>4 DEF not_expired
<1>3. CASE ~(a < TwoN /\ b < TwoN)
  BY <1>1, <1>3 DEF not_expired
<1> QED
  BY <1>2, <1>3

\* What the constraints say of the public inputs and a witness, one by one.
LEMMA ConstraintsAre ==
  ASSUME NEW inputs, NEW w, inputs[5] \in Fr, w.license_expiry \in Fr
  PROVE  generate_constraints(inputs, w)
           <=> /\ w.encumbrance_flag = 0
               /\ w.license_status = 1
               /\ w.license_expiry < TwoN
               /\ inputs[5] < w.license_expiry
               /\ inputs[6] = nullifierHash(w.owner_secret, w.property_id,
                                            inputs[3], inputs[4])
               /\ Fold(<<"leaf", inputs[1],
                         ownerCommitment(w.owner_secret, w.property_id),
                         w.encumbrance_flag, w.license_status, w.license_expiry>>,
                       w.merkle_path, w.merkle_path_bits) = inputs[2]
<1>1. not_expired(w.license_expiry, inputs[5])
        <=> w.license_expiry < TwoN /\ inputs[5] < w.license_expiry
  <2>1. /\ w.license_expiry \in Int /\ inputs[5] \in Int /\ TwoN \in Int
    BY GadgetAssumption DEF Fr
  <2> QED BY <2>1, ComparisonIsExact
<1> QED BY <1>1 DEF generate_constraints

\* An owner whose path leads to the root, and whose licence outlives the
\* challenge, satisfies the constraints (prove.rs:77-98, prove_live.rs:164-191).
LEMMA HonestIsSound ==
  ASSUME NEW owner, NEW c, NEW path, NEW bits,
         NEW root, root = Fold(leaf_of(owner), path, bits),
         owner.expiry \in Fr, c.currentTimestamp \in Fr,
         owner.expiry < TwoN, c.currentTimestamp < owner.expiry
  PROVE  generate_constraints(public_inputs(owner, root, c), circuit_of(owner, path, bits))
<1> DEFINE inputs == public_inputs(owner, root, c)
           w == circuit_of(owner, path, bits)
           leaf == <<"leaf", inputs[1], ownerCommitment(w.owner_secret, w.property_id),
                     w.encumbrance_flag, w.license_status, w.license_expiry>>
<1>1. /\ inputs[1] = registryId /\ inputs[2] = root /\ inputs[3] = c.purpose
      /\ inputs[4] = c.requestNonce /\ inputs[5] = c.currentTimestamp
      /\ inputs[6] = nullifierHash(owner.secret, owner.id, c.purpose, c.requestNonce)
  BY DEF public_inputs
<1>2. /\ w.owner_secret = owner.secret /\ w.property_id = owner.id
      /\ w.encumbrance_flag = 0 /\ w.license_status = 1
      /\ w.license_expiry = owner.expiry
      /\ w.merkle_path = path /\ w.merkle_path_bits = bits
  BY DEF circuit_of
<1> HIDE DEF inputs, w
<1>3. leaf = leaf_of(owner)
  BY <1>1, <1>2 DEF leaf_of, leafHash
<1>4. inputs[5] \in Fr /\ w.license_expiry \in Fr
  BY <1>1, <1>2
<1> QED BY <1>1, <1>2, <1>3, <1>4, ConstraintsAre DEF inputs, w

\* The root that prove2 computes on its own is the one its path leads to.
LEMMA SecondRootIsFold ==
  ASSUME treeDepth # 0, NEW owner0, NEW owner1
  PROVE  second_root(leaf_of(owner0), leaf_of(owner1))
           = Fold(leaf_of(owner1), second_path(owner0), second_bits)
<1> DEFINE leaf0 == leaf_of(owner0)
           leaf1 == leaf_of(owner1)
           Step(g, level) == IF level = 1 THEN nodeHash(leaf0, leaf1)
                                          ELSE nodeHash(g[level - 1], zeroHashes[level - 1])
           cur == CHOOSE g : g = [level \in 1..treeDepth |-> Step(g, level)]
<1>1. treeDepth \in Nat \ {0}
  OBVIOUS
<1>2. PICK g : /\ g[0] = leaf1
               /\ \A level \in 1..treeDepth :
                    g[level] = IF second_bits[level - 1]
                                 THEN nodeHash(second_path(owner0)[level - 1], g[level - 1])
                                 ELSE nodeHash(g[level - 1], second_path(owner0)[level - 1])
               /\ Fold(leaf1, second_path(owner0), second_bits) = g[treeDepth]
  BY FoldSteps
<1> HIDE DEF leaf0, leaf1
<1>3. ASSUME NEW level \in 1..treeDepth
      PROVE  g[level] = Step(g, level)
  <2>1. level - 1 \in Levels
    BY <1>1 DEF Levels
  <2>2. /\ second_bits[level - 1] = (level = 1)
        /\ second_path(owner0)[level - 1] =
             IF level = 1 THEN leaf0 ELSE zeroHashes[level - 1]
    BY <2>1 DEF second_bits, second_path, leaf0
  <2>3. g[level] = IF level = 1 THEN nodeHash(leaf0, g[level - 1])
                                ELSE nodeHash(g[level - 1], zeroHashes[level - 1])
    BY <1>2, <2>2
  <2>4. level = 1 => g[level - 1] = leaf1
    BY <1>2
  <2> QED BY <2>3, <2>4
<1>4. cur = [level \in 1..treeDepth |-> Step(cur, level)]
  <2> DEFINE h == [level \in 1..treeDepth |-> g[level]]
  <2>1. ASSUME NEW level \in 1..treeDepth
        PROVE  h[level] = Step(h, level)
    <3>1. level # 1 => level - 1 \in 1..treeDepth
      BY <1>1
    <3>2. level # 1 => h[level - 1] = g[level - 1]
      BY <3>1
    <3> QED BY <1>3, <3>2
  <2>2. h = [level \in 1..treeDepth |-> Step(h, level)]
    BY <2>1
  <2> HIDE DEF h
  <2> QED BY <2>2
<1>5. second_root(leaf0, leaf1) = cur[treeDepth]
  BY DEF second_root
<1> HIDE DEF cur
<1> DEFINE S == {n \in 0..(treeDepth - 1) : cur[n + 1] = g[n + 1]}
<1>6. 0 \in S
  BY <1>1, <1>3, <1>4
<1>7. ASSUME NEW n \in 0..((treeDepth - 1) - 1), n \in S
      PROVE  n + 1 \in S
  <2>1. /\ n + 2 \in 1..treeDepth /\ n + 1 \in 0..(treeDepth - 1)
        /\ (n + 2) - 1 = n + 1 /\ n + 2 # 1 /\ (n + 1) + 1 = n + 2
    BY <1>1
  <2>2. cur[n + 2] = nodeHash(cur[n + 1], zeroHashes[n + 1])
    BY <1>4, <2>1
  <2>3. g[n + 2] = nodeHash(g[n + 1], zeroHashes[n + 1])
    BY <1>3, <2>1
  <2> QED BY <1>7, <2>1, <2>2, <2>3
<1>8. treeDepth - 1 \in S
  <2> HIDE DEF S
  <2>1. treeDepth - 1 \in Nat
    BY <1>1
  <2>2. 0..(treeDepth - 1) \subseteq S
    BY <1>6, <1>7, <2>1, BoundedInduction
  <2> QED BY <2>1, <2>2
<1>9. (treeDepth - 1) + 1 = treeDepth
  BY <1>1
<1> QED BY <1>2, <1>5, <1>8, <1>9 DEF leaf0, leaf1

\* A root pinned when the owner's record was the only one is what prove_live
\* prove predicts (prove_live.rs:164-191).
LEMMA PinnedIsFirst ==
  ASSUME NEW root, NEW file, NEW owner, Pins(root, file),
         DOMAIN file = {owner.id}, leafHash(file[owner.id]) = leaf_of(owner)
  PROVE  root = first_root(owner)
<1>1. Cardinality(DOMAIN file) = 1
  BY FS_Singleton
<1>2. leafIndexByProperty[owner.id] = 0
  BY <1>1 DEF Pins
<1> QED BY <1>2, RootOfFirst DEF Pins, first_root

\* One pinned when there were two, the first in the first leaf, is what prove2
\* predicts (prove_live.rs:281-310).
LEMMA PinnedIsSecond ==
  ASSUME IInv, treeDepth # 0, NEW root, NEW file, Pins(root, file),
         NEW owner0, NEW owner1, owner0.id # owner1.id,
         DOMAIN file = {owner0.id, owner1.id},
         leafHash(file[owner0.id]) = leaf_of(owner0),
         leafHash(file[owner1.id]) = leaf_of(owner1),
         leafIndexByProperty[owner0.id] = 0
  PROVE  root = second_root(leaf_of(owner0), leaf_of(owner1))
<1>1. Cardinality(DOMAIN file) = 2
  <2>1. IsFiniteSet({owner0.id}) /\ Cardinality({owner0.id}) = 1
    BY FS_Singleton
  <2>2. Cardinality({owner0.id} \cup {owner1.id}) = 2
    BY <2>1, FS_AddElement
  <2>3. DOMAIN file = {owner0.id} \cup {owner1.id}
    OBVIOUS
  <2> QED BY <2>2, <2>3
<1>2. leafIndexByProperty[owner1.id] \in 0..1
  BY <1>1 DEF Pins
<1>3. owner0.id \in DOMAIN records /\ owner1.id \in DOMAIN records
  BY DEF Pins, IInv, LeavesOnFile
<1>4. leafIndexByProperty[owner1.id] # 0
  BY <1>3 DEF IInv, LeavesOnFile
<1>5. leafIndexByProperty[owner1.id] = 1
  BY <1>2, <1>4
<1>6. root = Fold(leafHash(file[owner1.id]), second_path(owner0), second_bits)
  BY <1>5, RootOfSecond DEF Pins
<1> QED BY <1>6, SecondRootIsFold
-----------------------------------------------------------------------------
\* The records on file have the fields that submitRecord takes.
RecordsTyped == \A p \in DOMAIN records : records[p] \in Record

\* No step files anything else, upgrades included.
LEMMA TypedInvariance == Spec => []RecordsTyped
<1>1. Init => RecordsTyped
  BY EmptyIsMap DEF Init, RecordsTyped
<1>2. ASSUME IInv, RecordsTyped, [Next]_vars
      PROVE  RecordsTyped'
  <2>1. ASSUME NEW p \in Properties, NEW record \in Record, submitRecord(p, record)
        PROVE  RecordsTyped'
    <3>1. records' = Put(records, p, record)
      BY <2>1 DEF submitRecord
    <3>2. /\ DOMAIN records' = DOMAIN records \cup {p}
          /\ \A q \in DOMAIN records' :
               records'[q] = IF q = p THEN record ELSE records[q]
      BY <3>1 DEF Put
    <3> QED BY <1>2, <2>1, <3>2 DEF RecordsTyped
  <2>2. CASE Others
    BY <1>2, <2>2, OthersKeepMaps DEF mapVars, RecordsTyped
  <2> QED BY <1>2, <2>1, <2>2 DEF Next, Others
<1> QED BY Invariance, <1>1, <1>2, PTL DEF Spec

-----------------------------------------------------------------------------
\* The right side of CircuitStatesTheClaim: a record on file backs the claim.
Backed(pub) ==
  /\ pub.registry_id = registryId
  /\ \E p \in DOMAIN records, secret \in Secrets, id \in PropertyIds :
       /\ records[p].ownerCommitment = ownerCommitment(secret, id)
       /\ pub.nullifier = nullifierHash(secret, id, pub.purpose, pub.request_nonce)
       /\ records[p].encumbranceFlag = 0
       /\ records[p].licenseStatus = 1
       /\ records[p].licenseExpiry < TwoN
       /\ pub.current_timestamp < records[p].licenseExpiry

\* What the constraints say of a statement about the tree as it stands.
LEMMA StatementIs ==
  ASSUME NEW pub \in Statements, NEW w, w.license_expiry \in Fr
  PROVE  generate_constraints(PublicInputs(pub), w)
           <=> /\ w.encumbrance_flag = 0
               /\ w.license_status = 1
               /\ w.license_expiry < TwoN
               /\ pub.current_timestamp < w.license_expiry
               /\ pub.nullifier = nullifierHash(w.owner_secret, w.property_id,
                                                pub.purpose, pub.request_nonce)
               /\ Fold(<<"leaf", pub.registry_id,
                         ownerCommitment(w.owner_secret, w.property_id),
                         w.encumbrance_flag, w.license_status, w.license_expiry>>,
                       w.merkle_path, w.merkle_path_bits) = pub.merkle_root
<1> DEFINE inputs == PublicInputs(pub)
<1>1. /\ inputs[1] = pub.registry_id /\ inputs[2] = pub.merkle_root
      /\ inputs[3] = pub.purpose /\ inputs[4] = pub.request_nonce
      /\ inputs[5] = pub.current_timestamp /\ inputs[6] = pub.nullifier
  BY DEF PublicInputs
<1>2. pub.current_timestamp \in Fr
  BY CircuitAssumption DEF Statements
<1> HIDE DEF inputs
<1>3. inputs[5] \in Fr
  BY <1>1, <1>2
<1> QED BY <1>1, <1>3, ConstraintsAre DEF inputs

\* Soundness: a witness that satisfies the constraints is that of a record.
LEMMA SatisfiedIsBacked ==
  ASSUME IInv, NEW pub \in Statements, NEW w \in Witnesses(currentRoot),
         generate_constraints(PublicInputs(pub), w)
  PROVE  Backed(pub)
<1> DEFINE leaf == <<"leaf", pub.registry_id,
                     ownerCommitment(w.owner_secret, w.property_id),
                     w.encumbrance_flag, w.license_status, w.license_expiry>>
<1>1. /\ w.owner_secret \in Secrets /\ w.property_id \in PropertyIds
      /\ w.license_expiry \in Fr
  BY CircuitAssumption DEF Witnesses
<1>2. /\ w.encumbrance_flag = 0
      /\ w.license_status = 1
      /\ w.license_expiry < TwoN
      /\ pub.current_timestamp < w.license_expiry
      /\ pub.nullifier = nullifierHash(w.owner_secret, w.property_id,
                                       pub.purpose, pub.request_nonce)
      /\ Fold(leaf, w.merkle_path, w.merkle_path_bits) = pub.merkle_root
  BY <1>1, StatementIs
<1>3. PICK j \in Nat : pub.merkle_root = nodeAt(treeDepth, j)
  BY DEF Statements, IInv, RootOnTop
<1>4. PICK k \in Nat : leaf = nodeAt(0, k)
  <2> HIDE DEF leaf
  <2>1. Hashed
    BY DEF IInv
  <2> QED BY <1>2, <1>3, <2>1, FoldedIsLeaf
<1>5. leaf # zeroHashes[0]
  <2>1. leaf[1] = "leaf" /\ zeroHashes[0][1] = "empty"
    BY ZeroHashes
  <2> QED BY <2>1
<1>6. PICK p \in DOMAIN records : leafIndexByProperty[p] = k
  <2> HIDE DEF leaf
  <2> QED BY <1>4, <1>5 DEF IInv, LeavesOnFile
<1>7. leaf = leafHash(records[p])
  <2> HIDE DEF leaf
  <2> QED BY <1>4, <1>6 DEF IInv, LeavesOnFile
<1>8. /\ pub.registry_id = registryId
      /\ records[p].ownerCommitment = ownerCommitment(w.owner_secret, w.property_id)
      /\ records[p].encumbranceFlag = w.encumbrance_flag
      /\ records[p].licenseStatus = w.license_status
      /\ records[p].licenseExpiry = w.license_expiry
  BY <1>7 DEF leafHash
<1> QED BY <1>1, <1>2, <1>8 DEF Backed

\* Completeness: the owner of such a record has a witness, the one made of the
\* record and of what getMerkleProof replies.
LEMMA BackedIsSatisfied ==
  ASSUME IInv, RecordsTyped, nextLeafIndex <= Capacity,
         NEW pub \in Statements, Backed(pub)
  PROVE  \E w \in Witnesses(currentRoot) : generate_constraints(PublicInputs(pub), w)
<1>1. PICK p \in DOMAIN records, secret \in Secrets, id \in PropertyIds :
        /\ records[p].ownerCommitment = ownerCommitment(secret, id)
        /\ pub.nullifier = nullifierHash(secret, id, pub.purpose, pub.request_nonce)
        /\ records[p].encumbranceFlag = 0
        /\ records[p].licenseStatus = 1
        /\ records[p].licenseExpiry < TwoN
        /\ pub.current_timestamp < records[p].licenseExpiry
  BY DEF Backed
<1> DEFINE path == getMerkleProof(p).siblings
           bits == getMerkleProof(p).pathBits
           w == [owner_secret |-> secret, property_id |-> id,
                 encumbrance_flag |-> records[p].encumbranceFlag,
                 license_status |-> records[p].licenseStatus,
                 license_expiry |-> records[p].licenseExpiry,
                 merkle_path |-> path, merkle_path_bits |-> bits]
<1>2. path \in Paths(currentRoot) /\ bits \in [0..(treeDepth - 1) -> BOOLEAN]
  BY HonestPath
<1>3. Fold(leafHash(records[p]), path, bits) = currentRoot
  BY FittingWitnesses DEF WitnessReachesRoot
<1> HIDE DEF path, bits
<1>4. /\ records[p].encumbranceFlag \in Flags
      /\ records[p].licenseStatus \in Statuses
      /\ records[p].licenseExpiry \in Expiries
  BY DEF RecordsTyped, Record
<1>5. w \in Witnesses(currentRoot)
  BY <1>2, <1>4 DEF Witnesses
<1>6. /\ pub.registry_id = registryId
      /\ pub.merkle_root = currentRoot
  BY DEF Backed, Statements
<1>7. w.license_expiry \in Fr
  BY <1>4, CircuitAssumption
<1>8. Fold(<<"leaf", pub.registry_id,
             ownerCommitment(w.owner_secret, w.property_id),
             w.encumbrance_flag, w.license_status, w.license_expiry>>,
           w.merkle_path, w.merkle_path_bits) = pub.merkle_root
  BY <1>1, <1>3, <1>6 DEF leafHash
<1>9. generate_constraints(PublicInputs(pub), w)
  <2>1. /\ w.encumbrance_flag = 0
        /\ w.license_status = 1
        /\ w.license_expiry < TwoN
        /\ pub.current_timestamp < w.license_expiry
        /\ pub.nullifier = nullifierHash(w.owner_secret, w.property_id,
                                         pub.purpose, pub.request_nonce)
    BY <1>1
  <2> HIDE DEF w
  <2> QED BY <1>7, <1>8, <2>1, StatementIs
<1> QED BY <1>5, <1>9

\* In every state of the canister, leaves that outgrew the tree included, what
\* a prover can satisfy is backed by a clean record on file: no witness of its
\* choosing gets more out of the root (circuit/src/lib.rs:4-14, 131-251).
THEOREM CircuitIsSound ==
  Spec => [](\A pub \in Statements, w \in Witnesses(currentRoot) :
               generate_constraints(PublicInputs(pub), w) => Backed(pub))
<1>1. ASSUME IInv
      PROVE  \A pub \in Statements, w \in Witnesses(currentRoot) :
               generate_constraints(PublicInputs(pub), w) => Backed(pub)
  BY <1>1, SatisfiedIsBacked
<1> QED BY <1>1, Invariance, PTL

\* In every state of the canister whose leaves fit the tree, the public inputs
\* that a prover can satisfy, however it picks its witness, are those that a
\* clean record on file backs (circuit/src/lib.rs:4-14, 131-251, against the
\* tree of main.mo:93-129 and 220-252).
THEOREM CircuitClaimsAreTrue ==
  Spec => [](nextLeafIndex <= Capacity => CircuitStatesTheClaim)
<1>1. ASSUME IInv, RecordsTyped, nextLeafIndex <= Capacity
      PROVE  CircuitStatesTheClaim
  BY <1>1, SatisfiedIsBacked, BackedIsSatisfied DEF CircuitStatesTheClaim, Backed
<1> QED BY <1>1, Invariance, TypedInvariance, PTL

\* Such are all its states when no more properties exist than the tree holds.
THEOREM FittingClaimsAreTrue ==
  ASSUME IsFiniteSet(Properties), Cardinality(Properties) <= Capacity
  PROVE  Spec => []CircuitStatesTheClaim
<1>1. Counted => nextLeafIndex <= Capacity
  BY CountedFits
<1> QED BY CircuitClaimsAreTrue, CountedInvariance, <1>1, PTL
=============================================================================
