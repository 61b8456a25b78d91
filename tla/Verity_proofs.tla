---------------------------- MODULE Verity_proofs ----------------------------
(***************************************************************************)
(* Proofs about Verity, for every block size, every set of paths and       *)
(* contents, and any number of files, blocks and readers.                  *)
(*                                                                         *)
(* The argument has four parts.  A path from a leaf ends at the root of a  *)
(* tree exactly when every hash on it is the tree's (ClimbSound,           *)
(* ClimbComplete); two trees with one root are the same tree (SameRoot);   *)
(* so a tree with the manifest's root accepts the blocks of the manifest's *)
(* blob and no others (BlockChecked, ImageChecked, EntryChecked), and two  *)
(* lists of files have one root exactly when they have one image           *)
(* (RootIsImage).  The builders keep the blob and the ranges in step       *)
(* (AddBlob).  IInv then says what a build, a layer, a reader and a check  *)
(* in progress have established so far; NextInv keeps it, one lemma for    *)
(* each action.  What a step returns follows from it (NextReply).          *)
(*                                                                         *)
(* Induction over nodes, levels and paths is by a least counterexample.    *)
(***************************************************************************)
EXTENDS Verity, SequenceTheorems, WellFoundedInduction, TLAPS

(***************************************************************************)
(* Induction over numbers, by a least counterexample.                      *)
(***************************************************************************)

\* A set of numbers that has something in it has a least one.
LEMMA LeastOf ==
  ASSUME NEW T \in SUBSET Nat, T # {}
  PROVE  \E m \in T : \A n \in T : m <= n
<1>1. PICK m \in T : \A n \in T : ~(<<n, m>> \in OpToRel(<, Nat)) BY NatLessThanWellFounded, WFMin
<1>2. \A n \in T : ~(n < m) BY <1>1 DEF OpToRel
<1>3. QED BY <1>2

\* A set that holds 0, and n + 1 with each n below top, holds all up to top.
LEMMA UpTo ==
  ASSUME NEW top \in Nat, NEW S, 0 \in S, \A n \in 0..top : n \in S /\ n < top => n + 1 \in S
  PROVE  \A n \in 0..top : n \in S
<1>1. SUFFICES ASSUME NEW x \in 0..top, x \notin S PROVE FALSE OBVIOUS
<1>2. PICK m \in 0..top : m \notin S /\ \A n \in 0..top : n \notin S => m <= n
  <2> DEFINE T == {n \in 0..top : n \notin S}
  <2>1. T \in SUBSET Nat /\ T # {} BY <1>1
  <2>2. PICK m \in T : \A n \in T : m <= n BY <2>1, LeastOf
  <2>3. QED BY <2>2
<1>3. m # 0 /\ m - 1 \in 0..top /\ m - 1 < m BY <1>2
<1>4. m - 1 \in S BY <1>2, <1>3
<1>5. QED BY <1>2, <1>3, <1>4

\* The same from top down to 0.
LEMMA DownFrom ==
  ASSUME NEW top \in Nat, NEW S, top \in S, \A n \in 0..top : n \in S /\ n > 0 => n - 1 \in S
  PROVE  \A n \in 0..top : n \in S
<1> DEFINE R == {n \in 0..top : top - n \in S}
<1>1. 0 \in R OBVIOUS
<1>2. \A n \in 0..top : n \in R /\ n < top => n + 1 \in R OBVIOUS
<1>3. \A n \in 0..top : n \in R 
  <2> HIDE DEF R
  <2> QED BY <1>1, <1>2, UpTo
<1>4. QED BY <1>3

(***************************************************************************)
(* The tree.                                                               *)
(***************************************************************************)

HashesBody(g, data, leaves, padded, lo) ==
    g = [i \in lo..2 * padded - 2 |->
            IF i < padded - 1 THEN hash_pair(g[2 * i + 1], g[2 * i + 2])
            ELSE IF i - (padded - 1) < leaves THEN hash_block(Block(data, i - (padded - 1)))
            ELSE ZERO_HASH]

\* The recursion of Hashes has a solution: leaves first, then node after node.
LEMMA HashesExist ==
  ASSUME NEW data, NEW leaves \in Nat, NEW padded \in Nat \ {0}
  PROVE  \E g : HashesBody(g, data, leaves, padded, 0)
<1> DEFINE top == 2 * padded - 1
           S == {n \in 0..top : \E g : HashesBody(g, data, leaves, padded, n)}
<1>1. top \in S
  <2> DEFINE e == [i \in top..2 * padded - 2 |-> ZERO_HASH]
  <2>1. HashesBody(e, data, leaves, padded, top) BY DEF HashesBody
  <2>2. QED BY <2>1
<1>2. ASSUME NEW n \in 0..top, n \in S, n > 0 PROVE n - 1 \in S
  <2>1. PICK g : HashesBody(g, data, leaves, padded, n) BY <1>2
  <2> DEFINE m == n - 1
             v == IF m < padded - 1 THEN hash_pair(g[2 * m + 1], g[2 * m + 2])
                  ELSE IF m - (padded - 1) < leaves THEN hash_block(Block(data, m - (padded - 1)))
                  ELSE ZERO_HASH
             h == [i \in m..2 * padded - 2 |-> IF i = m THEN v ELSE g[i]]
  <2>2. \A i \in m..2 * padded - 2 : i < padded - 1 => /\ 2 * i + 1 \in n..2 * padded - 2
                                                       /\ 2 * i + 2 \in n..2 * padded - 2
    BY <1>2
  <2>3. \A i \in n..2 * padded - 2 : h[i] = g[i] BY <1>2
  <2>4. h[m] = v BY <1>2
  <2>5. ASSUME NEW i \in m..2 * padded - 2
        PROVE  h[i] = IF i < padded - 1 THEN hash_pair(h[2 * i + 1], h[2 * i + 2])
                      ELSE IF i - (padded - 1) < leaves THEN hash_block(Block(data, i - (padded - 1)))
                      ELSE ZERO_HASH
    <3>1. CASE i = m BY <2>2, <2>3, <2>4, <3>1
    <3>2. CASE i # m
      <4>1. i \in n..2 * padded - 2 BY <3>2, <1>2
      <4>2. g[i] = IF i < padded - 1 THEN hash_pair(g[2 * i + 1], g[2 * i + 2])
                      ELSE IF i - (padded - 1) < leaves THEN hash_block(Block(data, i - (padded - 1)))
                      ELSE ZERO_HASH
        BY <2>1, <4>1 DEF HashesBody
      <4>3. QED BY <2>2, <2>3, <4>1, <4>2
    <3>3. QED BY <3>1, <3>2
  <2>6. HashesBody(h, data, leaves, padded, m)
    <3> HIDE DEF v
    <3> QED BY <2>5 DEF HashesBody
  <2>7. QED BY <1>2, <2>6
<1>3. top \in Nat OBVIOUS
<1>4. 0 \in S
  <2> HIDE DEF S, top
  <2>1. \A n \in 0..top : n \in S BY <1>1, <1>2, <1>3, DownFrom
  <2>2. QED BY <1>3, <2>1
<1>5. QED BY <1>4

LEMMA HashesDef ==
  ASSUME NEW data, NEW leaves \in Nat, NEW padded \in Nat \ {0}
  PROVE  HashesBody(Hashes(data, leaves, padded), data, leaves, padded, 0)
<1>1. Hashes(data, leaves, padded) = CHOOSE g : HashesBody(g, data, leaves, padded, 0)
  BY DEF HashesBody, Hashes
<1>2. QED BY <1>1, HashesExist

(***************************************************************************)
(* The way up from a leaf.                                                 *)
(***************************************************************************)

ClimbBody(g, tree, leaf, hash, hi) ==
    g = [n \in 0..hi |-> IF n = 0 THEN [node |-> leaf, hash |-> hash] ELSE Above(tree, g[n - 1])]

LEMMA ClimbExist ==
  ASSUME NEW tree, NEW leaf \in Nat, NEW hash
  PROVE  \E g : ClimbBody(g, tree, leaf, hash, leaf)
<1> DEFINE S == {n \in 0..leaf : \E g : ClimbBody(g, tree, leaf, hash, n)}
<1>1. 0 \in S
  <2> DEFINE e == [n \in 0..0 |-> [node |-> leaf, hash |-> hash]]
  <2>1. ClimbBody(e, tree, leaf, hash, 0) BY DEF ClimbBody
  <2>2. QED BY <2>1
<1>2. ASSUME NEW m \in 0..leaf, m \in S, m < leaf PROVE m + 1 \in S
  <2>1. PICK g : ClimbBody(g, tree, leaf, hash, m) BY <1>2
  <2> DEFINE v == Above(tree, g[m])
             h == [n \in 0..m + 1 |-> IF n = m + 1 THEN v ELSE g[n]]
  <2>2. \A n \in 0..m : h[n] = g[n] OBVIOUS
  <2>3. \A n \in 0..m : g[n] = IF n = 0 THEN [node |-> leaf, hash |-> hash] ELSE Above(tree, g[n - 1])
    BY <2>1 DEF ClimbBody
  <2>4. \A n \in 0..m : n > 0 => n - 1 \in 0..m OBVIOUS
  <2>5. ASSUME NEW n \in 0..m + 1
        PROVE  h[n] = IF n = 0 THEN [node |-> leaf, hash |-> hash] ELSE Above(tree, h[n - 1])
    <3>1. CASE n = m + 1
      <4>1. h[n] = v /\ n # 0 /\ n - 1 = m BY <3>1
      <4>2. h[n - 1] = g[m] BY <2>2, <4>1
      <4>3. QED BY <4>1, <4>2
    <3>2. CASE n # m + 1
      <4>1. n \in 0..m BY <3>2
      <4> HIDE DEF h, v
      <4>2. QED BY <2>2, <2>3, <2>4, <4>1
    <3>3. QED BY <3>1, <3>2
  <2>6. ClimbBody(h, tree, leaf, hash, m + 1)
    <3> HIDE DEF v
    <3> QED BY <2>5 DEF ClimbBody
  <2>7. QED BY <1>2, <2>6
<1>3. leaf \in S
  <2> HIDE DEF S
  <2>1. \A n \in 0..leaf : n \in S BY <1>1, <1>2, UpTo
  <2>2. QED BY <2>1
<1>4. QED BY <1>3

IsClimb(c, tree, leaf, hash) ==
    /\ c[0] = [node |-> leaf, hash |-> hash]
    /\ \A n \in 0..leaf : n > 0 => c[n] = Above(tree, c[n - 1])

LEMMA ClimbDef ==
  ASSUME NEW tree, NEW leaf \in Nat, NEW hash
  PROVE  IsClimb(Climb(tree, leaf, hash), tree, leaf, hash)
<1>1. Climb(tree, leaf, hash) = CHOOSE g : ClimbBody(g, tree, leaf, hash, leaf)
  BY DEF ClimbBody, Climb
<1>2. ClimbBody(Climb(tree, leaf, hash), tree, leaf, hash, leaf) BY <1>1, ClimbExist
<1>3. PICK g : g = Climb(tree, leaf, hash) OBVIOUS
<1>4. g = [n \in 0..leaf |-> IF n = 0 THEN [node |-> leaf, hash |-> hash] ELSE Above(tree, g[n - 1])]
  BY <1>2, <1>3 DEF ClimbBody
<1>5. g[0] = [node |-> leaf, hash |-> hash] BY <1>4
<1>6. \A n \in 0..leaf : n > 0 => g[n] = Above(tree, g[n - 1]) BY <1>4
<1>7. QED BY <1>3, <1>5, <1>6 DEF IsClimb

LEMMA Half ==
  ASSUME NEW i \in Nat, i # 0
  PROVE  \E j \in Nat : j = (i - 1) \div 2 /\ j < i /\ (i = 2 * j + 1 \/ i = 2 * j + 2)
<1>1. PICK m \in Nat : m = i - 1 OBVIOUS
<1>2. m \div 2 \in Nat /\ m \div 2 <= m /\ (m = 2 * (m \div 2) \/ m = 2 * (m \div 2) + 1) OBVIOUS
<1>3. QED BY <1>1, <1>2

\* Each level halves the number, so as many levels as the number end at the root.
LEMMA ClimbNodes ==
  ASSUME NEW tree, NEW leaf \in Nat, NEW hash, NEW c, IsClimb(c, tree, leaf, hash)
  PROVE  (\A n \in 0..leaf : c[n].node \in 0..leaf - n) /\ c[leaf].node = 0
<1> DEFINE S == {n \in 0..leaf : c[n].node \in 0..leaf - n}
<1>1. 0 \in S BY DEF IsClimb
<1>2. ASSUME NEW n \in 0..leaf, n \in S, n < leaf PROVE n + 1 \in S
  <2>1. n + 1 \in 0..leaf /\ n + 1 > 0 /\ (n + 1) - 1 = n BY <1>2
  <2>2. PICK a : a = c[n] OBVIOUS
  <2>3. PICK i \in Nat : i = a.node /\ i <= leaf - n BY <1>2, <2>2
  <2>4. Above(tree, a).node = IF i = 0 THEN 0 ELSE (i - 1) \div 2 BY <2>3 DEF Above
  <2>5. i # 0 => (i - 1) \div 2 \in Nat /\ (i - 1) \div 2 <= i - 1 BY <2>3, Half
  <2>6. Above(tree, a).node \in 0..leaf - (n + 1) BY <1>2, <2>3, <2>4, <2>5
  <2>7. c[n + 1] = Above(tree, a) BY <2>1, <2>2 DEF IsClimb
  <2>8. QED BY <2>1, <2>6, <2>7
<1>3. \A n \in 0..leaf : n \in S
  <2> HIDE DEF S
  <2> QED BY <1>1, <1>2, UpTo
<1>4. QED BY <1>3

\* The node with number i of a tree, for a hash function over the numbers from 0.
IsTreeOf(tree, g, padded) ==
    tree.padded_leaf_count = padded /\ \A i \in 0..2 * padded - 2 : NodeAt(tree, i) = g[i]

\* If the way up from a leaf ends in the root of a tree then it goes through the
\* tree's own nodes: a hash is that of one pair only, and never that of a leaf.
LEMMA ClimbSound ==
  ASSUME NEW data, NEW leaves \in Nat, NEW padded \in Nat \ {0}, NEW g,
         HashesBody(g, data, leaves, padded, 0),
         NEW tree, NEW leaf \in Nat, NEW hash, NEW c, IsClimb(c, tree, leaf, hash),
         c[leaf].hash = g[0]
  PROVE  leaf \in 0..2 * padded - 2 /\ hash = g[leaf]
<1> DEFINE S == {n \in 0..leaf : c[n].node \in 0..2 * padded - 2 /\ c[n].hash = g[c[n].node]}
<1>1. leaf \in S BY ClimbNodes
<1>2. ASSUME NEW n \in 0..leaf, n \in S, n > 0 PROVE n - 1 \in S
  <2>1. n - 1 \in 0..leaf BY <1>2
  <2>2. PICK a, b : a = c[n - 1] /\ b = c[n] OBVIOUS
  <2>3. b = Above(tree, a) BY <1>2, <2>2 DEF IsClimb
  <2>4. a.node \in 0..leaf - (n - 1) BY <2>1, <2>2, ClimbNodes
  <2>5. PICK i \in Nat : i = a.node BY <2>1, <2>4
  <2>6. b.node \in 0..2 * padded - 2 /\ b.hash = g[b.node] BY <1>2, <2>2
  <2>7. CASE i = 0
    <3>1. b = a BY <2>3, <2>5, <2>7 DEF Above
    <3>2. QED BY <2>1, <2>2, <2>6, <3>1
  <2>8. CASE i # 0
    <3>1. PICK j \in Nat : j = (i - 1) \div 2 /\ (i = 2 * j + 1 \/ i = 2 * j + 2) BY <2>8, Half
    <3>2. b.node = j BY <2>3, <2>5, <2>8, <3>1 DEF Above
    <3>3. b.hash = IF i % 2 = 1 THEN hash_pair(a.hash, NodeAt(tree, i + 1))
                               ELSE hash_pair(NodeAt(tree, i - 1), a.hash)
      BY <2>3, <2>5, <2>8 DEF Above
    <3>4. b.hash[1] = "pair" BY <3>3 DEF hash_pair
    <3>5. j < padded - 1
      <4>1. SUFFICES ASSUME ~(j < padded - 1) PROVE FALSE OBVIOUS
      <4>2. g[j] = IF j - (padded - 1) < leaves THEN hash_block(Block(data, j - (padded - 1))) ELSE ZERO_HASH
        BY <2>6, <3>2, <4>1 DEF HashesBody
      <4>3. g[j][1] # "pair" BY <4>2 DEF hash_block, ZERO_HASH
      <4>4. QED BY <2>6, <3>2, <3>4, <4>3
    <3>6. g[j] = hash_pair(g[2 * j + 1], g[2 * j + 2]) BY <2>6, <3>2, <3>5 DEF HashesBody
    <3>7. (i = 2 * j + 1 => i % 2 = 1) /\ (i = 2 * j + 2 => i % 2 # 1) BY <3>1
    <3>8. a.hash = g[i]
      <4>1. CASE i = 2 * j + 1 BY <2>6, <3>2, <3>3, <3>6, <3>7, <4>1 DEF hash_pair
      <4>2. CASE i = 2 * j + 2 BY <2>6, <3>2, <3>3, <3>6, <3>7, <4>2 DEF hash_pair
      <4>3. QED BY <3>1, <4>1, <4>2
    <3>9. i \in 0..2 * padded - 2 BY <3>1, <3>5
    <3>10. QED BY <2>1, <2>2, <2>5, <3>8, <3>9
  <2>9. QED BY <2>7, <2>8
<1>3. 0 \in S
  <2> HIDE DEF S
  <2>1. \A n \in 0..leaf : n \in S BY <1>1, <1>2, DownFrom
  <2>2. QED BY <2>1
<1>4. QED BY <1>3 DEF IsClimb

\* Up from a leaf of the tree itself, every node met is the tree's.
LEMMA ClimbComplete ==
  ASSUME NEW data, NEW leaves \in Nat, NEW padded \in Nat \ {0}, NEW g,
         HashesBody(g, data, leaves, padded, 0),
         NEW tree, IsTreeOf(tree, g, padded), NEW leaf \in 0..2 * padded - 2,
         NEW hash, hash = g[leaf], NEW c, IsClimb(c, tree, leaf, hash)
  PROVE  c[leaf].hash = g[0]
<1> DEFINE S == {n \in 0..leaf : c[n].hash = g[c[n].node]}
<1>0. leaf \in Nat OBVIOUS
<1>1. 0 \in S BY <1>0 DEF IsClimb
<1>2. ASSUME NEW n \in 0..leaf, n \in S, n < leaf PROVE n + 1 \in S
  <2>1. n + 1 \in 0..leaf /\ n + 1 > 0 /\ (n + 1) - 1 = n BY <1>2
  <2>2. PICK a, b : a = c[n] /\ b = c[n + 1] OBVIOUS
  <2>3. b = Above(tree, a) BY <2>1, <2>2 DEF IsClimb
  <2>4. a.node \in 0..leaf - n BY <1>0, <2>2, ClimbNodes
  <2>5. PICK i \in 0..2 * padded - 2 : i = a.node BY <1>2, <2>4
  <2>6. a.hash = g[i] BY <1>2, <2>2, <2>5
  <2>7. CASE i = 0
    <3>1. b = a BY <2>3, <2>5, <2>7 DEF Above
    <3>2. QED BY <2>1, <2>2, <2>5, <2>6, <3>1
  <2>8. CASE i # 0
    <3>1. PICK j \in Nat : j = (i - 1) \div 2 /\ (i = 2 * j + 1 \/ i = 2 * j + 2) BY <2>8, Half
    <3>2. j < padded - 1 /\ j \in 0..2 * padded - 2 /\ 2 * j + 1 \in 0..2 * padded - 2 /\ 2 * j + 2 \in 0..2 * padded - 2
      BY <3>1
    <3>3. b.node = j BY <2>3, <2>5, <2>8, <3>1 DEF Above
    <3>4. g[j] = hash_pair(g[2 * j + 1], g[2 * j + 2]) BY <3>2 DEF HashesBody
    <3>5. NodeAt(tree, 2 * j + 1) = g[2 * j + 1] /\ NodeAt(tree, 2 * j + 2) = g[2 * j + 2] BY <3>2 DEF IsTreeOf
    <3>6. (i = 2 * j + 1 => i % 2 = 1) /\ (i = 2 * j + 2 => i % 2 # 1) BY <3>1
    <3>7. b.hash = IF i % 2 = 1 THEN hash_pair(g[i], NodeAt(tree, i + 1)) ELSE hash_pair(NodeAt(tree, i - 1), g[i])
      BY <2>3, <2>5, <2>6, <2>8 DEF Above
    <3>8. b.hash = g[j]
      <4>1. CASE i = 2 * j + 1
        <5>1. i + 1 = 2 * j + 2 BY <3>1, <4>1
        <5>2. QED BY <3>4, <3>5, <3>6, <3>7, <4>1, <5>1
      <4>2. CASE i = 2 * j + 2
        <5>1. i - 1 = 2 * j + 1 BY <3>1, <4>2
        <5>2. QED BY <3>4, <3>5, <3>6, <3>7, <4>2, <5>1
      <4>3. QED BY <3>1, <4>1, <4>2
    <3>9. QED BY <2>1, <2>2, <3>3, <3>8
  <2>9. QED BY <2>7, <2>8
<1>3. leaf \in S
  <2> HIDE DEF S
  <2>1. \A n \in 0..leaf : n \in S BY <1>0, <1>1, <1>2, UpTo
  <2>2. QED BY <2>1
<1>4. c[leaf].node = 0 BY <1>0, ClimbNodes
<1>5. QED BY <1>3, <1>4

\* Two trees with the same root are the same, node by node, and equally large.
LEMMA SameRoot ==
  ASSUME NEW d1, NEW l1 \in Nat, NEW p1 \in Nat \ {0}, NEW g1, HashesBody(g1, d1, l1, p1, 0),
         NEW d2, NEW l2 \in Nat, NEW p2 \in Nat \ {0}, NEW g2, HashesBody(g2, d2, l2, p2, 0),
         g1[0] = g2[0]
  PROVE  p1 = p2 /\ \A i \in 0..2 * p1 - 2 : g1[i] = g2[i]
<1> DEFINE Same(i) == (i <= 2 * p1 - 2 <=> i <= 2 * p2 - 2) /\ (i <= 2 * p1 - 2 => g1[i] = g2[i])
<1>1. ASSUME NEW x \in Nat, ~Same(x) PROVE FALSE
  <2> DEFINE T == {n \in Nat : ~Same(n)}
  <2>1. T # {} BY <1>1
  <2>2. PICK i \in T : \A n \in T : i <= n
    <3> HIDE DEF T
    <3>1. T \in SUBSET Nat BY DEF T
    <3>2. QED BY <2>1, <3>1, LeastOf
  <2>3. i \in Nat /\ ~Same(i) /\ \A n \in Nat : n < i => Same(n) BY <2>2
  <2> HIDE DEF T
  <2>4. i # 0 BY <2>3
  <2>5. PICK j \in Nat : j < i /\ (i = 2 * j + 1 \/ i = 2 * j + 2)
    BY <2>3, <2>4, Half
  <2>6. Same(j) BY <2>3, <2>5
  <2>7. (i <= 2 * p1 - 2 <=> j < p1 - 1) /\ (i <= 2 * p2 - 2 <=> j < p2 - 1) BY <2>3, <2>5
  <2>8. CASE j <= 2 * p1 - 2
    <3>1. j \in 0..2 * p1 - 2 /\ j \in 0..2 * p2 - 2 /\ g1[j] = g2[j] BY <2>6, <2>8
    <3>2. g1[j] = IF j < p1 - 1 THEN hash_pair(g1[2 * j + 1], g1[2 * j + 2])
                  ELSE IF j - (p1 - 1) < l1 THEN hash_block(Block(d1, j - (p1 - 1))) ELSE ZERO_HASH
      BY <3>1 DEF HashesBody
    <3>3. g2[j] = IF j < p2 - 1 THEN hash_pair(g2[2 * j + 1], g2[2 * j + 2])
                  ELSE IF j - (p2 - 1) < l2 THEN hash_block(Block(d2, j - (p2 - 1))) ELSE ZERO_HASH
      BY <3>1 DEF HashesBody
    <3>4. (g1[j][1] = "pair" <=> j < p1 - 1) /\ (g2[j][1] = "pair" <=> j < p2 - 1)
      BY <3>2, <3>3 DEF hash_pair, hash_block, ZERO_HASH
    <3>5. j < p1 - 1 <=> j < p2 - 1 BY <3>1, <3>4
    <3>6. ASSUME j < p1 - 1 PROVE g1[2 * j + 1] = g2[2 * j + 1] /\ g1[2 * j + 2] = g2[2 * j + 2]
      <4>1. PICK x1, y1, x2, y2 : x1 = g1[2 * j + 1] /\ y1 = g1[2 * j + 2] /\ x2 = g2[2 * j + 1] /\ y2 = g2[2 * j + 2]
        OBVIOUS
      <4>2. hash_pair(x1, y1) = hash_pair(x2, y2) BY <3>1, <3>2, <3>3, <3>5, <3>6, <4>1
      <4>3. x1 = x2 /\ y1 = y2 BY <4>2 DEF hash_pair
      <4>4. QED BY <4>1, <4>3
    <3>7. QED BY <2>3, <2>5, <2>7, <3>5, <3>6
  <2>9. CASE ~(j <= 2 * p1 - 2)
    <3>1. ~(j <= 2 * p2 - 2) BY <2>6, <2>9
    <3>2. ~(i <= 2 * p1 - 2) /\ ~(i <= 2 * p2 - 2) BY <2>3, <2>5, <2>9, <3>1
    <3>3. QED BY <2>3, <3>2
  <2>10. QED BY <2>8, <2>9
<1>2. \A i \in Nat : Same(i) BY <1>1
<1>3. p1 = p2
  <2>1. 2 * p1 - 2 \in Nat /\ 2 * p2 - 2 \in Nat OBVIOUS
  <2>2. 2 * p1 - 2 <= 2 * p2 - 2 BY <1>2, <2>1
  <2>3. 2 * p2 - 2 <= 2 * p1 - 2 BY <1>2, <2>1
  <2>4. QED BY <2>2, <2>3
<1>4. QED BY <1>2, <1>3

(***************************************************************************)
(* build.                                                                  *)
(***************************************************************************)

LEMMA MinOf ==
  ASSUME NEW a \in Int, NEW b \in Int
  PROVE  Min({a, b}) = IF a <= b THEN a ELSE b
<1>1. PICK x \in {a, b} : x = IF a <= b THEN a ELSE b OBVIOUS
<1>2. \A y \in {a, b} : x <= y BY <1>1
<1>3. Min({a, b}) \in {a, b} /\ \A y \in {a, b} : Min({a, b}) <= y BY <1>2 DEF Min
<1>4. QED BY <1>1, <1>2, <1>3

LEMMA MaxOf ==
  ASSUME NEW a \in Int, NEW b \in Int
  PROVE  Max({a, b}) = IF a >= b THEN a ELSE b
<1>1. PICK x \in {a, b} : x = IF a >= b THEN a ELSE b OBVIOUS
<1>2. \A y \in {a, b} : x >= y BY <1>1
<1>3. Max({a, b}) \in {a, b} /\ \A y \in {a, b} : Max({a, b}) >= y BY <1>2 DEF Max
<1>4. QED BY <1>1, <1>2, <1>3

PowBody(g, hi) == g = [k \in 0..hi |-> IF k = 0 THEN 1 ELSE 2 * g[k - 1]]

LEMMA PowExist ==
  ASSUME NEW top \in Nat
  PROVE  \E g : PowBody(g, top)
<1> DEFINE S == {n \in 0..top : \E g : PowBody(g, n)}
<1>1. 0 \in S
  <2> DEFINE e == [n \in 0..0 |-> 1]
  <2>1. PowBody(e, 0) BY DEF PowBody
  <2>2. QED BY <2>1
<1>2. ASSUME NEW m \in 0..top, m \in S, m < top PROVE m + 1 \in S
  <2>1. PICK g : PowBody(g, m) BY <1>2
  <2> DEFINE v == 2 * g[m]
             h == [n \in 0..m + 1 |-> IF n = m + 1 THEN v ELSE g[n]]
  <2>2. \A n \in 0..m : h[n] = g[n] OBVIOUS
  <2>3. \A n \in 0..m : g[n] = IF n = 0 THEN 1 ELSE 2 * g[n - 1] BY <2>1 DEF PowBody
  <2>4. \A n \in 0..m : n > 0 => n - 1 \in 0..m OBVIOUS
  <2>5. ASSUME NEW n \in 0..m + 1 PROVE h[n] = IF n = 0 THEN 1 ELSE 2 * h[n - 1]
    <3>1. CASE n = m + 1
      <4>1. h[n] = v /\ n # 0 /\ n - 1 = m BY <3>1
      <4>2. h[n - 1] = g[m] BY <2>2, <4>1
      <4>3. QED BY <4>1, <4>2
    <3>2. CASE n # m + 1
      <4>1. n \in 0..m BY <3>2
      <4> HIDE DEF h, v
      <4>2. QED BY <2>2, <2>3, <2>4, <4>1
    <3>3. QED BY <3>1, <3>2
  <2>6. PowBody(h, m + 1)
    <3> HIDE DEF v
    <3> QED BY <2>5 DEF PowBody
  <2>7. QED BY <1>2, <2>6
<1>3. top \in S
  <2> HIDE DEF S
  <2>1. \A n \in 0..top : n \in S BY <1>1, <1>2, UpTo
  <2>2. QED BY <2>1
<1>4. QED BY <1>3

\* There is a power of two that is large enough.
LEMMA PowerOfTwo ==
  ASSUME NEW n \in Nat
  PROVE  next_power_of_two(n) \in Nat /\ next_power_of_two(n) >= n
<1>1. PICK g : PowBody(g, n) /\ PowersOfTwo(n) = Range(g)
  <2>1. PowersOfTwo(n) = Range(CHOOSE g : PowBody(g, n)) BY DEF PowersOfTwo, PowBody
  <2>2. QED BY <2>1, PowExist
<1> DEFINE S == {k \in 0..n : g[k] \in Nat /\ g[k] > k}
<1>2. 0 \in S BY <1>1 DEF PowBody
<1>3. ASSUME NEW k \in 0..n, k \in S, k < n PROVE k + 1 \in S
  <2>1. k + 1 \in 0..n /\ k + 1 # 0 /\ (k + 1) - 1 = k BY <1>3
  <2>2. g[k + 1] = 2 * g[k] BY <1>1, <2>1 DEF PowBody
  <2>3. QED BY <1>3, <2>1, <2>2
<1>4. \A k \in 0..n : k \in S
  <2> HIDE DEF S
  <2> QED BY <1>2, <1>3, UpTo
<1>5. DOMAIN g = 0..n BY <1>1 DEF PowBody
<1>6. PowersOfTwo(n) \subseteq Nat /\ g[n] \in PowersOfTwo(n) /\ g[n] >= n BY <1>1, <1>4, <1>5 DEF Range
<1> DEFINE T == {p \in PowersOfTwo(n) : p >= n}
<1>7. T \in SUBSET Nat /\ T # {} BY <1>6
<1>8. \E m \in T : \A x \in T : m <= x BY <1>7, LeastOf
<1>9. Min(T) \in T BY <1>8 DEF Min
<1>10. QED BY <1>7, <1>9 DEF next_power_of_two

\* leaf_count of the tree over a blob.
LeafCount(data) == IF BlocksOf(Len(data)) = 0 THEN 1 ELSE BlocksOf(Len(data))

LEMMA BlocksType == \A n \in Nat : BlocksOf(n) \in Nat
  BY BlockSizeAssumption DEF BlocksOf

TreeFacts(tree, g, data, leaves, padded) ==
    /\ HashesBody(g, data, leaves, padded, 0)
    /\ IsTreeOf(tree, g, padded)
    /\ root_hash(tree) = g[0]
    /\ tree = [leaf_count |-> leaves, padded_leaf_count |-> padded, nodes |-> tree.nodes]
    /\ tree.nodes = [i \in 1..2 * padded - 1 |-> g[i - 1]]
    /\ leaves = LeafCount(data) /\ leaves \in Nat \ {0} /\ padded \in Nat /\ padded >= leaves
    /\ padded = next_power_of_two(leaves)

LEMMA BuildFacts ==
  ASSUME NEW data \in Seq(Nat)
  PROVE  \E g, leaves, padded : TreeFacts(build(data), g, data, leaves, padded)
<1>1. BlocksOf(Len(data)) \in Nat BY BlocksType, LenProperties
<1>2. PICK leaves \in Nat \ {0} : leaves = Max({1, BlocksOf(Len(data))}) /\ leaves = LeafCount(data)
  BY <1>1, MaxOf DEF LeafCount
<1>3. PICK padded \in Nat : padded = next_power_of_two(leaves) /\ padded >= leaves BY PowerOfTwo
<1>4. PICK g : g = Hashes(data, leaves, padded) OBVIOUS
<1>5. HashesBody(g, data, leaves, padded, 0) BY <1>3, <1>4, HashesDef
<1>6. build(data) = [leaf_count |-> leaves, padded_leaf_count |-> padded,
                     nodes |-> [i \in 1..2 * padded - 1 |-> g[i - 1]]]
  BY <1>2, <1>3, <1>4 DEF build
<1>7. \A i \in 0..2 * padded - 2 : NodeAt(build(data), i) = g[i]
  <2>1. SUFFICES ASSUME NEW i \in 0..2 * padded - 2 PROVE build(data).nodes[i + 1] = g[i] BY DEF NodeAt
  <2>2. i + 1 \in 1..2 * padded - 1 /\ (i + 1) - 1 = i BY <1>3
  <2>3. QED BY <1>6, <2>2
<1>8. root_hash(build(data)) = g[0] BY <1>3, <1>7 DEF root_hash
<1>9. TreeFacts(build(data), g, data, leaves, padded)
  <2>1. PICK t : t = build(data) OBVIOUS
  <2>2. /\ t.padded_leaf_count = padded /\ t.nodes = [i \in 1..2 * padded - 1 |-> g[i - 1]]
        /\ t = [leaf_count |-> leaves, padded_leaf_count |-> padded, nodes |-> t.nodes]
    BY <1>6, <2>1
  <2>3. IsTreeOf(t, g, padded) /\ root_hash(t) = g[0] BY <1>7, <1>8, <2>1, <2>2 DEF IsTreeOf
  <2>4. TreeFacts(t, g, data, leaves, padded) BY <1>2, <1>3, <1>5, <2>2, <2>3 DEF TreeFacts
  <2>5. QED BY <2>1, <2>4
<1>10. QED BY <1>9

\* verify_block accepts at an index the block that the blob has there, padded, and
\* nothing else; also when the tree is that of another blob with the same root.
LEMMA BlockChecked ==
  ASSUME NEW d1 \in Seq(Nat), NEW d2 \in Seq(Nat), NEW root, root_hash(build(d1)) = root, root_hash(build(d2)) = root,
         NEW b \in Nat, NEW blk
  PROVE  verify_block(build(d1), b, blk, root) <=> b < LeafCount(d2) /\ Padded(blk) = Padded(Block(d2, b))
<1>1. PICK g1, l1, p1 : TreeFacts(build(d1), g1, d1, l1, p1) BY BuildFacts
<1>2. PICK g2, l2, p2 : TreeFacts(build(d2), g2, d2, l2, p2) BY BuildFacts
<1>3. PICK tree : tree = build(d1) OBVIOUS
<1>4. /\ HashesBody(g1, d1, l1, p1, 0) /\ l1 \in Nat /\ p1 \in Nat \ {0} /\ g1[0] = root
      /\ HashesBody(g2, d2, l2, p2, 0) /\ l2 \in Nat /\ p2 \in Nat \ {0} /\ g2[0] = root
      /\ IsTreeOf(tree, g1, p1) /\ tree.padded_leaf_count = p1 /\ l2 = LeafCount(d2) /\ p2 >= l2
  BY <1>1, <1>2, <1>3 DEF TreeFacts, IsTreeOf
<1>5. p1 = p2 /\ \A i \in 0..2 * p1 - 2 : g1[i] = g2[i]
  <2>1. HashesBody(g1, d1, l1, p1, 0) /\ l1 \in Nat /\ p1 \in Nat \ {0} BY <1>4
  <2>2. HashesBody(g2, d2, l2, p2, 0) /\ l2 \in Nat /\ p2 \in Nat \ {0} BY <1>4
  <2>3. g1[0] = g2[0] BY <1>4
  <2>4. QED BY <2>1, <2>2, <2>3, SameRoot
<1>6. PICK leaf \in Nat : leaf = p2 - 1 + b BY <1>4
<1>7. PICK hash, c : hash = hash_block(blk) /\ c = Climb(tree, leaf, hash) OBVIOUS
<1>8. IsClimb(c, tree, leaf, hash) BY <1>7, ClimbDef
<1>9. verify_block(tree, b, blk, root) <=> b < p2 /\ c[leaf].hash = root
  BY <1>4, <1>5, <1>6, <1>7 DEF verify_block
<1>10. ASSUME b < p2
       PROVE  /\ leaf \in 0..2 * p2 - 2
              /\ g2[leaf] = IF b < l2 THEN hash_block(Block(d2, b)) ELSE ZERO_HASH
  <2>1. leaf \in 0..2 * p2 - 2 /\ ~(leaf < p2 - 1) /\ leaf - (p2 - 1) = b BY <1>4, <1>6, <1>10
  <2>2. QED BY <1>4, <2>1 DEF HashesBody
<1>11. ASSUME b < p2, c[leaf].hash = root PROVE b < l2 /\ Padded(blk) = Padded(Block(d2, b))
  <2>1. hash = g2[leaf] BY <1>4, <1>8, <1>11, ClimbSound
  <2>2. hash_block(blk) = IF b < l2 THEN hash_block(Block(d2, b)) ELSE ZERO_HASH BY <1>7, <1>10, <1>11, <2>1
  <2>3. hash_block(blk)[1] = "block" /\ ZERO_HASH[1] # "block" BY DEF hash_block, ZERO_HASH
  <2>4. b < l2 BY <2>2, <2>3
  <2>5. hash_block(blk)[2] = hash_block(Block(d2, b))[2] BY <2>2, <2>4
  <2>6. QED BY <2>4, <2>5 DEF hash_block
<1>12. ASSUME b < l2, Padded(blk) = Padded(Block(d2, b)) PROVE b < p2 /\ c[leaf].hash = root
  <2>1. b < p2 BY <1>4, <1>12
  <2>2. hash_block(blk) = hash_block(Block(d2, b)) BY <1>12 DEF hash_block
  <2>3. hash = g1[leaf] /\ leaf \in 0..2 * p1 - 2 BY <1>5, <1>7, <1>10, <1>12, <2>1, <2>2
  <2>4. HashesBody(g1, d1, l1, p1, 0) /\ l1 \in Nat /\ p1 \in Nat \ {0} /\ IsTreeOf(tree, g1, p1) BY <1>4
  <2>5. c[leaf].hash = g1[0] BY <1>8, <2>3, <2>4, ClimbComplete
  <2>6. QED BY <1>4, <2>1, <2>5
<1>13. QED BY <1>3, <1>4, <1>9, <1>11, <1>12

(***************************************************************************)
(* Bytes and blocks.                                                       *)
(***************************************************************************)

LEMMA ZerosType == \A n \in Nat : [i \in 1..n |-> 0] \in Seq(Nat) /\ Len([i \in 1..n |-> 0]) = n
  OBVIOUS

\* s is the n bytes of d after the first `from`.
IsSlice(s, d, from, n) ==
    /\ s \in Seq(Nat) /\ Len(s) = n
    /\ \A i \in 1..n : s[i] = d[from + i]

LEMMA SliceUnique ==
  ASSUME NEW s, NEW t, NEW d, NEW from, NEW n, IsSlice(s, d, from, n), IsSlice(t, d, from, n)
  PROVE  s = t
<1>1. s \in Seq(Nat) /\ t \in Seq(Nat) /\ Len(s) = Len(t) /\ Len(s) = n BY DEF IsSlice
<1>2. \A i \in 1..Len(s) : s[i] = t[i] BY <1>1 DEF IsSlice
<1>3. QED BY <1>1, <1>2, SeqEqual

\* A slice between two places of a sequence.
LEMMA SliceIn ==
  ASSUME NEW d \in Seq(Nat), NEW from \in Nat, NEW to \in Nat, from <= to, to <= Len(d)
  PROVE  IsSlice(Slice(d, from, to), d, from, to - from)
<1>1. Len(d) \in Nat /\ Len(d) \in Int /\ to \in Int BY LenProperties
<1>2. Min({to, Len(d)}) = to BY <1>1, MinOf
<1>3. Slice(d, from, to) = SubSeq(d, from + 1, to) BY <1>2 DEF Slice
<1>4. QED BY <1>1, <1>3 DEF IsSlice

\* A slice that reaches the end, or begins beyond it.
LEMMA SliceEnd ==
  ASSUME NEW d \in Seq(Nat), NEW from \in Nat, NEW to \in Nat, to >= Len(d)
  PROVE  Slice(d, from, to) = Slice(d, from, Len(d)) /\ (from >= Len(d) => Slice(d, from, to) = << >>)
<1>1. Len(d) \in Nat /\ Len(d) \in Int /\ to \in Int BY LenProperties
<1>2. Min({to, Len(d)}) = Len(d) /\ Min({Len(d), Len(d)}) = Len(d) BY <1>1, MinOf
<1>3. Slice(d, from, to) = SubSeq(d, from + 1, Len(d)) /\ Slice(d, from, Len(d)) = SubSeq(d, from + 1, Len(d))
  BY <1>2 DEF Slice
<1>4. from >= Len(d) => SubSeq(d, from + 1, Len(d)) = << >> BY <1>1
<1>5. QED BY <1>3, <1>4

\* The bytes that block k of n has.
InBlock(n, k) == IF (k + 1) * BlockSize <= n THEN BlockSize ELSE IF k * BlockSize <= n THEN n - k * BlockSize ELSE 0

LEMMA InBlockType ==
  ASSUME NEW n \in Nat, NEW k \in Nat
  PROVE  InBlock(n, k) \in 0..BlockSize
<1>1. PICK a \in Nat : a = k * BlockSize /\ (k + 1) * BlockSize = a + BlockSize BY BlockSizeAssumption
<1>2. QED BY <1>1, BlockSizeAssumption DEF InBlock

LEMMA BlockIs ==
  ASSUME NEW d \in Seq(Nat), NEW k \in Nat
  PROVE  IsSlice(Block(d, k), d, k * BlockSize, InBlock(Len(d), k))
<1>1. PICK len \in Nat : len = Len(d) BY LenProperties
<1>2. PICK a \in Nat : a = k * BlockSize /\ (k + 1) * BlockSize = a + BlockSize BY BlockSizeAssumption
<1>3. PICK e \in Nat : e = a + BlockSize /\ e - a = BlockSize /\ a <= e BY <1>2, BlockSizeAssumption
<1>4. Block(d, k) = Slice(d, a, e) BY <1>2, <1>3 DEF Block
<1>5. CASE e <= len
  <2>1. IsSlice(Slice(d, a, e), d, a, e - a) BY <1>1, <1>3, <1>5, SliceIn
  <2>2. InBlock(Len(d), k) = e - a BY <1>1, <1>2, <1>3, <1>5 DEF InBlock
  <2>3. QED BY <1>2, <1>4, <2>1, <2>2
<1>6. CASE ~(e <= len) /\ a <= len
  <2>1. Slice(d, a, e) = Slice(d, a, len) BY <1>1, <1>3, <1>6, SliceEnd
  <2>2. IsSlice(Slice(d, a, len), d, a, len - a) BY <1>1, <1>6, SliceIn
  <2>3. InBlock(Len(d), k) = len - a BY <1>1, <1>2, <1>3, <1>6 DEF InBlock
  <2>4. QED BY <1>2, <1>4, <2>1, <2>2, <2>3
<1>7. CASE ~(e <= len) /\ ~(a <= len)
  <2>1. Slice(d, a, e) = << >> BY <1>1, <1>3, <1>7, SliceEnd
  <2>2. InBlock(Len(d), k) = 0 BY <1>1, <1>2, <1>3, <1>7 DEF InBlock
  <2>3. QED BY <1>4, <2>1, <2>2 DEF IsSlice
<1>8. QED BY <1>5, <1>6, <1>7

LEMMA BlockType ==
  ASSUME NEW d \in Seq(Nat), NEW k \in Nat
  PROVE  Block(d, k) \in Seq(Nat) /\ Len(Block(d, k)) = InBlock(Len(d), k) /\ Len(Block(d, k)) \in 0..BlockSize
<1>1. Len(d) \in Nat BY LenProperties
<1>2. IsSlice(Block(d, k), d, k * BlockSize, InBlock(Len(d), k)) BY BlockIs
<1>3. InBlock(Len(d), k) \in 0..BlockSize BY <1>1, InBlockType
<1>4. QED BY <1>2, <1>3 DEF IsSlice

\* A short block, filled up.
IsPadded(p, b) ==
    /\ p \in Seq(Nat) /\ Len(p) = BlockSize
    /\ \A i \in 1..BlockSize : p[i] = IF i <= Len(b) THEN b[i] ELSE 0

LEMMA PaddedIs ==
  ASSUME NEW b \in Seq(Nat), Len(b) <= BlockSize
  PROVE  IsPadded(Padded(b), b)
<1>1. Len(b) \in Nat BY LenProperties
<1>2. PICK n \in Nat : n = BlockSize - Len(b) BY <1>1, BlockSizeAssumption
<1>3. PICK z \in Seq(Nat) : z = [i \in 1..n |-> 0] /\ Len(z) = n BY ZerosType
<1>4. Padded(b) = b \o z BY <1>2, <1>3 DEF Padded
<1>5. QED BY <1>1, <1>2, <1>3, <1>4, BlockSizeAssumption DEF IsPadded

LEMMA PaddedUnique ==
  ASSUME NEW b, NEW p, NEW q, IsPadded(p, b), IsPadded(q, b)
  PROVE  p = q
<1>1. p \in Seq(Nat) /\ q \in Seq(Nat) /\ Len(p) = Len(q) /\ Len(p) = BlockSize BY DEF IsPadded
<1>2. \A i \in 1..Len(p) : p[i] = q[i] BY <1>1 DEF IsPadded
<1>3. QED BY <1>1, <1>2, SeqEqual

LEMMA PaddedSame ==
  ASSUME NEW a \in Seq(Nat), NEW b \in Seq(Nat), Len(a) = Len(b), Len(a) <= BlockSize, Padded(a) = Padded(b)
  PROVE  a = b
<1>1. Len(a) \in Nat BY LenProperties
<1>2. IsPadded(Padded(a), a) /\ IsPadded(Padded(a), b) BY PaddedIs
<1>3. PICK p : p = Padded(a) OBVIOUS
<1>4. \A i \in 1..Len(a) : a[i] = b[i]
  <2>1. SUFFICES ASSUME NEW i \in 1..Len(a) PROVE a[i] = b[i] OBVIOUS
  <2>2. i \in 1..BlockSize /\ i <= Len(a) /\ i <= Len(b) BY <1>1, BlockSizeAssumption
  <2>3. p[i] = a[i] /\ p[i] = b[i] BY <1>2, <1>3, <2>2 DEF IsPadded
  <2>4. QED BY <2>3
<1>5. QED BY <1>1, <1>4, SeqEqual

LEMMA PaddedFull ==
  ASSUME NEW a \in Seq(Nat), Len(a) = BlockSize
  PROVE  Padded(a) = a
<1>1. IsPadded(Padded(a), a) BY PaddedIs, BlockSizeAssumption
<1>2. IsPadded(a, a) BY BlockSizeAssumption DEF IsPadded
<1>3. QED BY <1>1, <1>2, PaddedUnique

LEMMA Times ==
  ASSUME NEW k \in Nat
  PROVE  k * BlockSize \in Nat /\ (k + 1) * BlockSize = k * BlockSize + BlockSize
  BY BlockSizeAssumption

LEMMA TimesOrder ==
  ASSUME NEW k \in Nat, NEW m \in Nat, k <= m
  PROVE  k * BlockSize <= m * BlockSize
  BY BlockSizeAssumption

\* div_ceil.
LEMMA BlocksOfIs ==
  ASSUME NEW n \in Nat
  PROVE  /\ BlocksOf(n) * BlockSize >= n /\ BlocksOf(n) * BlockSize < n + BlockSize
         /\ \A k \in Nat : k < BlocksOf(n) <=> k * BlockSize < n
  BY BlockSizeAssumption DEF BlocksOf

LEMMA BlocksOfWhole ==
  ASSUME NEW k \in Nat
  PROVE  BlocksOf(k * BlockSize) = k
  BY BlockSizeAssumption DEF BlocksOf

\* The bytes of a file as the builders put them into the blob.
IsAligned(a, d) ==
    /\ a \in Seq(Nat) /\ Len(a) = BlocksOf(Len(d)) * BlockSize
    /\ \A i \in 1..Len(a) : a[i] = IF i <= Len(d) THEN d[i] ELSE 0

LEMMA AlignedIs ==
  ASSUME NEW d \in Seq(Nat)
  PROVE  IsAligned(Aligned(d), d)
<1>1. PICK len \in Nat : len = Len(d) BY LenProperties
<1>2. PICK n \in Nat : n = BlocksOf(len) * BlockSize - len
  <2>1. PICK w \in Nat : w = BlocksOf(len) * BlockSize BY BlocksType, Times
  <2>2. w >= len BY <2>1, BlocksOfIs
  <2>3. QED BY <2>1, <2>2
<1>3. PICK z \in Seq(Nat) : z = [i \in 1..n |-> 0] /\ Len(z) = n BY ZerosType
<1>4. BlocksOf(len) * BlockSize = len + n
  <2>1. BlocksOf(len) * BlockSize \in Nat BY BlocksType, Times
  <2>2. QED BY <1>2, <2>1
<1>5. Aligned(d) = d \o z BY <1>1, <1>2, <1>3 DEF Aligned
<1>6. QED BY <1>1, <1>2, <1>3, <1>4, <1>5 DEF IsAligned

\* A block of an aligned file is the file's, filled up.
LEMMA AlignedBlock ==
  ASSUME NEW d \in Seq(Nat), NEW k \in Nat, k < BlocksOf(Len(d))
  PROVE  Block(Aligned(d), k) = Padded(Block(d, k))
<1>1. PICK len \in Nat : len = Len(d) BY LenProperties
<1>2. PICK a \in Nat : a = k * BlockSize /\ (k + 1) * BlockSize = a + BlockSize BY BlockSizeAssumption
<1>3. PICK x \in Seq(Nat) : x = Aligned(d) /\ IsAligned(x, d) BY AlignedIs DEF IsAligned
<1>4. a + BlockSize <= Len(x)
  <2>1. PICK m \in Nat : m = BlocksOf(len) /\ k + 1 <= m BY <1>1, BlocksType
  <2>2. (k + 1) * BlockSize <= m * BlockSize BY <2>1, TimesOrder
  <2>3. QED BY <1>1, <1>2, <1>3, <2>1, <2>2 DEF IsAligned
<1>5. InBlock(Len(x), k) = BlockSize BY <1>2, <1>4 DEF InBlock
<1>6. IsSlice(Block(x, k), x, a, BlockSize) BY <1>2, <1>5, BlockIs
<1>7. PICK b \in Seq(Nat) : b = Block(d, k) BY BlockType
<1>8. IsSlice(b, d, a, InBlock(len, k)) /\ InBlock(len, k) \in 0..BlockSize BY <1>1, <1>2, <1>7, BlockIs, InBlockType
<1>9. a < len BY <1>1, <1>2, BlocksOfIs
<1>10. ASSUME NEW i \in 1..BlockSize
       PROVE  /\ i <= InBlock(len, k) <=> a + i <= len
              /\ a + i \in 1..Len(x)
  <2>1. InBlock(len, k) = IF a + BlockSize <= len THEN BlockSize ELSE len - a BY <1>1, <1>2, <1>9 DEF InBlock
  <2>2. Len(x) \in Nat BY LenProperties
  <2>3. QED BY <1>4, <1>9, <2>1, <2>2, BlockSizeAssumption
<1>11. PICK y \in Seq(Nat) : y = Block(x, k) /\ IsSlice(y, x, a, BlockSize) BY <1>6 DEF IsSlice
<1>12. \A i \in 1..BlockSize : y[i] = IF i <= Len(b) THEN b[i] ELSE 0
  <2>1. SUFFICES ASSUME NEW i \in 1..BlockSize PROVE y[i] = IF i <= Len(b) THEN b[i] ELSE 0 OBVIOUS
  <2>2. y[i] = x[a + i] BY <1>11 DEF IsSlice
  <2>3. x[a + i] = IF a + i <= len THEN d[a + i] ELSE 0 BY <1>1, <1>3, <1>10 DEF IsAligned
  <2>4. Len(b) = InBlock(len, k) /\ (i <= InBlock(len, k) => b[i] = d[a + i]) BY <1>8 DEF IsSlice
  <2>5. QED BY <1>10, <2>2, <2>3, <2>4
<1>13. IsPadded(y, b) BY <1>11, <1>12 DEF IsPadded, IsSlice
<1>14. IsPadded(Padded(b), b) BY <1>7, BlockType, PaddedIs
<1>15. QED BY <1>3, <1>7, <1>11, <1>13, <1>14, PaddedUnique

IsConcat(y, d, x) ==
    /\ y \in Seq(Nat) /\ Len(y) = Len(d) + Len(x)
    /\ \A i \in 1..Len(d) : y[i] = d[i]
    /\ \A i \in 1..Len(x) : y[Len(d) + i] = x[i]

LEMMA ConcatBytes ==
  ASSUME NEW d \in Seq(Nat), NEW x \in Seq(Nat)
  PROVE  IsConcat(d \o x, d, x)
<1>1. Len(d) \in Nat /\ Len(x) \in Nat BY LenProperties
<1>2. d \o x \in Seq(Nat) /\ Len(d \o x) = Len(d) + Len(x) BY ConcatProperties
<1>3. ASSUME NEW i \in 1..Len(d) PROVE (d \o x)[i] = d[i] BY <1>1, ConcatProperties
<1>4. ASSUME NEW i \in 1..Len(x) PROVE (d \o x)[Len(d) + i] = x[i] BY <1>1, ConcatProperties
<1>5. QED BY <1>2, <1>3, <1>4 DEF IsConcat

\* What is put behind whole blocks leaves them as they are ...
LEMMA BlockKept ==
  ASSUME NEW d \in Seq(Nat), NEW x \in Seq(Nat), NEW k \in Nat, (k + 1) * BlockSize <= Len(d)
  PROVE  Block(d \o x, k) = Block(d, k)
<1>1. PICK a \in Nat : a = k * BlockSize /\ (k + 1) * BlockSize = a + BlockSize BY BlockSizeAssumption
<1>2. PICK y \in Seq(Nat) : /\ y = d \o x /\ Len(y) = Len(d) + Len(x)
                            /\ \A i \in 1..Len(d) : y[i] = d[i]
  BY ConcatBytes DEF IsConcat
<1>3. Len(d) \in Nat /\ Len(x) \in Nat BY LenProperties
<1>4. InBlock(Len(d), k) = BlockSize /\ InBlock(Len(y), k) = BlockSize BY <1>1, <1>2, <1>3, BlockSizeAssumption DEF InBlock
<1>5. IsSlice(Block(d, k), d, a, BlockSize) /\ IsSlice(Block(y, k), y, a, BlockSize) BY <1>1, <1>4, BlockIs
<1>6. \A i \in 1..BlockSize : a + i \in 1..Len(d)
  <2>1. a + BlockSize <= Len(d) BY <1>1
  <2>2. QED BY <1>3, <2>1, BlockSizeAssumption
<1>7. IsSlice(Block(y, k), d, a, BlockSize) BY <1>2, <1>5, <1>6 DEF IsSlice
<1>8. QED BY <1>2, <1>5, <1>7, SliceUnique

\* ... and comes after them.
LEMMA BlockAdded ==
  ASSUME NEW d \in Seq(Nat), NEW x \in Seq(Nat), NEW m \in Nat, Len(d) = m * BlockSize, NEW k \in Nat
  PROVE  Block(d \o x, m + k) = Block(x, k)
<1>1. PICK a \in Nat : a = k * BlockSize /\ (k + 1) * BlockSize = a + BlockSize BY BlockSizeAssumption
<1>2. PICK len \in Nat : len = Len(d) BY LenProperties
<1>3. (m + k) * BlockSize = len + a /\ (m + k + 1) * BlockSize = len + a + BlockSize /\ m + k \in Nat
  BY <1>1, <1>2, BlockSizeAssumption
<1>4. PICK y \in Seq(Nat) : /\ y = d \o x /\ Len(y) = len + Len(x)
                            /\ \A i \in 1..Len(x) : y[len + i] = x[i]
  <2>1. IsConcat(d \o x, d, x) /\ d \o x \in Seq(Nat) BY ConcatBytes, ConcatProperties
  <2>2. PICK y \in Seq(Nat) : y = d \o x /\ IsConcat(y, d, x) BY <2>1
  <2>3. QED BY <1>2, <2>2 DEF IsConcat
<1>5. Len(x) \in Nat BY LenProperties
<1>6. InBlock(Len(y), m + k) = InBlock(Len(x), k) BY <1>1, <1>2, <1>3, <1>4, <1>5, BlockSizeAssumption DEF InBlock
<1>7. PICK n \in 0..BlockSize : n = InBlock(Len(x), k) /\ \A i \in 1..n : a + i \in 1..Len(x)
  <2>1. InBlock(Len(x), k) \in 0..BlockSize BY <1>5, InBlockType
  <2>2. PICK n \in 0..BlockSize : n = InBlock(Len(x), k) BY <2>1
  <2>3. n = 0 \/ a + n <= Len(x)
    <3>1. n = IF a + BlockSize <= Len(x) THEN BlockSize ELSE IF a <= Len(x) THEN Len(x) - a ELSE 0
      BY <1>1, <2>2 DEF InBlock
    <3>2. QED BY <1>5, <3>1, BlockSizeAssumption
  <2>4. \A i \in 1..n : a + i \in 1..Len(x) BY <1>5, <2>3, BlockSizeAssumption
  <2>5. QED BY <2>2, <2>4
<1>8. IsSlice(Block(x, k), x, a, n) /\ IsSlice(Block(y, m + k), y, len + a, n) BY <1>1, <1>3, <1>6, <1>7, BlockIs
<1>9. \A i \in 1..n : y[len + a + i] = x[a + i]
  <2>1. SUFFICES ASSUME NEW i \in 1..n PROVE y[len + a + i] = x[a + i] OBVIOUS
  <2>2. PICK j \in 1..Len(x) : j = a + i BY <1>7
  <2>3. len + a + i = len + j BY <1>1, <1>2, <1>7, <2>2, BlockSizeAssumption
  <2>4. QED BY <1>4, <2>2, <2>3
<1>10. IsSlice(Block(y, m + k), x, a, n) BY <1>8, <1>9 DEF IsSlice
<1>11. QED BY <1>4, <1>8, <1>10, SliceUnique

(***************************************************************************)
(* The blob of a list of files.                                            *)
(***************************************************************************)

FlattenBody(g, seqs, hi) == g = [i \in 1..hi |-> IF i = 1 THEN seqs[i] ELSE g[i - 1] \o seqs[i]]

LEMMA FlattenExist ==
  ASSUME NEW seqs, NEW top \in Nat
  PROVE  \E g : FlattenBody(g, seqs, top)
<1> DEFINE S == {n \in 0..top : \E g : FlattenBody(g, seqs, n)}
<1>1. 0 \in S
  <2> DEFINE e == [n \in 1..0 |-> << >>]
  <2>1. FlattenBody(e, seqs, 0) BY DEF FlattenBody
  <2>2. QED BY <2>1
<1>2. ASSUME NEW m \in 0..top, m \in S, m < top PROVE m + 1 \in S
  <2>1. PICK g : FlattenBody(g, seqs, m) BY <1>2
  <2> DEFINE v == IF m + 1 = 1 THEN seqs[m + 1] ELSE g[m] \o seqs[m + 1]
             h == [n \in 1..m + 1 |-> IF n = m + 1 THEN v ELSE g[n]]
  <2>2. \A n \in 1..m : h[n] = g[n] OBVIOUS
  <2>3. \A n \in 1..m : g[n] = IF n = 1 THEN seqs[n] ELSE g[n - 1] \o seqs[n] BY <2>1 DEF FlattenBody
  <2>4. \A n \in 1..m : n # 1 => n - 1 \in 1..m OBVIOUS
  <2>5. ASSUME NEW n \in 1..m + 1 PROVE h[n] = IF n = 1 THEN seqs[n] ELSE h[n - 1] \o seqs[n]
    <3>1. CASE n = m + 1
      <4>1. h[n] = v /\ n - 1 = m /\ (n # 1 => n - 1 \in 1..m) BY <3>1
      <4>2. n # 1 => h[n - 1] = g[m] BY <2>2, <4>1
      <4>3. QED BY <3>1, <4>1, <4>2
    <3>2. CASE n # m + 1
      <4>1. n \in 1..m BY <3>2
      <4> HIDE DEF h, v
      <4>2. QED BY <2>2, <2>3, <2>4, <4>1
    <3>3. QED BY <3>1, <3>2
  <2>6. FlattenBody(h, seqs, m + 1)
    <3> HIDE DEF v
    <3> QED BY <2>5 DEF FlattenBody
  <2>7. QED BY <1>2, <2>6
<1>3. top \in S
  <2> HIDE DEF S
  <2>1. \A n \in 0..top : n \in S BY <1>1, <1>2, UpTo
  <2>2. QED BY <2>1
<1>4. QED BY <1>3

LEMMA FlattenDef ==
  ASSUME NEW seqs, Len(seqs) \in Nat, Len(seqs) # 0
  PROVE  \E g : FlattenBody(g, seqs, Len(seqs)) /\ FlattenSeq(seqs) = g[Len(seqs)]
<1>1. FlattenSeq(seqs) = (CHOOSE g : FlattenBody(g, seqs, Len(seqs)))[Len(seqs)]
  BY DEF FlattenSeq, FlattenBody
<1>2. PICK g : g = CHOOSE x : FlattenBody(x, seqs, Len(seqs)) OBVIOUS
<1>3. FlattenBody(g, seqs, Len(seqs)) BY <1>2, FlattenExist
<1>4. QED BY <1>1, <1>2, <1>3

LEMMA FlattenAppend ==
  ASSUME NEW seqs \in Seq(Seq(Nat)), NEW x \in Seq(Nat)
  PROVE  FlattenSeq(Append(seqs, x)) = IF seqs = << >> THEN x ELSE FlattenSeq(seqs) \o x
<1>1. PICK n \in Nat : n = Len(seqs) BY LenProperties
<1>2. PICK t \in Seq(Seq(Nat)) : /\ t = Append(seqs, x) /\ Len(t) = n + 1 /\ t[n + 1] = x
                                 /\ \A i \in 1..n : t[i] = seqs[i]
  <2>1. PICK t \in Seq(Seq(Nat)) : t = Append(seqs, x) /\ Len(t) = n + 1 BY <1>1, AppendProperties
  <2>2. t[n + 1] = x /\ \A i \in 1..n : t[i] = seqs[i] BY <1>1, <2>1, AppendProperties
  <2>3. QED BY <2>1, <2>2
<1>3. PICK h : FlattenBody(h, t, n + 1) /\ FlattenSeq(t) = h[n + 1]
  <2>1. Len(t) \in Nat /\ Len(t) # 0 BY <1>2
  <2>2. \E h : FlattenBody(h, t, Len(t)) /\ FlattenSeq(t) = h[Len(t)] BY <2>1, FlattenDef
  <2>3. QED BY <1>2, <2>2
<1>4. \A i \in 1..n + 1 : h[i] = IF i = 1 THEN t[i] ELSE h[i - 1] \o t[i] BY <1>3 DEF FlattenBody
<1>5. CASE n = 0
  <2>1. seqs = << >> BY <1>1, <1>5, EmptySeq
  <2>2. QED BY <1>2, <1>3, <1>4, <1>5, <2>1
<1>6. CASE n # 0
  <2>1. PICK g : FlattenBody(g, seqs, n) /\ FlattenSeq(seqs) = g[n] BY <1>1, <1>6, FlattenDef
  <2>2. \A i \in 1..n : g[i] = IF i = 1 THEN seqs[i] ELSE g[i - 1] \o seqs[i] BY <2>1 DEF FlattenBody
  <2> DEFINE S == {i \in 0..n : i # 0 => g[i] = h[i]}
  <2>3. 0 \in S OBVIOUS
  <2>4. ASSUME NEW i \in 0..n, i \in S, i < n PROVE i + 1 \in S
    <3>1. i + 1 \in 1..n /\ i + 1 \in 1..n + 1 /\ (i + 1) - 1 = i /\ (i + 1 # 1 <=> i # 0) BY <2>4
    <3>2. t[i + 1] = seqs[i + 1] BY <1>2, <3>1
    <3>3. g[i + 1] = IF i + 1 = 1 THEN seqs[i + 1] ELSE g[i] \o seqs[i + 1] BY <2>2, <3>1
    <3>4. h[i + 1] = IF i + 1 = 1 THEN t[i + 1] ELSE h[i] \o t[i + 1] BY <1>4, <3>1
    <3>5. g[i + 1] = h[i + 1] BY <2>4, <3>1, <3>2, <3>3, <3>4
    <3>6. QED BY <3>1, <3>5
  <2>5. n \in S
    <3> HIDE DEF S
    <3>1. \A i \in 0..n : i \in S BY <2>3, <2>4, UpTo
    <3>2. QED BY <3>1
  <2>6. n + 1 \in 1..n + 1 /\ n + 1 # 1 /\ (n + 1) - 1 = n BY <1>6
  <2>7. h[n + 1] = h[n] \o t[n + 1] BY <1>4, <2>6
  <2>8. seqs # << >> BY <1>1, <1>6
  <2>9. g[n] = h[n] BY <1>6, <2>5
  <2>10. QED BY <1>2, <1>3, <2>1, <2>7, <2>8, <2>9
<1>7. QED BY <1>5, <1>6

Parts(files) == [i \in DOMAIN files |-> Aligned(files[i].content_hash)]
Flat(files) == FlattenSeq(Parts(files))

LEMMA ContentType == \A e \in FileEntry : e.content_hash \in Seq(Nat) /\ e.size \in Nat /\ e.path \in Paths
  BY VerityAssumption DEF FileEntry

LEMMA PartsType ==
  ASSUME NEW files \in Seq(FileEntry)
  PROVE  Parts(files) \in Seq(Seq(Nat)) /\ Len(Parts(files)) = Len(files)
<1>1. PICK n \in Nat : n = Len(files) /\ DOMAIN files = 1..n BY LenProperties
<1>2. \A i \in 1..n : Aligned(files[i].content_hash) \in Seq(Nat)
  <2>1. SUFFICES ASSUME NEW i \in 1..n PROVE Aligned(files[i].content_hash) \in Seq(Nat) OBVIOUS
  <2>2. files[i] \in FileEntry BY <1>1, ElementOfSeq
  <2>3. QED BY <2>2, ContentType, AlignedIs DEF IsAligned
<1>3. Parts(files) \in [1..n -> Seq(Nat)] BY <1>1, <1>2 DEF Parts
<1>4. QED BY <1>1, <1>3

LEMMA FlatAppend ==
  ASSUME NEW files \in Seq(FileEntry), NEW e \in FileEntry
  PROVE  Flat(Append(files, e)) = IF files = << >> THEN Aligned(e.content_hash)
                                  ELSE Flat(files) \o Aligned(e.content_hash)
<1>1. PICK n \in Nat : n = Len(files) /\ DOMAIN files = 1..n BY LenProperties
<1>2. PICK x \in Seq(Nat) : x = Aligned(e.content_hash) BY ContentType, AlignedIs DEF IsAligned
<1>3. PICK ps \in Seq(Seq(Nat)) : ps = Parts(files) /\ Len(ps) = n BY <1>1, PartsType
<1>4. PICK fs \in Seq(FileEntry) : fs = Append(files, e) /\ Len(fs) = n + 1 BY <1>1, AppendProperties
<1>5. fs[n + 1] = e /\ \A i \in 1..n : fs[i] = files[i] BY <1>1, <1>4, AppendProperties
<1>6. PICK qs \in Seq(Seq(Nat)) : qs = Append(ps, x) /\ Len(qs) = n + 1 BY <1>3, AppendProperties
<1>7. qs[n + 1] = x /\ \A i \in 1..n : qs[i] = ps[i] BY <1>3, <1>6, AppendProperties
<1>8. Parts(fs) \in Seq(Seq(Nat)) /\ Len(Parts(fs)) = n + 1 BY <1>4, PartsType
<1>9. ASSUME NEW i \in 1..n + 1 PROVE Parts(fs)[i] = qs[i]
  <2>1. DOMAIN fs = 1..n + 1 BY <1>4, LenProperties
  <2>2. Parts(fs)[i] = Aligned(fs[i].content_hash) BY <2>1 DEF Parts
  <2>3. CASE i = n + 1 BY <1>2, <1>5, <1>7, <2>2, <2>3
  <2>4. CASE i # n + 1
    <3>1. i \in 1..n BY <2>4
    <3>2. ps[i] = Aligned(files[i].content_hash) BY <1>1, <1>3, <3>1 DEF Parts
    <3>3. QED BY <1>5, <1>7, <2>2, <3>1, <3>2
  <2>5. QED BY <2>3, <2>4
<1>10. Parts(fs) = qs BY <1>6, <1>8, <1>9, SeqEqual
<1>11. ps = << >> <=> files = << >> BY <1>1, <1>3, EmptySeq
<1>12. FlattenSeq(qs) = IF ps = << >> THEN x ELSE FlattenSeq(ps) \o x BY <1>3, <1>6, FlattenAppend
<1>13. QED BY <1>2, <1>3, <1>4, <1>10, <1>11, <1>12 DEF Flat

\* The blocks a file has in a blob are its own, filled up.
GoodEntry(e, data) ==
    /\ e.block_range[2] = e.block_range[1] + BlocksOf(Len(e.content_hash))
    /\ e.block_range[2] * BlockSize <= Len(data)
    /\ \A k \in Nat : k < BlocksOf(Len(e.content_hash)) =>
          Block(data, e.block_range[1] + k) = Padded(Block(e.content_hash, k))

RangesEnd(files) == IF files = << >> THEN 0 ELSE files[Len(files)].block_range[2]

\* The blob that the builders make of a list of files: one after another, each from
\* a block boundary on.
GoodBlob(files, data) ==
    /\ files \in Seq(FileEntry) /\ data \in Seq(Nat)
    /\ RangesEnd(files) \in Nat /\ Len(data) = RangesEnd(files) * BlockSize
    /\ Flat(files) = data
    /\ \A i \in 1..Len(files) :
          /\ GoodEntry(files[i], data)
          /\ files[i].block_range[1] = IF i = 1 THEN 0 ELSE files[i - 1].block_range[2]

LEMMA EmptyBlob == GoodBlob(<< >>, << >>)
<1>1. Parts(<< >>) = << >> BY PartsType, EmptySeq
<1>2. Flat(<< >>) = << >> BY <1>1 DEF Flat, FlattenSeq
<1>3. 0 * BlockSize = 0 BY BlockSizeAssumption
<1>4. QED BY <1>2, <1>3 DEF GoodBlob, RangesEnd

LEMMA EntryKept ==
  ASSUME NEW e \in FileEntry, NEW data \in Seq(Nat), NEW x \in Seq(Nat), GoodEntry(e, data)
  PROVE  GoodEntry(e, data \o x)
<1>1. PICK s \in Nat : s = e.block_range[1] BY DEF FileEntry
<1>2. PICK n \in Nat : n = BlocksOf(Len(e.content_hash)) BY ContentType, LenProperties, BlocksType
<1>3. Len(data) \in Nat /\ Len(data \o x) >= Len(data) BY LenProperties, ConcatProperties
<1>4. (s + n) * BlockSize <= Len(data) /\ (s + n) * BlockSize \in Nat
  <2>1. PICK w \in Nat : w = s + n OBVIOUS
  <2>2. w * BlockSize \in Nat BY Times
  <2>3. e.block_range[2] = w BY <1>1, <1>2, <2>1 DEF GoodEntry
  <2>4. QED BY <2>1, <2>2, <2>3 DEF GoodEntry
<1>5. ASSUME NEW k \in Nat, k < n PROVE Block(data \o x, s + k) = Block(data, s + k)
  <2>1. (s + k + 1) * BlockSize <= (s + n) * BlockSize /\ (s + k + 1) * BlockSize \in Nat
    <3>1. PICK u \in Nat, w \in Nat : u = s + k + 1 /\ w = s + n /\ u <= w BY <1>5
    <3>2. u * BlockSize <= w * BlockSize /\ u * BlockSize \in Nat BY <3>1, Times, TimesOrder
    <3>3. QED BY <3>1, <3>2
  <2>2. (s + k + 1) * BlockSize <= Len(data) BY <1>3, <1>4, <2>1
  <2>3. s + k \in Nat OBVIOUS
  <2>4. QED BY <2>2, <2>3, BlockKept
<1>6. (s + n) * BlockSize <= Len(data \o x) BY <1>3, <1>4, ConcatProperties, LenProperties
<1>7. QED BY <1>1, <1>2, <1>5, <1>6 DEF GoodEntry

LEMMA AddBlob ==
  ASSUME NEW files, NEW data, GoodBlob(files, data), NEW p \in Paths, NEW kind \in {"File", "Symlink"}, NEW size \in Nat,
         NEW buf \in Contents \cup {LinkText}, NEW e,
         e = [path |-> p, kind |-> kind, size |-> size, content_hash |-> buf,
              block_range |-> <<BlocksOf(Len(data)), BlocksOf(Len(data)) + BlocksOf(Len(buf))>>]
  PROVE  GoodBlob(Append(files, e), data \o Aligned(buf))
<1>1. buf \in Seq(Nat) /\ data \in Seq(Nat) /\ files \in Seq(FileEntry) BY VerityAssumption DEF GoodBlob
<1>2. PICK n \in Nat : n = Len(files) BY <1>1, LenProperties
<1>3. PICK m \in Nat : m = RangesEnd(files) /\ Len(data) = m * BlockSize /\ BlocksOf(Len(data)) = m
  BY BlocksOfWhole DEF GoodBlob
<1>4. PICK j \in Nat : j = BlocksOf(Len(buf)) BY <1>1, LenProperties, BlocksType
<1>5. e \in FileEntry /\ e.block_range = <<m, m + j>> /\ e.content_hash = buf BY <1>3, <1>4 DEF FileEntry
<1>6. PICK x \in Seq(Nat) : x = Aligned(buf) /\ Len(x) = j * BlockSize BY <1>1, <1>4, AlignedIs DEF IsAligned
<1>7. PICK y \in Seq(Nat) : y = data \o x /\ Len(y) = (m + j) * BlockSize
  <2>1. data \o x \in Seq(Nat) /\ Len(data \o x) = Len(data) + Len(x) BY <1>1, ConcatProperties
  <2>2. (m + j) * BlockSize = m * BlockSize + j * BlockSize BY BlockSizeAssumption
  <2>3. QED BY <1>3, <1>6, <2>1, <2>2
<1>8. PICK fs \in Seq(FileEntry) : fs = Append(files, e) /\ Len(fs) = n + 1
  <2>1. Append(files, e) \in Seq(FileEntry) /\ Len(Append(files, e)) = Len(files) + 1 BY <1>1, <1>5, AppendProperties
  <2>2. QED BY <1>2, <2>1
<1>9. fs[n + 1] = e /\ \A i \in 1..n : fs[i] = files[i] BY <1>1, <1>2, <1>5, <1>8, AppendProperties
<1>10. fs # << >>
  <2>1. Len(fs) # 0 BY <1>8
  <2>2. QED BY <2>1, EmptySeq
<1>11. RangesEnd(fs) = m + j BY <1>5, <1>8, <1>9, <1>10 DEF RangesEnd
<1>12. Flat(fs) = y
  <2>1. Flat(fs) = IF files = << >> THEN x ELSE Flat(files) \o x BY <1>1, <1>5, <1>6, <1>8, FlatAppend
  <2>2. CASE files # << >> BY <1>7, <2>1, <2>2 DEF GoodBlob
  <2>3. CASE files = << >>
    <3>1. m = 0 BY <1>3, <2>3 DEF RangesEnd
    <3>2. Len(data) = 0 BY <1>3, <3>1, BlockSizeAssumption
    <3>3. data = << >> BY <1>1, <3>2, EmptySeq
    <3>4. QED BY <1>7, <2>1, <2>3, <3>3, ConcatEmptySeq
  <2>4. QED BY <2>2, <2>3
<1>13. GoodEntry(e, y)
  <2>1. ASSUME NEW k \in Nat, k < j PROVE Block(y, m + k) = Padded(Block(buf, k))
    <3>1. Block(y, m + k) = Block(x, k)
      <4>1. PICK d \in Seq(Nat) : d = data /\ Len(d) = m * BlockSize BY <1>1, <1>3
      <4>2. Block(d \o x, m + k) = Block(x, k) BY <4>1, BlockAdded
      <4>3. QED BY <1>7, <4>1, <4>2
    <3>2. QED BY <1>1, <1>4, <1>6, <2>1, <3>1, AlignedBlock
  <2>2. (m + j) * BlockSize \in Nat BY <1>7, LenProperties
  <2>3. QED BY <1>4, <1>5, <1>7, <2>1, <2>2 DEF GoodEntry
<1>14. ASSUME NEW i \in 1..n + 1
       PROVE  GoodEntry(fs[i], y) /\ fs[i].block_range[1] = IF i = 1 THEN 0 ELSE fs[i - 1].block_range[2]
  <2>1. CASE i = n + 1
    <3>1. fs[i] = e /\ e.block_range[1] = m BY <1>5, <1>9, <2>1
    <3>2. m = IF n = 0 THEN 0 ELSE files[n].block_range[2]
      <4>1. n = 0 <=> files = << >> BY <1>1, <1>2, EmptySeq
      <4>2. QED BY <1>2, <1>3, <4>1 DEF RangesEnd
    <3>3. n # 0 => fs[n] = files[n]
      <4>1. n # 0 => n \in 1..n OBVIOUS
      <4>2. QED BY <1>9, <4>1
    <3>4. i - 1 = n /\ (i = 1 <=> n = 0) BY <2>1
    <3>5. QED BY <1>13, <3>1, <3>2, <3>3, <3>4
  <2>2. CASE i # n + 1
    <3>1. i \in 1..n /\ (i # 1 => i - 1 \in 1..n) BY <2>2
    <3>2. files[i] \in FileEntry BY <1>1, <1>2, <3>1, ElementOfSeq
    <3>3. GoodEntry(files[i], data) /\ files[i].block_range[1] = IF i = 1 THEN 0 ELSE files[i - 1].block_range[2]
      BY <1>2, <3>1 DEF GoodBlob
    <3>4. GoodEntry(files[i], y) BY <1>1, <1>7, <3>2, <3>3, EntryKept
    <3>5. QED BY <1>9, <3>1, <3>3, <3>4
  <2>3. QED BY <2>1, <2>2
<1>15. GoodBlob(fs, y)
  <2>1. RangesEnd(fs) \in Nat /\ Len(y) = RangesEnd(fs) * BlockSize BY <1>7, <1>11
  <2>2. \A i \in 1..Len(fs) : /\ GoodEntry(fs[i], y)
                             /\ fs[i].block_range[1] = IF i = 1 THEN 0 ELSE fs[i - 1].block_range[2]
    BY <1>8, <1>14
  <2>3. QED BY <1>12, <2>1, <2>2 DEF GoodBlob
<1>16. QED BY <1>6, <1>7, <1>8, <1>15

(***************************************************************************)
(* What a tree says of a blob of whole blocks.                             *)
(***************************************************************************)

LEMMA WholeBlock ==
  ASSUME NEW x \in Seq(Nat), NEW m \in Nat, Len(x) = m * BlockSize, NEW b \in Nat, b < m
  PROVE  Len(Block(x, b)) = BlockSize /\ Padded(Block(x, b)) = Block(x, b)
<1>1. PICK c \in Nat : c = b + 1 /\ c <= m OBVIOUS
<1>2. c * BlockSize <= m * BlockSize BY <1>1, TimesOrder
<1>3. InBlock(Len(x), b) = BlockSize BY <1>1, <1>2 DEF InBlock
<1>4. PICK y \in Seq(Nat) : y = Block(x, b) /\ Len(y) = BlockSize BY <1>3, BlockType
<1>5. QED BY <1>4, PaddedFull

LEMMA PaddedTwice ==
  ASSUME NEW b \in Seq(Nat), Len(b) <= BlockSize
  PROVE  Padded(Padded(b)) = Padded(b)
<1>1. PICK p \in Seq(Nat) : p = Padded(b) /\ Len(p) = BlockSize BY PaddedIs DEF IsPadded
<1>2. QED BY <1>1, PaddedFull

LEMMA DivMod ==
  ASSUME NEW j \in Nat
  PROVE  /\ j \div BlockSize \in Nat /\ j % BlockSize \in Nat /\ j % BlockSize < BlockSize
         /\ j = (j \div BlockSize) * BlockSize + (j % BlockSize)
<1>1. BlockSize \in Nat /\ BlockSize > 0 BY BlockSizeAssumption
<1>2. j % BlockSize \in Nat /\ j % BlockSize < BlockSize BY <1>1
<1>3. j \div BlockSize \in Nat BY <1>1
<1>4. j = BlockSize * (j \div BlockSize) + (j % BlockSize) BY <1>1
<1>5. QED BY <1>1, <1>2, <1>3, <1>4

\* Sequences of as many whole blocks that are the same block by block.
LEMMA SameBlocks ==
  ASSUME NEW x \in Seq(Nat), NEW y \in Seq(Nat), NEW m \in Nat, Len(x) = m * BlockSize, Len(y) = m * BlockSize,
         \A b \in Nat : b < m => Block(x, b) = Block(y, b)
  PROVE  x = y
<1>1. ASSUME NEW i \in 1..Len(x) PROVE x[i] = y[i]
  <2>1. PICK j \in Nat : j = i - 1 BY <1>1
  <2>2. PICK b \in Nat, o \in Nat : j = b * BlockSize + o /\ o < BlockSize
    <3>1. PICK b \in Nat, o \in Nat : b = j \div BlockSize /\ o = j % BlockSize BY DivMod
    <3>2. j = b * BlockSize + o /\ o < BlockSize BY <3>1, DivMod
    <3>3. QED BY <3>2
  <2>3. j < m * BlockSize /\ m * BlockSize \in Nat BY <1>1, <2>1, LenProperties
  <2>4. b < m
    <3>1. SUFFICES ASSUME m <= b PROVE FALSE OBVIOUS
    <3>2. m * BlockSize <= b * BlockSize BY <3>1, TimesOrder
    <3>3. b * BlockSize \in Nat BY Times
    <3>4. QED BY <2>2, <2>3, <3>2, <3>3
  <2>5. InBlock(Len(x), b) = BlockSize /\ InBlock(Len(y), b) = BlockSize
    <3>1. PICK c \in Nat : c = b + 1 /\ c <= m BY <2>4
    <3>2. c * BlockSize <= m * BlockSize BY <3>1, TimesOrder
    <3>3. QED BY <3>1, <3>2 DEF InBlock
  <2>6. IsSlice(Block(x, b), x, b * BlockSize, BlockSize) /\ IsSlice(Block(y, b), y, b * BlockSize, BlockSize)
    BY <2>5, BlockIs
  <2>7. PICK z : z = Block(x, b) /\ z = Block(y, b) BY <2>4
  <2>8. o + 1 \in 1..BlockSize BY <2>2, BlockSizeAssumption
  <2>9. PICK w \in Nat : w = b * BlockSize BY Times
  <2>10. w + (o + 1) = i BY <2>1, <2>2, <2>9
  <2>11. z[o + 1] = x[w + (o + 1)] /\ z[o + 1] = y[w + (o + 1)] BY <2>6, <2>7, <2>8, <2>9 DEF IsSlice
  <2>12. QED BY <2>10, <2>11
<1>2. QED BY <1>1, SeqEqual

\* Nothing at all hashes like one block of zeros.
LEMMA ZeroBlock ==
  /\ Aligned(<<0>>) \in Seq(Nat) /\ Len(Aligned(<<0>>)) = BlockSize /\ Aligned(<<0>>) # << >>
  /\ BlocksOf(BlockSize) = 1
  /\ Block(Aligned(<<0>>), 0) = Padded(Block(<< >>, 0))
<1>1. PICK o \in Seq(Nat) : o = <<0>> /\ Len(o) = 1 /\ o[1] = 0
  <2>1. <<0>> \in Seq(Nat) OBVIOUS
  <2>2. QED BY <2>1
<1>2. PICK n \in Seq(Nat) : n = << >> /\ Len(n) = 0 BY EmptySeq
<1>3. BlocksOf(1) = 1 /\ BlocksOf(BlockSize) = 1
  <2>1. 1 * BlockSize = BlockSize BY BlockSizeAssumption
  <2>2. BlocksOf(BlockSize) = 1 BY <2>1, BlocksOfWhole
  <2>3. BlocksOf(1) \in Nat BY BlocksType
  <2>4. 0 < BlocksOf(1) <=> 0 * BlockSize < 1 BY BlocksOfIs
  <2>5. 1 < BlocksOf(1) <=> 1 * BlockSize < 1 BY BlocksOfIs
  <2>6. QED BY <2>1, <2>2, <2>3, <2>4, <2>5, BlockSizeAssumption
<1>4. PICK z \in Seq(Nat) : z = Aligned(o) /\ Len(z) = BlockSize
  <2>1. 1 * BlockSize = BlockSize BY BlockSizeAssumption
  <2>2. QED BY <1>1, <1>3, <2>1, AlignedIs DEF IsAligned
<1>5. z # << >> BY <1>4, BlockSizeAssumption
<1>6. PICK a \in Seq(Nat) : a = Block(o, 0) BY BlockType
<1>7. PICK x \in Seq(Nat) : x = Block(n, 0) BY BlockType
<1>8. Len(a) = 1 /\ a[1] = 0
  <2>1. 0 * BlockSize = 0 /\ (0 + 1) * BlockSize = BlockSize BY BlockSizeAssumption
  <2>2. InBlock(Len(o), 0) = 1 BY <1>1, <2>1, BlockSizeAssumption DEF InBlock
  <2>3. IsSlice(a, o, 0, 1) BY <1>6, <2>1, <2>2, BlockIs
  <2>4. QED BY <1>1, <2>3 DEF IsSlice
<1>9. Len(x) = 0
  <2>1. 0 * BlockSize = 0 /\ (0 + 1) * BlockSize = BlockSize BY BlockSizeAssumption
  <2>2. InBlock(Len(n), 0) = 0 BY <1>2, <2>1, BlockSizeAssumption DEF InBlock
  <2>3. QED BY <1>7, <2>2, BlockType
<1>10. IsPadded(Padded(a), a) /\ IsPadded(Padded(x), x)
  <2>1. Len(a) <= BlockSize /\ Len(x) <= BlockSize BY <1>8, <1>9, BlockSizeAssumption
  <2>2. QED BY <2>1, PaddedIs
<1>11. IsPadded(Padded(a), x)
  <2>1. PICK p : p = Padded(a) OBVIOUS
  <2>2. ASSUME NEW i \in 1..BlockSize PROVE p[i] = 0
    <3>1. p[i] = IF i <= 1 THEN a[i] ELSE 0 BY <1>8, <1>10, <2>1 DEF IsPadded
    <3>2. i <= 1 => i = 1 OBVIOUS
    <3>3. QED BY <1>8, <3>1, <3>2
  <2>3. \A i \in 1..BlockSize : ~(i <= Len(x)) BY <1>9
  <2>4. QED BY <1>10, <2>1, <2>2, <2>3 DEF IsPadded
<1>12. Padded(a) = Padded(x) BY <1>10, <1>11, PaddedUnique
<1>13. Block(z, 0) = Padded(a)
  <2>1. 0 < BlocksOf(Len(o)) BY <1>1, <1>3
  <2>2. QED BY <1>4, <1>6, <2>1, AlignedBlock
<1>14. QED BY <1>1, <1>2, <1>3, <1>4, <1>5, <1>7, <1>12, <1>13

\* The blob that Image makes of a blob.
Whole(data) == IF data = << >> THEN Aligned(<<0>>) ELSE data

LEMMA ImageIs ==
  ASSUME NEW files, NEW data, GoodBlob(files, data)
  PROVE  Image(files) = Whole(data)
  BY DEF Image, Whole, GoodBlob, Flat, Parts

\* It is in whole blocks, at least one, and has as many as the tree has leaves.
IsWhole(x, data, m) ==
    /\ x = Whole(data) /\ x \in Seq(Nat) /\ m \in Nat \ {0} /\ Len(x) = m * BlockSize
    /\ BlocksOf(Len(x)) = m /\ m = LeafCount(data)
    /\ \A b \in Nat : b < m => Block(x, b) = Padded(Block(data, b))

LEMMA WholeIs ==
  ASSUME NEW files, NEW data, GoodBlob(files, data)
  PROVE  \E x, m : IsWhole(x, data, m)
<1>1. PICK m \in Nat : Len(data) = m * BlockSize /\ data \in Seq(Nat) BY DEF GoodBlob
<1>2. BlocksOf(Len(data)) = m BY <1>1, BlocksOfWhole
<1>3. CASE data # << >>
  <2>1. m # 0
    <3>1. SUFFICES ASSUME m = 0 PROVE FALSE OBVIOUS
    <3>2. Len(data) = 0 BY <1>1, <3>1, BlockSizeAssumption
    <3>3. QED BY <1>1, <1>3, <3>2, EmptySeq
  <2>2. \A b \in Nat : b < m => Block(data, b) = Padded(Block(data, b)) BY <1>1, WholeBlock
  <2>3. IsWhole(data, data, m) BY <1>1, <1>2, <1>3, <2>1, <2>2 DEF IsWhole, Whole, LeafCount
  <2>4. QED BY <2>3
<1>4. CASE data = << >>
  <2>1. PICK z \in Seq(Nat) : z = Aligned(<<0>>) /\ Len(z) = BlockSize BY ZeroBlock
  <2>2. 1 * BlockSize = BlockSize BY BlockSizeAssumption
  <2>3. LeafCount(data) = 1
    <3>1. Len(data) = 0 BY <1>4
    <3>2. 0 * BlockSize = 0 BY BlockSizeAssumption
    <3>3. BlocksOf(0) = 0 BY <3>2, BlocksOfWhole
    <3>4. QED BY <3>1, <3>3 DEF LeafCount
  <2>4. ASSUME NEW b \in Nat, b < 1 PROVE Block(z, b) = Padded(Block(data, b))
    <3>1. b = 0 BY <2>4
    <3>2. QED BY <1>4, <2>1, <3>1, ZeroBlock
  <2>5. BlocksOf(Len(z)) = 1 BY <2>1, ZeroBlock
  <2>6. IsWhole(z, data, 1) BY <1>4, <2>1, <2>2, <2>3, <2>4, <2>5 DEF IsWhole, Whole
  <2>7. QED BY <2>6
<1>5. QED BY <1>3, <1>4

\* A tree with the root of a list of files accepts the blocks of their image only.
LEMMA ImageChecked ==
  ASSUME NEW d1 \in Seq(Nat), NEW files, NEW data, GoodBlob(files, data), NEW root,
         root_hash(build(d1)) = root, root_hash(build(data)) = root, NEW b \in Nat, NEW blk
  PROVE  verify_block(build(d1), b, blk, root) <=>
            b < BlocksOf(Len(Image(files))) /\ Padded(blk) = Block(Image(files), b)
<1>1. PICK x, m : IsWhole(x, data, m) BY WholeIs
<1>2. data \in Seq(Nat) BY DEF GoodBlob
<1>3. verify_block(build(d1), b, blk, root) <=> b < LeafCount(data) /\ Padded(blk) = Padded(Block(data, b))
  BY <1>2, BlockChecked
<1>4. Image(files) = x BY <1>1, ImageIs DEF IsWhole
<1>5. BlocksOf(Len(x)) = m /\ m = LeafCount(data) /\ (b < m => Block(x, b) = Padded(Block(data, b))) BY <1>1 DEF IsWhole
<1>6. QED BY <1>3, <1>4, <1>5

\* The root of a tree with one leaf.
LEMMA OneLeaf ==
  ASSUME NEW data \in Seq(Nat), LeafCount(data) = 1
  PROVE  root_hash(build(data)) = hash_block(Block(data, 0))
<1>1. PICK g, leaves, padded : TreeFacts(build(data), g, data, leaves, padded) BY BuildFacts
<1>2. leaves = 1 /\ padded = next_power_of_two(1) /\ padded \in Nat /\ padded >= 1 BY <1>1 DEF TreeFacts
<1>3. padded = 1
  <2>1. PICK f : PowBody(f, 1) /\ PowersOfTwo(1) = Range(f)
    <3>1. PowersOfTwo(1) = Range(CHOOSE f : PowBody(f, 1)) BY DEF PowersOfTwo, PowBody
    <3>2. QED BY <3>1, PowExist
  <2>2. DOMAIN f = {0, 1} /\ f[0] = 1 /\ f[1] = 2
    <3>1. DOMAIN f = 0..1 /\ f[0] = 1 BY <2>1 DEF PowBody
    <3>2. f[1] = 2 * f[0] BY <2>1 DEF PowBody
    <3>3. QED BY <3>1, <3>2
  <2>3. PowersOfTwo(1) = {1, 2} BY <2>1, <2>2 DEF Range
  <2>4. {p \in PowersOfTwo(1) : p >= 1} = {1, 2} BY <2>3
  <2>5. Min({1, 2}) = 1 BY MinOf
  <2>6. QED BY <1>2, <2>4, <2>5 DEF next_power_of_two
<1>4. HashesBody(g, data, 1, 1, 0) /\ root_hash(build(data)) = g[0] BY <1>1, <1>2, <1>3 DEF TreeFacts
<1>5. g[0] = hash_block(Block(data, 0)) BY <1>4 DEF HashesBody
<1>6. QED BY <1>4, <1>5

\* Two lists of files have one root exactly when they have one image.
LEMMA RootIsImage ==
  ASSUME NEW f1, NEW d1, GoodBlob(f1, d1), NEW f2, NEW d2, GoodBlob(f2, d2)
  PROVE  root_hash(build(d1)) = root_hash(build(d2)) <=> Image(f1) = Image(f2)
<1>1. d1 \in Seq(Nat) /\ d2 \in Seq(Nat) BY DEF GoodBlob
<1>2. PICK x1, m1 : IsWhole(x1, d1, m1) BY WholeIs
<1>3. PICK x2, m2 : IsWhole(x2, d2, m2) BY WholeIs
<1>4. Image(f1) = x1 /\ Image(f2) = x2 BY <1>2, <1>3, ImageIs DEF IsWhole
<1>5. PICK r1, r2 : r1 = root_hash(build(d1)) /\ r2 = root_hash(build(d2)) OBVIOUS
<1>6. ASSUME r1 = r2 PROVE x1 = x2
  <2>1. \A b \in Nat : b < m1 => b < m2 /\ Block(x1, b) = Block(x2, b)
    <3>1. SUFFICES ASSUME NEW b \in Nat, b < m1 PROVE b < m2 /\ Block(x1, b) = Block(x2, b) OBVIOUS
    <3>2. Padded(Block(x1, b)) = Block(x1, b) BY <1>2, <3>1, WholeBlock DEF IsWhole
    <3>3. PICK blk : blk = Block(x1, b) OBVIOUS
    <3>4. verify_block(build(d1), b, blk, r1) <=> b < BlocksOf(Len(x1)) /\ Padded(blk) = Block(x1, b)
      BY <1>1, <1>4, <1>5, ImageChecked
    <3>5. verify_block(build(d1), b, blk, r1) <=> b < BlocksOf(Len(x2)) /\ Padded(blk) = Block(x2, b)
      <4>1. root_hash(build(d1)) = r1 /\ root_hash(build(d2)) = r1 BY <1>5, <1>6
      <4>2. QED BY <1>1, <1>4, <4>1, ImageChecked
    <3>6. QED BY <1>2, <1>3, <3>1, <3>2, <3>3, <3>4, <3>5 DEF IsWhole
  <2>2. \A b \in Nat : b < m2 => b < m1
    <3>1. SUFFICES ASSUME NEW b \in Nat, b < m2 PROVE b < m1 OBVIOUS
    <3>2. Padded(Block(x2, b)) = Block(x2, b) BY <1>3, <3>1, WholeBlock DEF IsWhole
    <3>3. PICK blk : blk = Block(x2, b) OBVIOUS
    <3>4. verify_block(build(d2), b, blk, r2) <=> b < BlocksOf(Len(x2)) /\ Padded(blk) = Block(x2, b)
      BY <1>1, <1>4, <1>5, ImageChecked
    <3>5. verify_block(build(d2), b, blk, r2) <=> b < BlocksOf(Len(x1)) /\ Padded(blk) = Block(x1, b)
      <4>1. root_hash(build(d1)) = r2 /\ root_hash(build(d2)) = r2 BY <1>5, <1>6
      <4>2. QED BY <1>1, <1>4, <4>1, ImageChecked
    <3>6. QED BY <1>2, <1>3, <3>1, <3>2, <3>3, <3>4, <3>5 DEF IsWhole
  <2>3. m1 \in Nat /\ m2 \in Nat /\ m1 = m2 
    <3>1. m1 \in Nat /\ m2 \in Nat BY <1>2, <1>3 DEF IsWhole
    <3>2. ~(m1 < m2) /\ ~(m2 < m1) BY <2>1, <2>2, <3>1
    <3>3. QED BY <3>1, <3>2
  <2>4. x1 \in Seq(Nat) /\ x2 \in Seq(Nat) /\ Len(x1) = m1 * BlockSize /\ Len(x2) = m1 * BlockSize
    BY <1>2, <1>3, <2>3 DEF IsWhole
  <2>5. \A b \in Nat : b < m1 => Block(x1, b) = Block(x2, b) BY <2>1
  <2>6. QED BY <2>3, <2>4, <2>5, SameBlocks
<1>7. ASSUME x1 = x2 PROVE r1 = r2
  <2>1. m1 = m2 BY <1>2, <1>3, <1>7 DEF IsWhole
  <2>2. CASE d1 = d2 BY <1>5, <2>2
  <2>3. CASE d1 # d2
    <3>1. d1 = << >> \/ d2 = << >> BY <1>2, <1>3, <1>7, <2>3 DEF IsWhole, Whole
    <3>2. m1 = 1
      <4>1. BlocksOf(0) = 0
        <5>1. 0 * BlockSize = 0 BY BlockSizeAssumption
        <5>2. QED BY <5>1, BlocksOfWhole
      <4>2. LeafCount(<< >>) = 1 BY <4>1 DEF LeafCount
      <4>3. QED BY <1>2, <1>3, <2>1, <3>1, <4>2 DEF IsWhole
    <3>3. r1 = hash_block(Block(d1, 0)) /\ r2 = hash_block(Block(d2, 0))
      BY <1>1, <1>2, <1>3, <1>5, <2>1, <3>2, OneLeaf DEF IsWhole
    <3>4. Block(x1, 0) = Padded(Block(d1, 0)) /\ Block(x1, 0) = Padded(Block(d2, 0))
      BY <1>2, <1>3, <1>7, <2>1, <3>2 DEF IsWhole
    <3>5. QED BY <3>3, <3>4 DEF hash_block
  <2>4. QED BY <2>2, <2>3
<1>8. QED BY <1>4, <1>5, <1>6, <1>7

\* The tree over d1 has the root of a list of files.
RootOf(root, d1, files, data) ==
    GoodBlob(files, data) /\ root_hash(build(d1)) = root /\ root_hash(build(data)) = root

EntryOf(e, files) == \E i \in 1..Len(files) : e = files[i]

\* What it accepts for one of them.
LEMMA EntryChecked ==
  ASSUME NEW d1 \in Seq(Nat), NEW files, NEW data, NEW root, RootOf(root, d1, files, data),
         NEW e, EntryOf(e, files), NEW k \in Nat, k < BlocksOf(Len(e.content_hash)), NEW blk
  PROVE  verify_block(build(d1), e.block_range[1] + k, blk, root) <=> Padded(blk) = Padded(Block(e.content_hash, k))
<1>1. e \in FileEntry /\ data \in Seq(Nat) /\ GoodEntry(e, data)
  <2>1. PICK i \in 1..Len(files) : e = files[i] BY DEF EntryOf
  <2>2. QED BY <2>1, ElementOfSeq DEF RootOf, GoodBlob
<1>2. PICK s \in Nat : s = e.block_range[1] BY <1>1 DEF FileEntry
<1>3. PICK c \in Seq(Nat) : c = e.content_hash BY <1>1, ContentType
<1>4. PICK n \in Nat : n = BlocksOf(Len(c)) BY LenProperties, BlocksType
<1>5. Block(data, s + k) = Padded(Block(c, k)) BY <1>1, <1>2, <1>3 DEF GoodEntry
<1>6. Padded(Padded(Block(c, k))) = Padded(Block(c, k)) BY BlockType, PaddedTwice
<1>7. s + k < LeafCount(data)
  <2>1. PICK w \in Nat : w = s + n /\ s + k < w BY <1>3, <1>4
  <2>2. w * BlockSize <= Len(data) BY <1>1, <1>2, <1>3, <1>4, <2>1 DEF GoodEntry
  <2>3. PICK m \in Nat : Len(data) = m * BlockSize BY DEF RootOf, GoodBlob
  <2>4. BlocksOf(Len(data)) = m BY <2>3, BlocksOfWhole
  <2>5. w <= m
    <3>1. SUFFICES ASSUME m + 1 <= w PROVE FALSE BY <2>1, <2>3
    <3>2. PICK u \in Nat : u = m + 1 OBVIOUS
    <3>3. u * BlockSize <= w * BlockSize /\ u * BlockSize = m * BlockSize + BlockSize BY <3>1, <3>2, Times, TimesOrder
    <3>4. u * BlockSize \in Nat /\ w * BlockSize \in Nat /\ m * BlockSize \in Nat BY Times
    <3>5. QED BY <2>2, <2>3, <3>3, <3>4, BlockSizeAssumption
  <2>6. m # 0 BY <2>1, <2>5
  <2>7. QED BY <2>1, <2>4, <2>5, <2>6 DEF LeafCount
<1>8. verify_block(build(d1), s + k, blk, root) <=> s + k < LeafCount(data) /\ Padded(blk) = Padded(Block(data, s + k))
  BY <1>1, BlockChecked DEF RootOf
<1>9. QED BY <1>2, <1>3, <1>5, <1>6, <1>7, <1>8

(***************************************************************************)
(* What a builder collects.                                                *)
(***************************************************************************)

FollowIn(d, p) == d[IF p \in DOMAIN Link THEN Link[p] ELSE p]

CollectsIn(d, builder, p) == FollowIn(d, p) # Absent \/ (builder = "dir" /\ p \in DOMAIN Link)

CollectedIn(d, builder) ==
    LET upto[n \in 0..Len(Order)] ==
            IF n = 0 THEN <<>>
            ELSE IF CollectsIn(d, builder, Order[n]) THEN Append(upto[n - 1], Order[n])
            ELSE upto[n - 1]
    IN  upto[Len(Order)]

LEMMA OfDisk ==
  /\ \A p : Follow(p) = FollowIn(disk, p) /\ Follow(p)' = FollowIn(disk', p)
  /\ \A b, p : Collects(b, p) = CollectsIn(disk, b, p) /\ Collects(b, p)' = CollectsIn(disk', b, p)
  /\ \A b : Collected(b) = CollectedIn(disk, b) /\ Collected(b)' = CollectedIn(disk', b)
  BY DEF Follow, FollowIn, Collects, CollectsIn, Collected, CollectedIn

CollectBody(g, d, builder, hi) ==
    g = [n \in 0..hi |-> IF n = 0 THEN << >>
                         ELSE IF CollectsIn(d, builder, Order[n]) THEN Append(g[n - 1], Order[n])
                         ELSE g[n - 1]]

LEMMA CollectExist ==
  ASSUME NEW d, NEW builder, NEW top \in Nat
  PROVE  \E g : CollectBody(g, d, builder, top)
<1> DEFINE S == {n \in 0..top : \E g : CollectBody(g, d, builder, n)}
<1>1. 0 \in S
  <2> DEFINE e == [n \in 0..0 |-> << >>]
  <2>1. CollectBody(e, d, builder, 0) BY DEF CollectBody
  <2>2. QED BY <2>1
<1>2. ASSUME NEW m \in 0..top, m \in S, m < top PROVE m + 1 \in S
  <2>1. PICK g : CollectBody(g, d, builder, m) BY <1>2
  <2> DEFINE v == IF CollectsIn(d, builder, Order[m + 1]) THEN Append(g[m], Order[m + 1]) ELSE g[m]
             h == [n \in 0..m + 1 |-> IF n = m + 1 THEN v ELSE g[n]]
  <2>2. \A n \in 0..m : h[n] = g[n] OBVIOUS
  <2>3. \A n \in 0..m : g[n] = IF n = 0 THEN << >>
                               ELSE IF CollectsIn(d, builder, Order[n]) THEN Append(g[n - 1], Order[n])
                               ELSE g[n - 1]
    BY <2>1 DEF CollectBody
  <2>4. \A n \in 0..m : n # 0 => n - 1 \in 0..m OBVIOUS
  <2>5. ASSUME NEW n \in 0..m + 1
        PROVE  h[n] = IF n = 0 THEN << >>
                      ELSE IF CollectsIn(d, builder, Order[n]) THEN Append(h[n - 1], Order[n])
                      ELSE h[n - 1]
    <3>1. CASE n = m + 1
      <4>1. h[n] = v /\ n # 0 /\ n - 1 = m BY <3>1
      <4>2. h[n - 1] = g[m] BY <2>2, <4>1
      <4>3. QED BY <3>1, <4>1, <4>2
    <3>2. CASE n # m + 1
      <4>1. n \in 0..m BY <3>2
      <4> HIDE DEF h, v
      <4>2. QED BY <2>2, <2>3, <2>4, <4>1
    <3>3. QED BY <3>1, <3>2
  <2>6. CollectBody(h, d, builder, m + 1)
    <3> HIDE DEF v
    <3> QED BY <2>5 DEF CollectBody
  <2>7. QED BY <1>2, <2>6
<1>3. top \in S
  <2> HIDE DEF S
  <2>1. \A n \in 0..top : n \in S BY <1>1, <1>2, UpTo
  <2>2. QED BY <2>1
<1>4. QED BY <1>3

\* Everything collected is there to be read.
LEMMA CollectedType ==
  ASSUME NEW d, NEW builder
  PROVE  CollectedIn(d, builder) \in Seq({p \in Paths : CollectsIn(d, builder, p)})
<1>1. PICK len \in Nat : len = Len(Order) BY VerityAssumption, LenProperties
<1>2. PICK g : CollectBody(g, d, builder, len) /\ CollectedIn(d, builder) = g[len]
  <2>1. CollectedIn(d, builder) = (CHOOSE g : CollectBody(g, d, builder, len))[len] BY <1>1 DEF CollectedIn, CollectBody
  <2>2. QED BY <2>1, CollectExist
<1> DEFINE T == {p \in Paths : CollectsIn(d, builder, p)}
           S == {n \in 0..len : g[n] \in Seq(T)}
<1>3. \A n \in 0..len : g[n] = IF n = 0 THEN << >>
                               ELSE IF CollectsIn(d, builder, Order[n]) THEN Append(g[n - 1], Order[n])
                               ELSE g[n - 1]
  BY <1>2 DEF CollectBody
<1>4. 0 \in S
  <2>1. 0 \in 0..len OBVIOUS
  <2>2. g[0] = << >> BY <1>3, <2>1
  <2>3. << >> \in Seq(T) BY EmptySeq
  <2>4. QED BY <2>1, <2>2, <2>3
<1>5. ASSUME NEW n \in 0..len, n \in S, n < len PROVE n + 1 \in S
  <2>1. n + 1 \in 0..len /\ n + 1 # 0 /\ (n + 1) - 1 = n /\ n + 1 \in 1..len BY <1>5
  <2>2. Order[n + 1] \in Paths BY <1>1, <2>1, VerityAssumption, ElementOfSeq
  <2>3. g[n + 1] = IF CollectsIn(d, builder, Order[n + 1]) THEN Append(g[n], Order[n + 1]) ELSE g[n] BY <1>3, <2>1
  <2>4. g[n] \in Seq(T) BY <1>5
  <2>5. CollectsIn(d, builder, Order[n + 1]) => Order[n + 1] \in T BY <2>2
  <2> HIDE DEF T
  <2>6. g[n + 1] \in Seq(T) BY <2>3, <2>4, <2>5, AppendProperties
  <2>7. QED BY <2>1, <2>6
<1>6. len \in S
  <2> HIDE DEF S
  <2>1. \A n \in 0..len : n \in S BY <1>4, <1>5, UpTo
  <2>2. QED BY <2>1
<1>7. QED BY <1>2, <1>6

(***************************************************************************)
(* The inductive invariant.                                                *)
(***************************************************************************)

GoodManifest(m) ==
    /\ GoodBlob(m.files, Flat(m.files))
    /\ m.root_hash = root_hash(build(Flat(m.files)))

IsTree(t) == \E d \in Seq(Nat) : t = build(d)

\* The whole tree, or all of it but the last node.
TreeFile(t) ==
    \E d \in Seq(Nat) : \/ t = to_bytes(build(d))
                        \/ t = [to_bytes(build(d)) EXCEPT !.nodes = Front(@)]

JobType == [for : {"pin", "mount", "verify"}, builder : {"vfs", "dir"}, warn : BOOLEAN, todo : Seq(Paths),
            size : Nat \cup {None}, data : Seq(Nat), files : Seq(FileEntry), manifest_written : BOOLEAN]

\* The files and what is still to do are what build_from_vfs finds in the directory.
AsOn(d, files, todo) ==
    /\ Len(CollectedIn(d, "vfs")) = Len(files) + Len(todo)
    /\ \A i \in 1..Len(files) : /\ files[i].path = CollectedIn(d, "vfs")[i]
                                /\ files[i].content_hash = FollowIn(d, files[i].path)
    /\ \A i \in 1..Len(todo) : todo[i] = CollectedIn(d, "vfs")[Len(files) + i]

JobOK(j, d, m) ==
    /\ j \in JobType
    /\ \A i \in 1..Len(j.todo) : CollectsIn(d, j.builder, j.todo[i])
    /\ GoodBlob(j.files, j.data)
    /\ j.for # "pin" => j.builder = "vfs"
    /\ j.for = "verify" => m \notin {None, Torn}

LayerOK(l, for) ==
    /\ IsTree(l.tree) /\ GoodManifest(l.manifest)
    /\ root_hash(l.tree) = l.manifest.root_hash
    /\ l.on_failure \in {"Reject", "Warn"}
    /\ l.on_failure = "Reject" \/ for # "verify" => l.root_hash = l.manifest.root_hash
    /\ l.pinned => ~l.cache_enabled

ScanType == [for : {"check", "verify"}, todo : Seq(FileEntry), pos : Nat, eof : BOOLEAN,
             block_idx : Nat, failed : Nat]

\* Block b of a list of files.
FitsIn(files, b, blk) == b < BlocksOf(Len(Image(files))) /\ Padded(blk) = Block(Image(files), b)

\* A layer accepts the manifest's blocks, if it has the manifest's root.
Accepts(l, b, blk) == l.root_hash = l.manifest.root_hash /\ FitsIn(l.manifest.files, b, blk)

\* The first n blocks of a file are accepted as blocks of entry e.
GoodUpTo(l, e, f, n) == \A k \in Nat : k < n => Accepts(l, e.block_range[1] + k, Block(f, k))

\* The blocks full_check looks at in a file: those it has, and those it has lost.
Needs(e, f) ==
    IF BlocksOf(Len(f)) >= BlocksOf(Len(e.content_hash)) THEN BlocksOf(Len(f)) ELSE BlocksOf(Len(e.content_hash))

GoodFile(l, d, e) == GoodUpTo(l, e, FollowIn(d, e.path), Needs(e, FollowIn(d, e.path)))

\* Inside file e, after j blocks.
InFile(s, e, f, j) ==
    /\ s.block_idx = e.block_range[1] + j
    /\ f = Absent => ~s.eof
    /\ f # Absent =>
         /\ s.eof => j >= BlocksOf(Len(f)) /\ j <= Needs(e, f)
         /\ ~s.eof => /\ j <= BlocksOf(Len(f))
                      /\ s.pos = IF j * BlockSize <= Len(f) THEN j * BlockSize ELSE Len(f)

\* All the blocks full_check has looked at, before file i and in its first j, were accepted.
GoodSoFar(d, l, files, i, j) ==
    /\ \A x \in 1..i - 1 : GoodFile(l, d, files[x])
    /\ i <= Len(files) => GoodUpTo(l, files[i], FollowIn(d, files[i].path), j)

\* full_check before file i of the layer's, after j blocks of it.
ScanAt(s, d, l, files, i, j) ==
    /\ i \in 1..Len(files) + 1 /\ j \in Nat
    /\ Len(s.todo) = Len(files) + 1 - i
    /\ \A x \in 1..Len(s.todo) : s.todo[x] = files[i - 1 + x]
    /\ \A x \in 1..i - 1 : FollowIn(d, files[x].path) # Absent
    /\ i <= Len(files) => InFile(s, files[i], FollowIn(d, files[i].path), j)
    /\ s.failed = 0 <=> GoodSoFar(d, l, files, i, j)

ScanOK(s, d, l) == \E i, j : ScanAt(s, d, l, l.manifest.files, i, j)

RangeType == [entry : FileEntry, from : Nat, next : Nat, to : Nat]

\* Block k of a file is there and is the entry's.
RangeFits(e, f, files, k) == f # Absent /\ FitsIn(files, e.block_range[1] + k, Block(f, k))

\* verify_file_blocks of a pinned layer has found the blocks before `next` good.
RangeOK(rg, d, l, st) ==
    /\ rg \in RangeType /\ EntryOf(rg.entry, l.manifest.files)
    /\ rg.from <= rg.next /\ rg.next < rg.to
    /\ st /\ l.on_failure = "Reject" /\ l.pinned =>
         \A k \in rg.from..rg.next - 1 : RangeFits(rg.entry, FollowIn(d, rg.entry.path), l.manifest.files, k)

\* The entry's size is that of its content.
SizeRight(e) == e.size = Len(e.content_hash)

ReaderOK(rd, d, files, mode) ==
    /\ rd \in VerifiedReader
    /\ EntryOf(rd.entry, files)
    /\ FollowIn(d, rd.entry.path) # Absent
    /\ rd.want <= rd.asked
    /\ rd.want > 0 => /\ rd.position < rd.entry.size
                      /\ rd.asked = rd.want + Len(rd.got)
                      /\ Len(rd.got) <= rd.position
    /\ rd.current # None => Len(rd.current.data) = ToRead(rd.entry, rd.current.block)
    /\ mode = "Reject" /\ SizeRight(rd.entry) =>
         /\ rd.current # None => rd.current.data = Block(rd.entry.content_hash, rd.current.block)
         /\ rd.want > 0 => IsSlice(rd.got, rd.entry.content_hash, rd.position - Len(rd.got), Len(rd.got))

DiskInv == disk \in [Files -> Contents \cup {Absent}]

CountInv == mods \in 0..MaxMods /\ builds \in 0..MaxBuilds /\ calls \in 0..MaxCalls

JobInv ==
    job # None => /\ layer = NoLayer
                  /\ JobOK(job, disk, mfile)
                  /\ steady /\ job.builder = "vfs" => AsOn(disk, job.files, job.todo)

FileInv ==
    /\ mfile \notin {None, Torn} => GoodManifest(mfile)
    /\ tfile \notin {None, Torn} => TreeFile(tfile)

LayerInv ==
    /\ layer # NoLayer => LayerOK(layer, scan.for) /\ cache \subseteq 0..layer.tree.leaf_count - 1
    /\ layer = NoLayer => cache = {} /\ scan = NoScan /\ range = None /\ \A r \in Readers : readers[r] = None

VerifyOK(l, m, d, st) ==
    /\ m \notin {None, Torn} /\ l.root_hash = m.root_hash
    /\ st => AsOn(d, l.manifest.files, << >>)

ScanInv ==
    scan # NoScan =>
        /\ scan \in ScanType
        /\ scan.for = "verify" => /\ \A r \in Readers : readers[r] = None
                                  /\ VerifyOK(layer, mfile, disk, steady)
        /\ steady => ScanOK(scan, disk, layer)

RangeInv == range # None => scan = NoScan /\ RangeOK(range, disk, layer, steady)

ReaderInv ==
    /\ readers = [r \in Readers |-> readers[r]]
    /\ \A r \in Readers : readers[r] # None =>
          ReaderOK(readers[r], disk, layer.manifest.files, layer.on_failure)

IInv == DiskInv /\ CountInv /\ JobInv /\ FileInv /\ LayerInv /\ ScanInv /\ RangeInv /\ ReaderInv

LEMMA InitInv == Init => IInv
<1>1. SUFFICES ASSUME Init PROVE IInv OBVIOUS
<1>2. DiskInv BY <1>1, VerityAssumption DEF Init, DiskInv
<1>3. CountInv BY <1>1, VerityAssumption DEF Init, CountInv
<1>4. JobInv /\ FileInv BY <1>1 DEF Init, JobInv, FileInv
<1>5. LayerInv /\ ScanInv /\ RangeInv /\ ReaderInv BY <1>1 DEF Init, LayerInv, ScanInv, RangeInv, ReaderInv
<1>6. QED BY <1>2, <1>3, <1>4, <1>5 DEF IInv

LEMMA FollowType ==
  ASSUME NEW d \in [Files -> Contents \cup {Absent}], NEW p \in Paths
  PROVE  /\ FollowIn(d, p) \in Contents \cup {Absent}
         /\ FollowIn(d, p) # Absent => FollowIn(d, p) \in Seq(Nat)
  BY VerityAssumption DEF FollowIn, Files

(***************************************************************************)
(* Building.                                                               *)
(***************************************************************************)

LEMMA StartBuildInv ==
  ASSUME NEW for \in {"pin", "mount", "verify"}, NEW b \in {"vfs", "dir"}, NEW w \in BOOLEAN,
         for # "pin" => b = "vfs", for = "verify" => mfile \notin {None, Torn},
         IInv, StartBuild(for, b, w)
  PROVE  IInv'
<1>1. PICK c \in Seq({p \in Paths : CollectsIn(disk, b, p)}) : c = CollectedIn(disk, b) /\ Collected(b) = c
  BY CollectedType, OfDisk
<1>2. c \in Seq(Paths) BY SeqMonotonic
<1>3. \A i \in 1..Len(c) : CollectsIn(disk, b, c[i])
  <2>1. ASSUME NEW i \in 1..Len(c) PROVE c[i] \in {p \in Paths : CollectsIn(disk, b, p)} BY ElementOfSeq
  <2>2. QED BY <2>1
<1>4. PICK j : j = [for |-> for, builder |-> b, warn |-> w, todo |-> c,
                    size |-> None, data |-> << >>, files |-> << >>, manifest_written |-> FALSE]
  OBVIOUS
<1>5. job' = j BY <1>1, <1>4 DEF StartBuild
<1>6. JobOK(j, disk, mfile)
  <2>1. j \in JobType BY <1>2, <1>4, EmptySeq DEF JobType
  <2>2. GoodBlob(j.files, j.data) BY <1>4, EmptyBlob
  <2>3. QED BY <1>3, <1>4, <2>1, <2>2 DEF JobOK
<1>7. b = "vfs" => AsOn(disk, j.files, j.todo)
  <2>1. Len(c) \in Nat BY <1>2, LenProperties
  <2>2. j.files = << >> /\ j.todo = c /\ Len(<< >>) = 0 BY <1>4
  <2>3. QED BY <1>1, <2>1, <2>2 DEF AsOn
<1>8. disk' = disk /\ mfile' = mfile /\ layer' = layer /\ layer = NoLayer BY DEF StartBuild
<1>9. JobInv' BY <1>4, <1>5, <1>6, <1>7, <1>8 DEF JobInv
<1>10. DiskInv' /\ CountInv' BY VerityAssumption DEF StartBuild, IInv, DiskInv, CountInv
<1>11. FileInv' /\ LayerInv' BY DEF StartBuild, IInv, FileInv, LayerInv
<1>12. ScanInv'
  <2>1. scan' = NoScan BY DEF StartBuild, IInv, LayerInv
  <2>2. QED BY <2>1 DEF ScanInv
<1>13. ReaderInv' BY DEF StartBuild, IInv, ReaderInv
<1>14. RangeInv' BY DEF StartBuild, IInv, LayerInv, RangeInv
<1>15. QED BY <1>9, <1>10, <1>11, <1>12, <1>13, <1>14 DEF IInv

\* What a step of the builder leaves alone.
LEMMA BuildFrame ==
  ASSUME IInv, Building, UNCHANGED <<layer, cache, scan>>, JobInv', FileInv'
  PROVE  IInv'
<1>1. DiskInv' /\ CountInv' BY DEF Building, IInv, DiskInv, CountInv
<1>2. layer = NoLayer BY DEF Building, IInv, JobInv
<1>3. LayerInv' BY DEF Building, IInv, LayerInv
<1>4. ScanInv' BY <1>2 DEF IInv, LayerInv, ScanInv
<1>5. ReaderInv' BY DEF Building, IInv, ReaderInv
<1>6. RangeInv' BY <1>2 DEF Building, IInv, LayerInv, RangeInv
<1>7. QED BY <1>1, <1>3, <1>4, <1>5, <1>6 DEF IInv

LEMMA StatInv == ASSUME IInv, Stat PROVE IInv'
<1>1. job # None /\ job.builder = "vfs" /\ job.todo # << >> /\ disk' = disk /\ steady' = steady BY DEF Stat, Building
<1>2. PICK j : j = job /\ JobOK(j, disk, mfile) /\ j \in JobType BY <1>1 DEF IInv, JobInv, JobOK
<1>3. PICK p \in Paths : p = Head(j.todo) /\ FollowIn(disk, p) # Absent
  <2>1. j.todo \in Seq(Paths) /\ j.todo # << >> BY <1>1, <1>2 DEF JobType
  <2>2. Len(j.todo) \in Nat /\ Len(j.todo) # 0 BY <2>1, LenProperties, EmptySeq
  <2>3. Head(j.todo) = j.todo[1] /\ 1 \in 1..Len(j.todo) BY <2>1, <2>2
  <2>4. j.todo[1] \in Paths BY <2>1, <2>3, ElementOfSeq
  <2>5. CollectsIn(disk, "vfs", j.todo[1]) BY <1>1, <1>2, <2>3 DEF JobOK
  <2>6. QED BY <2>3, <2>4, <2>5 DEF CollectsIn
<1>4. PICK n \in Nat : n = Len(FollowIn(disk, p)) BY <1>3, FollowType, LenProperties DEF IInv, DiskInv
<1>5. PICK k : k = [j EXCEPT !.size = n] OBVIOUS
<1>6. job' = k BY <1>2, <1>3, <1>4, <1>5, OfDisk DEF Stat
<1>7. k \in JobType BY <1>2, <1>5 DEF JobType
<1>8. /\ k.todo = j.todo /\ k.files = j.files /\ k.data = j.data /\ k.builder = j.builder /\ k.for = j.for
  BY <1>2, <1>5 DEF JobType
<1>9. JobOK(k, disk, mfile) BY <1>2, <1>7, <1>8 DEF JobOK
<1>10. layer' = layer /\ mfile' = mfile BY DEF Stat
<1>11. JobInv' BY <1>1, <1>2, <1>6, <1>8, <1>9, <1>10 DEF IInv, JobInv
<1>12. FileInv' BY DEF Stat, IInv, FileInv
<1>13. QED BY <1>11, <1>12, BuildFrame DEF Stat

LEMMA EntryType ==
  ASSUME NEW files, NEW data, GoodBlob(files, data), NEW p \in Paths, NEW kind \in {"File", "Symlink"}, NEW size \in Nat,
         NEW buf \in Contents \cup {LinkText}, NEW e,
         e = [path |-> p, kind |-> kind, size |-> size, content_hash |-> buf,
              block_range |-> <<BlocksOf(Len(data)), BlocksOf(Len(data)) + BlocksOf(Len(buf))>>]
  PROVE  e \in FileEntry
<1>1. buf \in Seq(Nat) /\ data \in Seq(Nat) BY VerityAssumption DEF GoodBlob
<1>2. PICK m \in Nat, n \in Nat : m = BlocksOf(Len(data)) /\ n = BlocksOf(Len(buf)) BY <1>1, LenProperties, BlocksType
<1>3. QED BY <1>2 DEF FileEntry

LEMMA AddInv ==
  ASSUME IInv, Building, UNCHANGED <<layer, cache, scan, mfile, tfile>>, job.todo # << >>,
         NEW kind \in {"File", "Symlink"}, NEW size \in Nat, NEW buf \in Contents \cup {LinkText},
         job.builder = "vfs" => buf = FollowIn(disk, Head(job.todo)),
         Add(kind, size, buf)
  PROVE  IInv'
<1>1. job # None /\ disk' = disk /\ steady' = steady BY DEF Building
<1>2. PICK j : j = job /\ JobOK(j, disk, mfile) /\ j \in JobType BY <1>1 DEF IInv, JobInv, JobOK
<1>3. PICK todo \in Seq(Paths) : todo = j.todo /\ todo # << >> BY <1>2 DEF JobType
<1>4. PICK p \in Paths, rest \in Seq(Paths) : p = Head(todo) /\ rest = Tail(todo) BY <1>3, HeadTailProperties
<1>5. PICK n \in Nat : n = Len(rest) /\ Len(todo) = n + 1
  <2>1. Len(todo) \in Nat /\ Len(rest) \in Nat /\ Len(rest) = Len(todo) - 1 BY <1>3, <1>4, LenProperties, HeadTailProperties
  <2>2. QED BY <2>1
<1>6. todo[1] = p /\ \A i \in 1..n : rest[i] = todo[i + 1] BY <1>3, <1>4, <1>5, HeadTailProperties
<1>7. PICK e : e = [path |-> p, kind |-> kind, size |-> size, content_hash |-> buf,
                    block_range |-> <<BlocksOf(Len(j.data)), BlocksOf(Len(j.data)) + BlocksOf(Len(buf))>>]
  OBVIOUS
<1>8. PICK k : k = [j EXCEPT !.todo = rest, !.size = None, !.data = j.data \o Aligned(buf), !.files = Append(j.files, e)]
  OBVIOUS
<1>9. job' = k BY <1>2, <1>3, <1>4, <1>7, <1>8 DEF Add
<1>10. GoodBlob(Append(j.files, e), j.data \o Aligned(buf)) BY <1>2, <1>7, AddBlob DEF JobOK
<1>11. k \in JobType BY <1>2, <1>8, <1>10 DEF JobType, GoodBlob
<1>12. /\ k.todo = rest /\ k.files = Append(j.files, e) /\ k.data = j.data \o Aligned(buf)
       /\ k.builder = j.builder /\ k.for = j.for
  BY <1>2, <1>8 DEF JobType
<1>13. JobOK(k, disk, mfile)
  <2>1. ASSUME NEW i \in 1..n PROVE CollectsIn(disk, k.builder, rest[i])
    <3>1. i + 1 \in 1..Len(todo) BY <1>5
    <3>2. QED BY <1>2, <1>3, <1>6, <1>12, <3>1 DEF JobOK
  <2>2. QED BY <1>2, <1>5, <1>10, <1>11, <1>12, <2>1 DEF JobOK
<1>14. ASSUME steady, j.builder = "vfs" PROVE AsOn(disk, k.files, k.todo)
  <2>1. AsOn(disk, j.files, todo) BY <1>1, <1>2, <1>3, <1>14 DEF IInv, JobInv
  <2>2. PICK all : all = CollectedIn(disk, "vfs") OBVIOUS
  <2>3. PICK files \in Seq(FileEntry) : files = j.files BY <1>2 DEF JobType
  <2>4. PICK m \in Nat : m = Len(files) BY LenProperties
  <2>5. e \in FileEntry BY <1>7, <1>2, EntryType DEF JobOK
  <2>6. PICK fs \in Seq(FileEntry) : fs = k.files /\ Len(fs) = m + 1
    <3>1. Append(files, e) \in Seq(FileEntry) /\ Len(Append(files, e)) = Len(files) + 1 BY <2>5, AppendProperties
    <3>2. k.files = Append(files, e) BY <1>12, <2>3
    <3>3. QED BY <2>4, <3>1, <3>2
  <2>7. fs[m + 1] = e /\ \A i \in 1..m : fs[i] = files[i] BY <1>12, <2>3, <2>4, <2>5, <2>6, AppendProperties
  <2>8. e.path = p /\ e.content_hash = buf /\ buf = FollowIn(disk, p) BY <1>2, <1>3, <1>4, <1>7, <1>14
  <2>9. /\ Len(all) = m + (n + 1)
        /\ \A i \in 1..m : files[i].path = all[i] /\ files[i].content_hash = FollowIn(disk, files[i].path)
        /\ \A i \in 1..n + 1 : todo[i] = all[m + i]
    BY <1>5, <2>1, <2>2, <2>3, <2>4 DEF AsOn
  <2>10. p = all[m + 1]
    <3>1. 1 \in 1..n + 1 OBVIOUS
    <3>2. QED BY <1>6, <2>9, <3>1
  <2>11. ASSUME NEW i \in 1..m + 1 PROVE fs[i].path = all[i] /\ fs[i].content_hash = FollowIn(disk, fs[i].path)
    <3>1. CASE i = m + 1 BY <2>7, <2>8, <2>10, <3>1
    <3>2. CASE i # m + 1
      <4>1. i \in 1..m BY <3>2
      <4>2. QED BY <2>7, <2>9, <4>1
    <3>3. QED BY <3>1, <3>2
  <2>12. ASSUME NEW i \in 1..n PROVE rest[i] = all[(m + 1) + i]
    <3>1. i + 1 \in 1..n + 1 /\ m + (i + 1) = (m + 1) + i OBVIOUS
    <3>2. rest[i] = todo[i + 1] /\ todo[i + 1] = all[m + (i + 1)] BY <1>6, <2>9, <3>1
    <3>3. QED BY <3>1, <3>2
  <2>13. Len(all) = (m + 1) + n BY <2>9
  <2>14. QED BY <1>5, <1>12, <2>2, <2>6, <2>11, <2>12, <2>13 DEF AsOn
<1>15. JobInv' BY <1>1, <1>2, <1>9, <1>12, <1>13, <1>14 DEF IInv, JobInv
<1>16. FileInv' BY DEF IInv, FileInv
<1>17. QED BY <1>15, <1>16, BuildFrame

LEMMA ReadFileInv == ASSUME IInv, ReadFile PROVE IInv'
<1>1. /\ job # None /\ job.todo # << >> /\ Building /\ UNCHANGED <<layer, cache, scan, mfile, tfile>>
  BY DEF ReadFile, Building
<1>2. PICK j : j = job /\ JobOK(j, disk, mfile) /\ j \in JobType BY <1>1 DEF IInv, JobInv, JobOK
<1>3. PICK p \in Paths : p = Head(j.todo) /\ CollectsIn(disk, j.builder, p)
  <2>1. j.todo \in Seq(Paths) /\ j.todo # << >> BY <1>1, <1>2 DEF JobType
  <2>2. Len(j.todo) \in Nat /\ Len(j.todo) # 0 BY <2>1, LenProperties, EmptySeq
  <2>3. Head(j.todo) = j.todo[1] /\ 1 \in 1..Len(j.todo) BY <2>1, <2>2
  <2>4. j.todo[1] \in Paths BY <2>1, <2>3, ElementOfSeq
  <2>5. QED BY <1>2, <2>3, <2>4 DEF JobOK
<1>4. disk \in [Files -> Contents \cup {Absent}] BY DEF IInv, DiskInv
<1>5. PICK f : f = FollowIn(disk, p) /\ f = Follow(p) BY OfDisk
<1>6. f # Absent => f \in Contents /\ f \in Seq(Nat) BY <1>4, <1>5, FollowType
<1>7. CASE job.builder = "vfs" /\ job.size # None /\ Add("File", job.size, Follow(Head(job.todo)))
  <2>1. f # Absent BY <1>2, <1>3, <1>5, <1>7 DEF CollectsIn
  <2>2. job.size \in Nat BY <1>2, <1>7 DEF JobType
  <2>3. Add("File", job.size, f) /\ f = FollowIn(disk, Head(job.todo)) /\ f \in Contents \cup {LinkText}
    BY <1>2, <1>3, <1>5, <1>6, <1>7, <2>1
  <2>4. QED BY <1>1, <2>2, <2>3, AddInv
<1>8. CASE /\ job.builder = "dir"
           /\ Head(job.todo) \in DOMAIN Link
           /\ Add("Symlink", Len(LinkText), LinkText)
  <2>1. Len(LinkText) \in Nat BY VerityAssumption, LenProperties
  <2>2. QED BY <1>1, <1>8, <2>1, AddInv
<1>9. CASE /\ job.builder = "dir"
           /\ Head(job.todo) \notin DOMAIN Link
           /\ Add("File", Len(disk[Head(job.todo)]), disk[Head(job.todo)])
  <2>1. p \notin DOMAIN Link /\ disk[p] = f BY <1>2, <1>3, <1>5, <1>9 DEF FollowIn
  <2>2. f # Absent BY <1>2, <1>3, <1>5, <1>9, <2>1 DEF CollectsIn
  <2>3. Len(f) \in Nat BY <1>6, <2>2, LenProperties
  <2>4. Add("File", Len(f), f) /\ f \in Contents \cup {LinkText} BY <1>2, <1>3, <1>6, <1>9, <2>1, <2>2
  <2>5. QED BY <1>1, <1>9, <2>3, <2>4, AddInv
<1>10. QED BY <1>7, <1>8, <1>9 DEF ReadFile

LEMMA BuildErrorInv == ASSUME IInv, BuildError PROVE IInv'
<1>1. JobInv' BY DEF BuildError, JobInv
<1>2. FileInv' BY DEF BuildError, IInv, FileInv
<1>3. QED BY <1>1, <1>2, BuildFrame DEF BuildError

\* What a finished build has.
BuiltOK(j) ==
    /\ j.data \in Seq(Nat) /\ GoodBlob(j.files, j.data) /\ Flat(j.files) = j.data

LEMMA BuiltFacts ==
  ASSUME IInv, Built
  PROVE  /\ job # None /\ BuiltOK(job) /\ job \in JobType /\ layer = NoLayer
         /\ GoodManifest(Manifest) /\ IsTree(Tree) /\ root_hash(Tree) = Manifest.root_hash
         /\ Manifest.files = job.files
         /\ scan = NoScan /\ \A r \in Readers : readers[r] = None
<1>1. job # None /\ layer = NoLayer /\ JobOK(job, disk, mfile) BY DEF Built, Building, IInv, JobInv
<1>2. BuiltOK(job) /\ job \in JobType BY <1>1 DEF JobOK, BuiltOK, GoodBlob
<1>3. PICK t : t = Tree /\ t = build(job.data) BY DEF Tree
<1>4. Manifest = [files |-> job.files, root_hash |-> root_hash(t)] BY <1>3 DEF Manifest
<1>5. Manifest.files = job.files /\ Manifest.root_hash = root_hash(t) BY <1>4
<1>6. GoodManifest(Manifest) BY <1>2, <1>3, <1>5 DEF GoodManifest, BuiltOK
<1>7. IsTree(t) BY <1>2, <1>3 DEF IsTree, BuiltOK
<1>8. QED BY <1>1, <1>2, <1>3, <1>5, <1>6, <1>7 DEF IInv, LayerInv

LEMMA WriteManifestInv == ASSUME IInv, WriteManifest PROVE IInv'
<1>1. Built /\ Building /\ job.for = "pin" /\ disk' = disk /\ layer' = layer /\ steady' = steady
  BY DEF WriteManifest, Built, Building
<1>2. /\ job # None /\ job \in JobType /\ GoodManifest(Manifest) /\ layer = NoLayer /\ JobOK(job, disk, mfile)
  BY <1>1, BuiltFacts DEF IInv, JobInv
<1>3. tfile' = tfile BY DEF WriteManifest
<1>4. CASE mfile' = Manifest /\ job' = [job EXCEPT !.manifest_written = TRUE]
  <2>1. PICK m : m = mfile' /\ GoodManifest(m) BY <1>2, <1>4
  <2>2. FileInv' BY <1>3, <2>1 DEF IInv, FileInv
  <2>3. PICK j, k : j = job /\ k = job' /\ k = [j EXCEPT !.manifest_written = TRUE] BY <1>4
  <2>4. /\ k.todo = j.todo /\ k.files = j.files /\ k.data = j.data /\ k.builder = j.builder /\ k.for = j.for /\ k \in JobType
    BY <1>2, <2>3 DEF JobType
  <2>5. JobOK(k, disk, m) BY <1>1, <1>2, <2>3, <2>4 DEF JobOK
  <2>6. JobInv' BY <1>1, <1>2, <2>1, <2>3, <2>4, <2>5 DEF IInv, JobInv
  <2>7. QED BY <1>1, <2>2, <2>6, BuildFrame DEF WriteManifest
<1>5. CASE mfile' = Torn /\ job' = None
  <2>1. FileInv' BY <1>3, <1>5 DEF IInv, FileInv
  <2>2. JobInv' BY <1>5 DEF JobInv
  <2>3. QED BY <1>1, <2>1, <2>2, BuildFrame DEF WriteManifest
<1>6. QED BY <1>4, <1>5 DEF WriteManifest

LEMMA WriteTreeInv == ASSUME IInv, WriteTree PROVE IInv'
<1>1. Built /\ Building /\ job' = None /\ mfile' = mfile BY DEF WriteTree, Built, Building
<1>2. PICK d \in Seq(Nat) : Tree = build(d) BY <1>1, BuiltFacts DEF IsTree
<1>3. PICK t : t = tfile' OBVIOUS
<1>4. \/ t = Torn \/ t = to_bytes(build(d)) \/ t = [to_bytes(build(d)) EXCEPT !.nodes = Front(@)]
  BY <1>2, <1>3 DEF WriteTree
<1>5. t # Torn => TreeFile(t) BY <1>4 DEF TreeFile
<1>6. FileInv' BY <1>1, <1>3, <1>5 DEF IInv, FileInv
<1>7. JobInv' BY <1>1 DEF JobInv
<1>8. QED BY <1>1, <1>6, <1>7, BuildFrame DEF WriteTree

(***************************************************************************)
(* Mounting.                                                               *)
(***************************************************************************)

StartScan(for, files) ==
    [for |-> for, todo |-> files, pos |-> 0, eof |-> FALSE,
     block_idx |-> IF files = << >> THEN 0 ELSE files[1].block_range[1], failed |-> 0]

LEMMA ScanStarts ==
  ASSUME NEW for \in {"check", "verify"}, NEW l, GoodManifest(l.manifest), NEW d \in [Files -> Contents \cup {Absent}]
  PROVE  /\ StartScan(for, l.manifest.files) \in ScanType
         /\ ScanOK(StartScan(for, l.manifest.files), d, l)
<1>1. PICK files \in Seq(FileEntry) : files = l.manifest.files BY DEF GoodManifest, GoodBlob
<1>2. PICK n \in Nat : n = Len(files) /\ (n = 0 <=> files = << >>) BY LenProperties, EmptySeq
<1>3. PICK s : s = StartScan(for, files) OBVIOUS
<1>4. s.todo = files /\ s.pos = 0 /\ s.eof = FALSE /\ s.failed = 0 /\ s.for = for BY <1>3 DEF StartScan
<1>5. n # 0 => /\ files[1] \in FileEntry /\ files[1].block_range[1] \in Nat
               /\ s.block_idx = files[1].block_range[1]
  <2>1. SUFFICES ASSUME n # 0
        PROVE  files[1] \in FileEntry /\ files[1].block_range[1] \in Nat /\ s.block_idx = files[1].block_range[1]
    OBVIOUS
  <2>2. files[1] \in FileEntry BY <1>2, <2>1, ElementOfSeq
  <2>3. files[1].block_range[1] \in Nat BY <2>2 DEF FileEntry
  <2>4. s.block_idx = files[1].block_range[1] BY <1>2, <1>3, <2>1 DEF StartScan
  <2>5. QED BY <2>2, <2>3, <2>4
<1>6. s \in ScanType
  <2>1. s.block_idx \in Nat BY <1>2, <1>3, <1>5 DEF StartScan
  <2>2. QED BY <1>3, <2>1 DEF StartScan, ScanType
<1>7. ASSUME n # 0 PROVE InFile(s, files[1], FollowIn(d, files[1].path), 0)
  <2>1. PICK e \in FileEntry : e = files[1] BY <1>5, <1>7
  <2>2. PICK f : f = FollowIn(d, e.path) OBVIOUS
  <2>3. f # Absent => f \in Seq(Nat) BY <2>2, ContentType, FollowType
  <2>4. f # Absent => Len(f) \in Nat /\ BlocksOf(Len(f)) \in Nat BY <2>3, LenProperties, BlocksType
  <2>5. 0 * BlockSize = 0 BY BlockSizeAssumption
  <2>6. s.block_idx = e.block_range[1] + 0 BY <1>5, <1>7, <2>1
  <2>7. InFile(s, e, f, 0) BY <1>4, <2>4, <2>5, <2>6 DEF InFile
  <2>8. QED BY <2>1, <2>2, <2>7
<1>8. ScanAt(s, d, l, files, 1, 0)
  <2>1. 1 \in 1..Len(files) + 1 /\ Len(s.todo) = Len(files) + 1 - 1 BY <1>2, <1>4
  <2>2. \A x \in 1..Len(s.todo) : s.todo[x] = files[1 - 1 + x] BY <1>2, <1>4
  <2>3. 1 <= Len(files) => InFile(s, files[1], FollowIn(d, files[1].path), 0) BY <1>2, <1>7
  <2>4. GoodSoFar(d, l, files, 1, 0)
    <3>1. \A x \in 1..1 - 1 : FALSE OBVIOUS
    <3>2. \A e, f : GoodUpTo(l, e, f, 0) BY DEF GoodUpTo
    <3>3. QED BY <3>1, <3>2 DEF GoodSoFar
  <2>5. \A x \in 1..1 - 1 : FALSE OBVIOUS
  <2>6. QED BY <1>4, <2>1, <2>2, <2>3, <2>4, <2>5 DEF ScanAt
<1>9. QED BY <1>1, <1>3, <1>6, <1>8 DEF ScanOK

\* A layer mounted over nothing.
LEMMA MountFrame ==
  ASSUME IInv, layer = NoLayer, NEW l, layer' = l, l # NoLayer, cache' = {}, LayerOK(l, scan'.for), ScanInv',
         UNCHANGED <<disk, mfile, tfile, readers, range, mods, builds, calls>>, job' = None
  PROVE  IInv'
<1>1. DiskInv' /\ CountInv' /\ FileInv' BY DEF IInv, DiskInv, CountInv, FileInv
<1>2. JobInv' BY DEF JobInv
<1>3. LayerInv' BY DEF LayerInv
<1>4. ReaderInv' /\ RangeInv' BY DEF IInv, LayerInv, ReaderInv, RangeInv
<1>5. QED BY <1>1, <1>2, <1>3, <1>4 DEF IInv

LEMMA FinishMountInv == ASSUME IInv, FinishMount PROVE IInv'
<1>1. Built /\ Building /\ job' = None /\ scan' = scan /\ mfile' = mfile /\ tfile' = tfile
  BY DEF FinishMount, Built, Building
<1>2. PICK t, m : t = Tree /\ m = Manifest OBVIOUS
<1>3. PICK f \in {"Reject", "Warn"} : layer' = VerifiedLayerVfs(t, m, root_hash(t), f, FALSE) BY <1>2 DEF FinishMount
<1>4. PICK l : l = [tree |-> t, manifest |-> m, root_hash |-> root_hash(t), on_failure |-> f,
                    cache_enabled |-> TRUE, pinned |-> FALSE]
  OBVIOUS
<1>5. layer' = l /\ cache' = {} BY <1>3, <1>4 DEF FinishMount, VerifiedLayerVfs
<1>6. IsTree(t) /\ GoodManifest(m) /\ root_hash(t) = m.root_hash /\ scan = NoScan /\ layer = NoLayer
  BY <1>1, <1>2, BuiltFacts
<1>7. /\ l.tree = t /\ l.manifest = m /\ l.root_hash = root_hash(t) /\ l.on_failure = f /\ ~l.pinned BY <1>4
<1>8. LayerOK(l, scan'.for) BY <1>6, <1>7 DEF LayerOK
<1>9. l # NoLayer BY <1>7 DEF NoLayer
<1>10. ScanInv' BY <1>1, <1>6 DEF ScanInv
<1>11. QED BY <1>1, <1>5, <1>6, <1>8, <1>9, <1>10, MountFrame DEF Building

LEMMA LoadTree ==
  ASSUME NEW t, TreeFile(t), WellFormed(t)
  PROVE  IsTree(from_bytes(t))
<1>1. PICK d \in Seq(Nat) : \/ t = to_bytes(build(d)) \/ t = [to_bytes(build(d)) EXCEPT !.nodes = Front(@)]
  BY DEF TreeFile
<1>2. PICK g, leaves, padded : TreeFacts(build(d), g, d, leaves, padded) BY BuildFacts
<1>3. PICK b : b = build(d) OBVIOUS
<1>4. /\ b = [leaf_count |-> leaves, padded_leaf_count |-> padded, nodes |-> b.nodes]
      /\ b.nodes = [i \in 1..2 * padded - 1 |-> g[i - 1]] /\ padded \in Nat /\ padded >= 1
  BY <1>2, <1>3 DEF TreeFacts
<1>5. PICK n \in Nat : n = 2 * padded - 1 /\ n >= 1 BY <1>4
<1>6. PICK ns : ns = b.nodes /\ Len(ns) = n
  <2>1. b.nodes = [i \in 1..n |-> g[i - 1]] BY <1>4, <1>5
  <2>2. Len([i \in 1..n |-> g[i - 1]]) = n OBVIOUS
  <2>3. QED BY <2>1, <2>2
<1>7. to_bytes(b) = [leaf_count |-> leaves, padded_leaf_count |-> padded, node_count |-> n, nodes |-> ns]
  <2>1. b.leaf_count = leaves /\ b.padded_leaf_count = padded BY <1>4
  <2>2. QED BY <1>6, <2>1 DEF to_bytes
<1>8. CASE t = to_bytes(build(d))
  <2>1. t.leaf_count = leaves /\ t.padded_leaf_count = padded /\ t.nodes = ns BY <1>3, <1>7, <1>8
  <2>2. from_bytes(t) = [leaf_count |-> leaves, padded_leaf_count |-> padded, nodes |-> ns] BY <2>1 DEF from_bytes
  <2>3. from_bytes(t) = b BY <1>4, <1>6, <2>2
  <2>4. QED BY <1>3, <2>3 DEF IsTree
<1>9. CASE t = [to_bytes(build(d)) EXCEPT !.nodes = Front(@)]
  <2>1. t.nodes = Front(ns) /\ t.node_count = n BY <1>3, <1>7, <1>9
  <2>2. Len(Front(ns)) = n - 1
    <3>1. Front(ns) = SubSeq(ns, 1, n - 1) BY <1>6 DEF Front
    <3>2. Len(SubSeq(ns, 1, n - 1)) = n - 1 BY <1>5
    <3>3. QED BY <3>1, <3>2
  <2>3. QED BY <1>5, <2>1, <2>2 DEF WellFormed
<1>10. QED BY <1>1, <1>8, <1>9

LEMMA load_pinnedInv == ASSUME IInv, load_pinned PROVE IInv'
<1>1. /\ job = None /\ layer = NoLayer
      /\ UNCHANGED <<disk, job, mfile, tfile, readers, scan, range, steady, mods, builds, calls>>
  BY DEF load_pinned
<1>2. PICK t, m : t = from_bytes(tfile) /\ m = mfile OBVIOUS
<1>3. GoodManifest(m) /\ IsTree(t) /\ root_hash(t) = m.root_hash
  <2>1. TreeFile(tfile) /\ WellFormed(tfile) /\ GoodManifest(mfile) BY DEF load_pinned, IInv, FileInv
  <2>2. QED BY <1>2, <2>1, LoadTree DEF load_pinned
<1>4. PICK l : l = [tree |-> t, manifest |-> m, root_hash |-> m.root_hash, on_failure |-> "Reject",
                    cache_enabled |-> FALSE, pinned |-> TRUE]
  OBVIOUS
<1>5. layer' = l /\ cache' = {}
  <2>1. layer' = Pinned(VerifiedLayerVfs(t, m, m.root_hash, "Reject", TRUE)) /\ cache' = {} BY <1>2 DEF load_pinned
  <2>2. PICK v : v = [tree |-> t, manifest |-> m, root_hash |-> m.root_hash, on_failure |-> "Reject",
                      cache_enabled |-> TRUE, pinned |-> TRUE]
    OBVIOUS
  <2>3. layer' = [v EXCEPT !.cache_enabled = FALSE] BY <2>1, <2>2 DEF Pinned, VerifiedLayerVfs
  <2>4. QED BY <1>4, <2>1, <2>2, <2>3
<1>6. l.tree = t /\ l.manifest = m /\ l.root_hash = m.root_hash /\ l.on_failure = "Reject" /\ ~l.cache_enabled BY <1>4
<1>7. LayerOK(l, scan'.for) BY <1>3, <1>6 DEF LayerOK
<1>8. l # NoLayer BY <1>6 DEF NoLayer
<1>9. ScanInv' BY <1>1 DEF IInv, LayerInv, ScanInv
<1>10. QED BY <1>1, <1>5, <1>7, <1>8, <1>9, MountFrame

LEMMA FinishVerifyInv == ASSUME IInv, FinishVerify PROVE IInv'
<1>1. /\ Built /\ Building /\ job' = None /\ mfile' = mfile /\ tfile' = tfile /\ job.for = "verify"
      /\ UNCHANGED <<disk, steady, readers, range, mods, builds, calls>>
  BY DEF FinishVerify, Built, Building
<1>2. PICK t, m : t = Tree /\ m = Manifest OBVIOUS
<1>3. /\ IsTree(t) /\ GoodManifest(m) /\ root_hash(t) = m.root_hash /\ scan = NoScan /\ layer = NoLayer
      /\ m.files = job.files /\ job # None /\ \A r \in Readers : readers[r] = None
  BY <1>1, <1>2, BuiltFacts
<1>4. JobOK(job, disk, mfile) /\ (steady => AsOn(disk, job.files, << >>))
  <2>1. JobOK(job, disk, mfile) /\ job.builder = "vfs" BY <1>1, <1>3 DEF IInv, JobInv, JobOK
  <2>2. job.todo = << >> BY <1>1 DEF Built
  <2>3. QED BY <1>3, <2>1, <2>2 DEF IInv, JobInv
<1>5. CASE UNCHANGED <<layer, cache, scan>>
  <2>1. JobInv' BY <1>1 DEF JobInv
  <2>2. FileInv' BY <1>1 DEF IInv, FileInv
  <2>3. QED BY <1>1, <1>5, <2>1, <2>2, BuildFrame
<1>6. CASE ~(root_hash(t) # ExpectedRoot /\ ~job.warn)
  <2>1. PICK f \in {"Reject", "Warn"} : f = IF job.warn THEN "Warn" ELSE "Reject" OBVIOUS
  <2>2. layer' = VerifiedLayerVfs(t, m, mfile.root_hash, f, FALSE) /\ cache' = {} /\ scan' = FullCheck("verify")
    BY <1>2, <1>6, <2>1 DEF FinishVerify, ExpectedRoot
  <2>3. PICK l : l = [tree |-> t, manifest |-> m, root_hash |-> mfile.root_hash, on_failure |-> f,
                      cache_enabled |-> TRUE, pinned |-> FALSE]
    OBVIOUS
  <2>4. layer' = l /\ cache' = {} BY <2>2, <2>3 DEF VerifiedLayerVfs
  <2>5. l.tree = t /\ l.manifest = m /\ l.root_hash = mfile.root_hash /\ l.on_failure = f /\ ~l.pinned BY <2>3
  <2>6. f = "Reject" => l.root_hash = m.root_hash BY <1>3, <1>6, <2>1, <2>5 DEF ExpectedRoot
  <2>7. PICK s : s = StartScan("verify", m.files) OBVIOUS
  <2>8. scan' = s BY <2>2, <2>4, <2>5, <2>7 DEF FullCheck, StartScan
  <2>9. s.for = "verify" BY <2>7 DEF StartScan
  <2>10. LayerOK(l, scan'.for) BY <1>3, <2>5, <2>6, <2>8, <2>9 DEF LayerOK
  <2>11. l # NoLayer BY <2>5 DEF NoLayer
  <2>12. disk \in [Files -> Contents \cup {Absent}] BY DEF IInv, DiskInv
  <2>13. s \in ScanType /\ ScanOK(s, disk, l) BY <1>3, <2>5, <2>7, <2>12, ScanStarts
  <2>14. VerifyOK(l, mfile, disk, steady)
    <3>1. mfile \notin {None, Torn} BY <1>1, <1>4 DEF JobOK
    <3>2. QED BY <1>3, <1>4, <2>5, <3>1 DEF VerifyOK
  <2>15. ScanInv' BY <1>1, <1>3, <2>4, <2>5, <2>8, <2>9, <2>13, <2>14 DEF ScanInv
  <2>16. QED BY <1>1, <1>3, <2>4, <2>10, <2>11, <2>15, MountFrame
<1>7. QED BY <1>2, <1>5, <1>6 DEF FinishVerify

(***************************************************************************)
(* full_check.                                                             *)
(***************************************************************************)

LEMMA LayerTrusts ==
  ASSUME NEW l, NEW for, LayerOK(l, for), l.root_hash = l.manifest.root_hash,
         NEW e, EntryOf(e, l.manifest.files),
         NEW k \in Nat, k < BlocksOf(Len(e.content_hash)), NEW blk
  PROVE  verify_block(l.tree, e.block_range[1] + k, blk, l.root_hash) <=> Padded(blk) = Padded(Block(e.content_hash, k))
<1>1. PICK d \in Seq(Nat) : l.tree = build(d) BY DEF LayerOK, IsTree
<1>2. PICK files, data, root : /\ files = l.manifest.files /\ data = Flat(files) /\ root = l.root_hash
                               /\ GoodBlob(files, data) /\ root_hash(build(data)) = root
  BY DEF LayerOK, GoodManifest
<1>3. root_hash(build(d)) = root BY <1>1, <1>2 DEF LayerOK
<1>4. EntryOf(e, files) BY <1>2
<1>5. verify_block(build(d), e.block_range[1] + k, blk, root) <=> Padded(blk) = Padded(Block(e.content_hash, k))
  <2>1. RootOf(root, d, files, data) BY <1>2, <1>3 DEF RootOf
  <2>2. QED BY <1>4, <2>1, EntryChecked
<1>6. QED BY <1>1, <1>2, <1>5

\* A layer with the manifest's root accepts the blocks of the manifest and no others.
LEMMA LayerChecks ==
  ASSUME NEW l, NEW for, LayerOK(l, for), l.root_hash = l.manifest.root_hash, NEW b \in Nat, NEW blk
  PROVE  verify_block(l.tree, b, blk, l.root_hash) <=> FitsIn(l.manifest.files, b, blk)
<1>1. PICK d \in Seq(Nat) : l.tree = build(d) BY DEF LayerOK, IsTree
<1>2. PICK files, data, root : /\ files = l.manifest.files /\ data = Flat(files) /\ root = l.root_hash
                               /\ GoodBlob(files, data) /\ root_hash(build(data)) = root
  BY DEF LayerOK, GoodManifest
<1>3. root_hash(build(d)) = root BY <1>1, <1>2 DEF LayerOK
<1>4. verify_block(build(d), b, blk, root) <=>
         b < BlocksOf(Len(Image(files))) /\ Padded(blk) = Block(Image(files), b)
  BY <1>2, <1>3, ImageChecked
<1>5. QED BY <1>1, <1>2, <1>4 DEF FitsIn

\* A layer with another root than its manifest's accepts no block of its manifest.
LEMMA LayerRefuses ==
  ASSUME NEW l, NEW for, LayerOK(l, for), l.root_hash # l.manifest.root_hash, NEW b \in Nat, NEW blk,
         FitsIn(l.manifest.files, b, blk)
  PROVE  ~verify_block(l.tree, b, blk, l.root_hash)
<1>1. PICK d \in Seq(Nat) : l.tree = build(d) BY DEF LayerOK, IsTree
<1>2. PICK files, data, root : /\ files = l.manifest.files /\ data = Flat(files) /\ root = l.manifest.root_hash
                               /\ GoodBlob(files, data) /\ root_hash(build(data)) = root
  BY DEF LayerOK, GoodManifest
<1>3. root_hash(build(d)) = root BY <1>1, <1>2 DEF LayerOK
<1>4. verify_block(build(d), b, blk, root) BY <1>2, <1>3, ImageChecked DEF FitsIn
<1>5. PICK h : h = Climb(build(d), build(d).padded_leaf_count - 1 + b, hash_block(blk))[build(d).padded_leaf_count - 1 + b].hash
  OBVIOUS
<1>6. h = root BY <1>4, <1>5 DEF verify_block
<1>7. verify_block(build(d), b, blk, l.root_hash) => h = l.root_hash BY <1>5 DEF verify_block
<1>8. QED BY <1>1, <1>2, <1>6, <1>7

\* The blocks of an entry's content are the manifest's at the entry's place.
LEMMA OwnFits ==
  ASSUME NEW m, GoodManifest(m), NEW e, EntryOf(e, m.files), NEW k \in Nat, k < BlocksOf(Len(e.content_hash))
  PROVE  FitsIn(m.files, e.block_range[1] + k, Block(e.content_hash, k))
<1>1. PICK files, data, root : /\ files = m.files /\ data = Flat(files) /\ GoodBlob(files, data)
                               /\ root = root_hash(build(data))
  BY DEF GoodManifest
<1>2. data \in Seq(Nat) /\ RootOf(root, data, files, data) BY <1>1 DEF GoodBlob, RootOf
<1>3. PICK blk : blk = Block(e.content_hash, k) OBVIOUS
<1>4. PICK b \in Nat : b = e.block_range[1] + k
  <2>1. PICK i \in 1..Len(files) : e = files[i] BY <1>1 DEF EntryOf
  <2>2. files \in Seq(FileEntry) BY <1>1 DEF GoodBlob
  <2>3. e \in FileEntry BY <2>1, <2>2, ElementOfSeq
  <2>4. e.block_range[1] \in Nat BY <2>3 DEF FileEntry
  <2>5. QED BY <2>4
<1>5. verify_block(build(data), e.block_range[1] + k, blk, root) BY <1>1, <1>2, <1>3, EntryChecked
<1>6. verify_block(build(data), b, blk, root) BY <1>4, <1>5
<1>7. b < BlocksOf(Len(Image(files))) /\ Padded(blk) = Block(Image(files), b) BY <1>1, <1>2, <1>6, ImageChecked
<1>8. QED BY <1>1, <1>3, <1>4, <1>7 DEF FitsIn

LEMMA LeafCountType ==
  ASSUME NEW l, NEW for, LayerOK(l, for)
  PROVE  l.tree.leaf_count \in Nat
<1>1. PICK d \in Seq(Nat) : l.tree = build(d) BY DEF LayerOK, IsTree
<1>2. PICK g, leaves, padded : TreeFacts(build(d), g, d, leaves, padded) BY BuildFacts
<1>3. QED BY <1>1, <1>2 DEF TreeFacts

LEMMA Marks ==
  ASSUME LayerInv, layer # NoLayer, NEW s, s \subseteq Nat
  PROVE  cache \cup Mark(s) \subseteq 0..layer.tree.leaf_count - 1
<1>1. layer.tree.leaf_count \in Nat BY LeafCountType DEF LayerInv
<1>2. Mark(s) \subseteq 0..layer.tree.leaf_count - 1
  <2>1. PICK n \in Nat : n = layer.tree.leaf_count BY <1>1
  <2>2. \A b \in Mark(s) : b \in Nat /\ b < n BY <2>1 DEF Mark
  <2>3. \A b \in Nat : b < n => b \in 0..n - 1 OBVIOUS
  <2>4. QED BY <2>1, <2>2, <2>3
<1>3. QED BY <1>2 DEF LayerInv

LEMMA ScanHead ==
  ASSUME NEW s \in ScanType, NEW d, NEW l, NEW files \in Seq(FileEntry), NEW i, NEW j,
         ScanAt(s, d, l, files, i, j), s.todo # << >>
  PROVE  i \in 1..Len(files) /\ Head(s.todo) = files[i] /\ files[i] \in FileEntry
<1>1. PICK todo \in Seq(FileEntry) : todo = s.todo BY DEF ScanType
<1>2. Len(todo) \in Nat /\ Len(todo) # 0 /\ Len(files) \in Nat BY <1>1, LenProperties, EmptySeq
<1>3. i \in 1..Len(files) BY <1>1, <1>2 DEF ScanAt
<1>4. Head(todo) = todo[1] /\ 1 \in 1..Len(todo) BY <1>1, <1>2
<1>5. i - 1 + 1 = i BY <1>2, <1>3
<1>6. todo[1] = files[i - 1 + 1] BY <1>1, <1>4 DEF ScanAt
<1>7. QED BY <1>1, <1>3, <1>4, <1>5, <1>6, ElementOfSeq

\* What the scan reads: the next block.
Reads(s, f, data) ==
    \/ s.eof /\ data = << >>
    \/ ~s.eof /\ data = Slice(f, s.pos, s.pos + BlockSize) /\ data # << >>

LEMMA ScanData ==
  ASSUME NEW s, NEW e, NEW f \in Seq(Nat), f # Absent, NEW j \in Nat, InFile(s, e, f, j), NEW data, Reads(s, f, data)
  PROVE  /\ data = Block(f, j)
         /\ ~s.eof => /\ j < BlocksOf(Len(f))
                      /\ s.pos + Len(data) = IF (j + 1) * BlockSize <= Len(f) THEN (j + 1) * BlockSize ELSE Len(f)
<1>1. PICK len \in Nat : len = Len(f) BY LenProperties
<1>2. PICK a \in Nat : a = j * BlockSize /\ (j + 1) * BlockSize = a + BlockSize BY Times
<1>3. BlocksOf(len) \in Nat /\ (j < BlocksOf(len) <=> a < len) BY <1>2, BlocksOfIs, BlocksType
<1>4. PICK b \in Seq(Nat) : b = Block(f, j) /\ Len(b) = InBlock(len, j) BY <1>1, BlockType
<1>5. InBlock(len, j) = IF a + BlockSize <= len THEN BlockSize ELSE IF a <= len THEN len - a ELSE 0 BY <1>2 DEF InBlock
<1>6. BlockSize \in Nat /\ BlockSize > 0 BY BlockSizeAssumption
<1>7. CASE s.eof
  <2>1. j >= BlocksOf(len) BY <1>1, <1>7 DEF InFile
  <2>2. ~(a < len) BY <1>3, <2>1
  <2>3. Len(b) = 0 BY <1>4, <1>5, <1>6, <2>2
  <2>4. b = << >> BY <2>3, EmptySeq
  <2>5. QED BY <1>4, <1>7, <2>4 DEF Reads
<1>8. CASE ~s.eof
  <2>1. s.pos = IF a <= len THEN a ELSE len BY <1>1, <1>2, <1>8 DEF InFile
  <2>2. CASE a <= len
    <3>1. Slice(f, a, a + BlockSize) = b BY <1>2, <1>4 DEF Block
    <3>2. data = b /\ b # << >> BY <1>8, <2>1, <2>2, <3>1 DEF Reads
    <3>3. Len(b) # 0 BY <3>2, EmptySeq
    <3>4. a < len BY <1>4, <1>5, <1>6, <2>2, <3>3
    <3>5. a + Len(b) = IF a + BlockSize <= len THEN a + BlockSize ELSE len BY <1>4, <1>5, <1>6, <2>2
    <3>6. QED BY <1>1, <1>2, <1>3, <1>4, <2>1, <2>2, <3>2, <3>4, <3>5
  <2>3. CASE ~(a <= len)
    <3>1. s.pos = len BY <2>1, <2>3
    <3>2. Slice(f, len, len + BlockSize) = << >>
      <4>1. PICK to \in Nat : to = len + BlockSize /\ to >= len BY <1>6
      <4>2. Slice(f, len, to) = << >> BY <1>1, <4>1, SliceEnd
      <4>3. QED BY <4>1, <4>2
    <3>3. QED BY <1>8, <3>1, <3>2 DEF Reads
  <2>4. QED BY <2>2, <2>3
<1>9. QED BY <1>7, <1>8

LEMMA ScanEof ==
  ASSUME NEW s, NEW e, NEW f \in Seq(Nat), f # Absent, NEW j \in Nat, InFile(s, e, f, j),
         ~s.eof, Slice(f, s.pos, s.pos + BlockSize) = << >>
  PROVE  j >= BlocksOf(Len(f))
<1>1. PICK len \in Nat : len = Len(f) BY LenProperties
<1>2. PICK a \in Nat : a = j * BlockSize /\ (j + 1) * BlockSize = a + BlockSize BY Times
<1>3. BlocksOf(len) \in Nat /\ (j < BlocksOf(len) <=> a < len) BY <1>2, BlocksOfIs, BlocksType
<1>4. PICK b \in Seq(Nat) : b = Block(f, j) /\ Len(b) = InBlock(len, j) BY <1>1, BlockType
<1>5. InBlock(len, j) = IF a + BlockSize <= len THEN BlockSize ELSE IF a <= len THEN len - a ELSE 0 BY <1>2 DEF InBlock
<1>6. BlockSize \in Nat /\ BlockSize > 0 BY BlockSizeAssumption
<1>7. s.pos = IF a <= len THEN a ELSE len BY <1>1, <1>2 DEF InFile
<1>8. ASSUME a < len PROVE FALSE
  <2>1. Slice(f, a, a + BlockSize) = b BY <1>2, <1>4 DEF Block
  <2>2. b = << >> BY <1>7, <1>8, <2>1
  <2>3. Len(b) = 0 BY <2>2
  <2>4. QED BY <1>4, <1>5, <1>6, <1>8, <2>3
<1>9. QED BY <1>1, <1>3, <1>8

\* One more block of a file.
LEMMA OneMore ==
  ASSUME NEW l, NEW e, NEW f, NEW j \in Nat
  PROVE  GoodUpTo(l, e, f, j + 1) <=> GoodUpTo(l, e, f, j) /\ Accepts(l, e.block_range[1] + j, Block(f, j))
<1>1. \A k \in Nat : k < j + 1 <=> k < j \/ k = j OBVIOUS
<1>2. QED BY <1>1 DEF GoodUpTo

LEMMA NeedsType ==
  ASSUME NEW e \in FileEntry, NEW f \in Seq(Nat)
  PROVE  \E nf, nc, n \in Nat : /\ nf = BlocksOf(Len(f)) /\ nc = BlocksOf(Len(e.content_hash)) /\ n = Needs(e, f)
                                /\ n = IF nf >= nc THEN nf ELSE nc
<1>1. PICK nf, nc \in Nat : nf = BlocksOf(Len(f)) /\ nc = BlocksOf(Len(e.content_hash))
  BY ContentType, LenProperties, BlocksType
<1>2. Needs(e, f) = IF nf >= nc THEN nf ELSE nc BY <1>1 DEF Needs
<1>3. QED BY <1>1, <1>2

\* Before the end of a file and of its range, a block that is looked at is among those full_check needs.
LEMMA StillInside ==
  ASSUME NEW s, NEW e \in FileEntry, NEW f \in Seq(Nat), f # Absent, NEW j \in Nat, InFile(s, e, f, j),
         e.block_range[2] = e.block_range[1] + BlocksOf(Len(e.content_hash)),
         ~(s.eof /\ s.block_idx >= e.block_range[2])
  PROVE  s.eof => j < BlocksOf(Len(e.content_hash))
<1>1. PICK st \in Nat : st = e.block_range[1] BY DEF FileEntry
<1>2. PICK nc \in Nat : nc = BlocksOf(Len(e.content_hash)) BY NeedsType
<1>3. s.block_idx = st + j /\ e.block_range[2] = st + nc BY <1>1, <1>2 DEF InFile
<1>4. s.eof => ~(st + j >= st + nc) BY <1>3
<1>5. QED BY <1>2, <1>4

\* One block checked.
LEMMA ScanChecks ==
  ASSUME NEW s \in ScanType, NEW d \in [Files -> Contents \cup {Absent}], NEW l, NEW files \in Seq(FileEntry), NEW i, NEW j,
         ScanAt(s, d, l, files, i, j), s.todo # << >>,
         NEW e, e = Head(s.todo), e.block_range[2] = e.block_range[1] + BlocksOf(Len(e.content_hash)),
         NEW f, f = FollowIn(d, e.path), f # Absent, ~(s.eof /\ s.block_idx >= e.block_range[2]),
         NEW data, Reads(s, f, data),
         NEW t \in BOOLEAN, t <=> Accepts(l, e.block_range[1] + j, data),
         NEW s2, s2 = [s EXCEPT !.pos = @ + Len(data), !.block_idx = @ + 1, !.failed = @ + (IF t THEN 0 ELSE 1)]
  PROVE  s2 \in ScanType /\ ScanAt(s2, d, l, files, i, j + 1)
<1>1. i \in 1..Len(files) /\ e = files[i] /\ e \in FileEntry BY ScanHead
<1>2. j \in Nat /\ InFile(s, e, f, j) /\ Len(files) \in Nat BY <1>1, LenProperties DEF ScanAt
<1>3. f \in Seq(Nat) BY <1>1, ContentType, FollowType
<1>4. PICK n \in Nat : n = Len(data)
  <2>1. data = Block(f, j) BY <1>2, <1>3, ScanData
  <2>2. QED BY <1>2, <1>3, <2>1, BlockType, LenProperties
<1>5. /\ data = Block(f, j)
      /\ ~s.eof => /\ j < BlocksOf(Len(f))
                   /\ s.pos + n = IF (j + 1) * BlockSize <= Len(f) THEN (j + 1) * BlockSize ELSE Len(f)
  BY <1>2, <1>3, <1>4, ScanData
<1>6. /\ s.pos \in Nat /\ s.block_idx \in Nat /\ s.failed \in Nat /\ s.eof \in BOOLEAN BY DEF ScanType
<1>7. /\ s2 \in ScanType /\ s2.todo = s.todo /\ s2.eof = s.eof /\ s2.pos = s.pos + n
      /\ s2.block_idx = s.block_idx + 1 /\ s2.failed = s.failed + (IF t THEN 0 ELSE 1)
  <2>1. PICK inc \in Nat : inc = IF t THEN 0 ELSE 1 OBVIOUS
  <2>2. PICK a \in Nat, b \in Nat, c \in Nat : a = s.pos + n /\ b = s.block_idx + 1 /\ c = s.failed + inc BY <1>6, <2>1
  <2>3. s2 = [s EXCEPT !.pos = a, !.block_idx = b, !.failed = c] BY <1>4, <2>1, <2>2
  <2>4. s2 \in ScanType /\ s2.todo = s.todo /\ s2.eof = s.eof /\ s2.pos = a /\ s2.block_idx = b /\ s2.failed = c
    BY <2>3 DEF ScanType
  <2>5. QED BY <2>1, <2>2, <2>4
<1>8. s2.failed = 0 <=> s.failed = 0 /\ t BY <1>6, <1>7
<1>9. PICK st \in Nat : st = e.block_range[1] BY <1>1 DEF FileEntry
<1>10. PICK nf, nc, need \in Nat : /\ nf = BlocksOf(Len(f)) /\ nc = BlocksOf(Len(e.content_hash)) /\ need = Needs(e, f)
                                   /\ need = IF nf >= nc THEN nf ELSE nc
  BY <1>1, <1>3, NeedsType
<1>11. s.eof => j < nc BY <1>1, <1>2, <1>3, <1>10, StillInside
<1>12. InFile(s2, e, f, j + 1)
  <2>1. s2.block_idx = e.block_range[1] + (j + 1)
    <3>1. s.block_idx = st + j BY <1>2, <1>9 DEF InFile
    <3>2. s2.block_idx = st + j + 1 BY <1>7, <3>1
    <3>3. st + j + 1 = st + (j + 1) BY <1>2
    <3>4. QED BY <1>9, <3>2, <3>3
  <2>2. s.eof => j >= nf BY <1>2, <1>10 DEF InFile
  <2>3. s2.eof => j + 1 >= nf /\ j + 1 <= need BY <1>2, <1>7, <1>10, <1>11, <2>2
  <2>4. ~s2.eof => j + 1 <= nf BY <1>2, <1>5, <1>7, <1>10
  <2>5. QED BY <1>5, <1>7, <1>10, <2>1, <2>3, <2>4 DEF InFile
<1>13. s2.failed = 0 <=> GoodSoFar(d, l, files, i, j + 1)
  <2>1. s.failed = 0 <=> GoodSoFar(d, l, files, i, j) BY DEF ScanAt
  <2>2. GoodUpTo(l, e, f, j + 1) <=> GoodUpTo(l, e, f, j) /\ t BY <1>2, <1>5, OneMore
  <2>3. i <= Len(files) BY <1>1, <1>2
  <2>4. QED BY <1>1, <1>8, <2>1, <2>2, <2>3 DEF GoodSoFar
<1>14. ScanAt(s2, d, l, files, i, j + 1)
  <2>1. j + 1 \in Nat /\ i \in 1..Len(files) + 1 BY <1>1, <1>2
  <2>2. Len(s2.todo) = Len(files) + 1 - i /\ \A x \in 1..Len(s2.todo) : s2.todo[x] = files[i - 1 + x] BY <1>7 DEF ScanAt
  <2>3. InFile(s2, files[i], FollowIn(d, files[i].path), j + 1) BY <1>1, <1>12
  <2>4. \A x \in 1..i - 1 : FollowIn(d, files[x].path) # Absent BY DEF ScanAt
  <2>5. QED BY <1>13, <2>1, <2>2, <2>3, <2>4 DEF ScanAt
<1>15. QED BY <1>7, <1>14

\* The end of a file found.
LEMMA ScanFinds ==
  ASSUME NEW s \in ScanType, NEW d \in [Files -> Contents \cup {Absent}], NEW l, NEW files \in Seq(FileEntry), NEW i, NEW j,
         ScanAt(s, d, l, files, i, j), s.todo # << >>, ~s.eof,
         NEW f, f = FollowIn(d, Head(s.todo).path), f # Absent, Slice(f, s.pos, s.pos + BlockSize) = << >>,
         NEW s2, s2 = [s EXCEPT !.eof = TRUE]
  PROVE  s2 \in ScanType /\ ScanAt(s2, d, l, files, i, j)
<1>1. PICK e : i \in 1..Len(files) /\ e = files[i] /\ e \in FileEntry /\ f = FollowIn(d, e.path) BY ScanHead
<1>2. j \in Nat /\ InFile(s, e, f, j) /\ Len(files) \in Nat BY <1>1, LenProperties DEF ScanAt
<1>3. f \in Seq(Nat) BY <1>1, ContentType, FollowType
<1>4. j >= BlocksOf(Len(f)) BY <1>2, <1>3, ScanEof
<1>5. /\ s2 \in ScanType /\ s2.todo = s.todo /\ s2.eof = TRUE /\ s2.pos = s.pos
      /\ s2.block_idx = s.block_idx /\ s2.failed = s.failed
  BY DEF ScanType
<1>6. InFile(s2, e, f, j)
  <2>1. PICK nf, nc, need \in Nat : /\ nf = BlocksOf(Len(f)) /\ nc = BlocksOf(Len(e.content_hash)) /\ need = Needs(e, f)
                                    /\ need = IF nf >= nc THEN nf ELSE nc
    BY <1>1, <1>3, NeedsType
  <2>2. j <= nf BY <1>2, <2>1 DEF InFile
  <2>3. j <= need BY <1>2, <2>1, <2>2
  <2>4. QED BY <1>2, <1>4, <1>5, <2>1, <2>3 DEF InFile
<1>7. ScanAt(s2, d, l, files, i, j) BY <1>1, <1>5, <1>6 DEF ScanAt
<1>8. QED BY <1>5, <1>7

\* ScanAt at the start of file i, with the two lengths named.
StartsAt(s, d, l, files, i, n, m) ==
    /\ i \in 1..n + 1 /\ m = n + 1 - i
    /\ \A x \in 1..m : s.todo[x] = files[i - 1 + x]
    /\ \A x \in 1..i - 1 : FollowIn(d, files[x].path) # Absent
    /\ i <= n => InFile(s, files[i], FollowIn(d, files[i].path), 0)
    /\ s.failed = 0 <=> \A x \in 1..i - 1 : GoodFile(l, d, files[x])

LEMMA ScanAtIs ==
  ASSUME NEW s, NEW d, NEW l, NEW files, NEW i, StartsAt(s, d, l, files, i, Len(files), Len(s.todo))
  PROVE  ScanAt(s, d, l, files, i, 0)
<1>1. \A e, f : GoodUpTo(l, e, f, 0) BY DEF GoodUpTo
<1>2. QED BY <1>1 DEF ScanAt, StartsAt, GoodSoFar

LEMMA OneLess ==
  ASSUME NEW i \in Nat, NEW n \in Nat, NEW m \in Nat, m + 1 = n + 1 - i, i >= 1, i <= n
  PROVE  i + 1 \in 1..n + 1 /\ m = n + 1 - (i + 1)
OBVIOUS

NextFile(s, todo) == [s EXCEPT !.todo = todo, !.pos = 0, !.eof = FALSE,
                               !.block_idx = IF todo = << >> THEN @ ELSE todo[1].block_range[1]]

\* On to the next file.
LEMMA ScanMoves ==
  ASSUME NEW s \in ScanType, NEW d \in [Files -> Contents \cup {Absent}], NEW l, NEW files \in Seq(FileEntry), NEW i, NEW j,
         ScanAt(s, d, l, files, i, j), s.todo # << >>,
         NEW e, e = Head(s.todo), e.block_range[2] = e.block_range[1] + BlocksOf(Len(e.content_hash)),
         s.eof, s.block_idx >= e.block_range[2],
         NEW todo, todo = Tail(s.todo),
         NEW s2, s2 = NextFile(s, todo)
  PROVE  ScanAt(s2, d, l, files, i + 1, 0)
<1>1. i \in 1..Len(files) /\ e = files[i] /\ e \in FileEntry BY ScanHead
<1>2. PICK f : f = FollowIn(d, e.path) /\ InFile(s, e, f, j) /\ f # Absent
  <2>1. PICK f : f = FollowIn(d, e.path) /\ InFile(s, e, f, j) BY <1>1, LenProperties DEF ScanAt
  <2>2. QED BY <2>1 DEF InFile
<1>3. PICK old \in Seq(FileEntry) : old = s.todo BY DEF ScanType
<1>4. PICK n \in Nat : n = Len(files) BY LenProperties
<1>5. PICK m \in Nat : m = Len(todo) /\ todo \in Seq(FileEntry) /\ Len(old) = m + 1
  <2>1. Len(old) \in Nat /\ todo \in Seq(FileEntry) /\ Len(todo) = Len(old) - 1 BY <1>3, LenProperties, HeadTailProperties
  <2>2. Len(todo) \in Nat BY <2>1, LenProperties
  <2>3. Len(old) = Len(todo) + 1 BY <2>1
  <2>4. QED BY <2>1, <2>2, <2>3
<1>6. \A x \in 1..m : todo[x] = old[x + 1] BY <1>3, <1>5, HeadTailProperties
<1>7. m + 1 = n + 1 - i BY <1>3, <1>4, <1>5 DEF ScanAt
<1>8. /\ s2.todo = todo /\ s2.pos = 0 /\ s2.eof = FALSE /\ s2.failed = s.failed
      /\ s2.block_idx = IF todo = << >> THEN s.block_idx ELSE todo[1].block_range[1]
  BY DEF ScanType, NextFile
<1>9. ASSUME NEW x \in 1..m PROVE todo[x] = files[(i + 1) - 1 + x]
  <2>1. x + 1 \in 1..Len(old) /\ i - 1 + (x + 1) = (i + 1) - 1 + x
    <3>1. i \in Nat BY <1>1, <1>4
    <3>2. x \in Nat /\ x + 1 \in 1..m + 1 OBVIOUS
    <3>3. \A u, v \in Nat : u - 1 + (v + 1) = (u + 1) - 1 + v OBVIOUS
    <3>4. QED BY <1>5, <3>1, <3>2, <3>3
  <2>2. old[x + 1] = files[i - 1 + (x + 1)] BY <1>3, <2>1 DEF ScanAt
  <2>3. QED BY <1>6, <2>1, <2>2
<1>10. f \in Seq(Nat) BY <1>1, <1>2, ContentType, FollowType
<1>11. PICK nf, nc, need \in Nat : /\ nf = BlocksOf(Len(f)) /\ nc = BlocksOf(Len(e.content_hash)) /\ need = Needs(e, f)
                                   /\ need = IF nf >= nc THEN nf ELSE nc
  BY <1>1, <1>10, NeedsType
<1>12. j = need
  <2>1. PICK st \in Nat : st = e.block_range[1] BY <1>1 DEF FileEntry
  <2>2. s.block_idx = st + j /\ e.block_range[2] = st + nc /\ j \in Nat BY <1>2, <1>11, <2>1 DEF InFile, ScanAt
  <2>3. j >= nc BY <2>1, <2>2
  <2>4. j >= nf /\ j <= need BY <1>2, <1>11 DEF InFile
  <2>5. QED BY <1>11, <2>2, <2>3, <2>4
<1>13. s2.failed = 0 <=> \A x \in 1..(i + 1) - 1 : GoodFile(l, d, files[x])
  <2>1. i \in Nat /\ i <= n /\ Len(files) = n BY <1>1, <1>4
  <2>2. s.failed = 0 <=> (\A x \in 1..i - 1 : GoodFile(l, d, files[x])) /\ GoodUpTo(l, e, f, j)
    BY <1>1, <1>2, <2>1 DEF ScanAt, GoodSoFar
  <2>3. GoodUpTo(l, e, f, j) <=> GoodFile(l, d, files[i]) BY <1>1, <1>2, <1>11, <1>12 DEF GoodFile
  <2>4. \A x : x \in 1..(i + 1) - 1 <=> x \in 1..i - 1 \/ x = i BY <1>1, <2>1
  <2>5. (\A x \in 1..(i + 1) - 1 : GoodFile(l, d, files[x])) <=>
           (\A x \in 1..i - 1 : GoodFile(l, d, files[x])) /\ GoodFile(l, d, files[i])
    BY <2>4
  <2>6. QED BY <1>8, <2>2, <2>3, <2>5
<1>14. ASSUME i + 1 <= n PROVE InFile(s2, files[i + 1], FollowIn(d, files[i + 1].path), 0)
  <2>1. 1 \in 1..m /\ (i + 1) - 1 + 1 = i + 1 /\ i + 1 \in 1..n BY <1>1, <1>4, <1>7, <1>14
  <2>2. PICK e2 \in FileEntry : e2 = files[i + 1] BY <1>4, <2>1, ElementOfSeq
  <2>3. todo[1] = e2
    <3>1. todo[1] = files[(i + 1) - 1 + 1] BY <1>9, <2>1
    <3>2. (i + 1) - 1 + 1 = i + 1 BY <2>1
    <3>3. QED BY <2>2, <3>1, <3>2, Zenon
  <2>4. todo # << >>
    <3>1. m # 0
      <4>1. 1 \in 1..m BY <2>1
      <4>2. QED BY ONLY <4>1, m \in Nat
    <3>2. Len(todo) # 0 BY <1>5, <3>1
    <3>3. QED BY <1>5, <3>2, EmptySeq
  <2>5. s2.block_idx = e2.block_range[1] + 0
    <3>1. e2.block_range[1] \in Nat BY <2>2 DEF FileEntry
    <3>2. s2.block_idx = e2.block_range[1] BY <1>8, <2>3, <2>4
    <3>3. QED BY <3>1, <3>2
  <2>6. PICK f2 : f2 = FollowIn(d, e2.path) OBVIOUS
  <2>7. f2 # Absent => f2 \in Seq(Nat) BY <2>2, <2>6, ContentType, FollowType
  <2>8. f2 # Absent => Len(f2) \in Nat /\ BlocksOf(Len(f2)) \in Nat BY <2>7, LenProperties, BlocksType
  <2>9. 0 * BlockSize = 0 BY BlockSizeAssumption
  <2>10. InFile(s2, e2, f2, 0)
    <3>1. s2.eof = FALSE /\ s2.pos = 0 BY <1>8
    <3>2. PICK u : u = s2 /\ u.eof = FALSE /\ u.pos = 0 /\ u.block_idx = e2.block_range[1] + 0 BY <2>5, <3>1
    <3>3. InFile(u, e2, f2, 0) BY <2>8, <2>9, <3>2 DEF InFile
    <3>4. QED BY <3>2, <3>3
  <2>11. QED BY <2>2, <2>6, <2>10
<1>15. i + 1 \in 1..n + 1 /\ m = n + 1 - (i + 1)
  <2>1. i \in Nat /\ i >= 1 /\ i <= n BY <1>1, <1>4
  <2>2. QED BY <1>7, <2>1, OneLess
<1>16. StartsAt(s2, d, l, files, i + 1, n, m)
  <2>1. \A x \in 1..m : s2.todo[x] = files[(i + 1) - 1 + x]
    <3>1. s2.todo = todo BY <1>8
    <3>2. \A x \in 1..m : todo[x] = files[(i + 1) - 1 + x] BY ONLY <1>9
    <3>3. QED BY ONLY <3>1, <3>2
  <2>2. \A x \in 1..(i + 1) - 1 : FollowIn(d, files[x].path) # Absent
    <3>1. \A x \in 1..i - 1 : FollowIn(d, files[x].path) # Absent BY DEF ScanAt
    <3>2. \A x \in 1..(i + 1) - 1 : x \in 1..i - 1 \/ x = i BY <1>1, <1>4
    <3>3. FollowIn(d, files[i].path) # Absent BY <1>1, <1>2
    <3>4. QED BY <3>1, <3>2, <3>3
  <2>3. QED BY <1>13, <1>14, <1>15, <2>1, <2>2 DEF StartsAt
<1>17. n = Len(files) /\ m = Len(s2.todo) BY <1>4, <1>5, <1>8
<1>18. QED BY <1>16, <1>17, ScanAtIs

LEMMA SliceType ==
  ASSUME NEW d \in Seq(Nat), NEW from \in Nat, NEW to \in Nat
  PROVE  Slice(d, from, to) \in Seq(Nat) /\ Len(Slice(d, from, to)) \in Nat
<1>1. PICK len \in Nat : len = Len(d) BY LenProperties
<1>2. PICK u \in Int : u = Min({to, len}) /\ u <= len BY MinOf
<1>3. Slice(d, from, to) = SubSeq(d, from + 1, u) BY <1>1, <1>2 DEF Slice
<1>4. \A i \in from + 1..u : d[i] \in Nat
  <2>1. \A i \in from + 1..u : i \in 1..Len(d) BY <1>1, <1>2
  <2>2. QED BY <2>1, ElementOfSeq
<1>5. SubSeq(d, from + 1, u) \in Seq(Nat)
  <2>1. PICK w \in Int : w = from + 1 OBVIOUS
  <2>2. \A i \in w..u : d[i] \in Nat BY <1>4, <2>1
  <2>3. SubSeq(d, w, u) \in Seq(Nat) BY <2>2, SubSeqProperties
  <2>4. QED BY <2>1, <2>3
<1>6. QED BY <1>3, <1>5, LenProperties

LEMMA EntryRange ==
  ASSUME NEW m, GoodManifest(m), NEW e, EntryOf(e, m.files)
  PROVE  /\ e \in FileEntry /\ m.files \in Seq(FileEntry)
         /\ e.block_range[2] = e.block_range[1] + BlocksOf(Len(e.content_hash))
<1>1. PICK i \in 1..Len(m.files) : e = m.files[i] BY DEF EntryOf
<1>2. m.files \in Seq(FileEntry) BY DEF GoodManifest, GoodBlob
<1>3. e \in FileEntry BY <1>1, <1>2, ElementOfSeq
<1>4. GoodEntry(e, Flat(m.files)) BY <1>1 DEF GoodManifest, GoodBlob
<1>5. QED BY <1>2, <1>3, <1>4 DEF GoodEntry

LEMMA ScanFrame ==
  ASSUME IInv, layer # NoLayer, UNCHANGED <<disk, job, mfile, tfile, readers, mods, builds, layer>>,
         calls' \in 0..MaxCalls, LayerOK(layer, scan'.for), cache' \subseteq 0..layer.tree.leaf_count - 1, ScanInv', RangeInv'
  PROVE  IInv'
<1>1. DiskInv' /\ CountInv' /\ FileInv' BY DEF IInv, DiskInv, CountInv, FileInv
<1>2. JobInv' BY DEF IInv, JobInv
<1>3. LayerInv' BY DEF LayerInv
<1>4. ReaderInv' BY DEF IInv, ReaderInv
<1>5. QED BY <1>1, <1>2, <1>3, <1>4 DEF IInv

LEMMA full_checkInv == ASSUME IInv, full_check PROVE IInv'
<1>1. /\ layer # NoLayer /\ scan = NoScan /\ range' = None /\ layer' = layer /\ cache' = cache /\ disk' = disk
      /\ UNCHANGED <<disk, job, mfile, tfile, readers, mods, builds, layer>>
  BY DEF full_check, Mounted
<1>2. calls' \in 0..MaxCalls BY VerityAssumption DEF full_check, Called, IInv, CountInv
<1>3. LayerOK(layer, scan.for) /\ cache \subseteq 0..layer.tree.leaf_count - 1 BY <1>1 DEF IInv, LayerInv
<1>4. scan.for = "None" BY <1>1 DEF NoScan
<1>5. PICK m : m = layer.manifest /\ GoodManifest(m) BY <1>3 DEF LayerOK
<1>6. PICK s : s = StartScan("check", m.files) OBVIOUS
<1>7. scan' = s BY <1>1, <1>5, <1>6 DEF full_check, FullCheck, StartScan
<1>8. s.for = "check" BY <1>6 DEF StartScan
<1>9. LayerOK(layer, scan'.for) BY <1>3, <1>4, <1>7, <1>8 DEF LayerOK
<1>10. disk \in [Files -> Contents \cup {Absent}] BY DEF IInv, DiskInv
<1>11. s \in ScanType /\ ScanOK(s, disk, layer) BY <1>5, <1>6, <1>10, ScanStarts
<1>12. RangeInv' /\ ScanInv' BY <1>1, <1>5, <1>7, <1>8, <1>11 DEF ScanInv, RangeInv
<1>13. QED BY <1>1, <1>2, <1>3, <1>9, <1>12, ScanFrame

\* A step of full_check that stays in it.
LEMMA ScanStay ==
  ASSUME IInv, Scanning, UNCHANGED layer, NEW s2 \in ScanType, scan' = s2, s2.for = scan.for,
         cache' \subseteq 0..layer.tree.leaf_count - 1,
         steady => ScanOK(s2, disk, layer)
  PROVE  IInv'
<1>1. /\ scan # NoScan /\ UNCHANGED <<disk, job, mfile, tfile, readers, range, steady, mods, builds, calls>> BY DEF Scanning
<1>2. layer # NoLayer BY <1>1 DEF IInv, LayerInv
<1>3. LayerOK(layer, scan'.for) BY <1>2 DEF IInv, LayerInv
<1>4. calls' \in 0..MaxCalls BY <1>1 DEF IInv, CountInv
<1>5. ScanInv' /\ RangeInv' BY <1>1 DEF IInv, ScanInv, RangeInv
<1>6. QED BY <1>1, <1>2, <1>3, <1>4, <1>5, ScanFrame

\* What a step of full_check finds.
LEMMA ScanSees ==
  ASSUME IInv, scan # NoScan
  PROVE  /\ layer # NoLayer /\ scan \in ScanType /\ LayerOK(layer, scan.for)
         /\ layer.manifest.files \in Seq(FileEntry) /\ disk \in [Files -> Contents \cup {Absent}]
         /\ cache \subseteq 0..layer.tree.leaf_count - 1
         /\ scan.todo # << >> => Head(scan.todo) \in FileEntry
<1>1. layer # NoLayer /\ scan \in ScanType BY DEF IInv, LayerInv, ScanInv
<1>2. LayerOK(layer, scan.for) /\ cache \subseteq 0..layer.tree.leaf_count - 1 BY <1>1 DEF IInv, LayerInv
<1>3. layer.manifest.files \in Seq(FileEntry) BY <1>2 DEF LayerOK, GoodManifest, GoodBlob
<1>4. scan.todo \in Seq(FileEntry) BY <1>1 DEF ScanType
<1>5. scan.todo # << >> => Head(scan.todo) \in FileEntry BY <1>4, HeadTailProperties
<1>6. QED BY <1>1, <1>2, <1>3, <1>5 DEF IInv, DiskInv

LEMMA CheckInv ==
  ASSUME IInv, Scanning, scan.todo # << >>, NEW e, e = Head(scan.todo), NEW f, f = FollowIn(disk, e.path), f # Absent,
         ~(scan.eof /\ scan.block_idx >= e.block_range[2]), NEW data, Reads(scan, f, data), Check(data)
  PROVE  IInv'
<1>1. scan # NoScan BY DEF Scanning
<1>2. PICK s \in ScanType : s = scan /\ e \in FileEntry BY <1>1, ScanSees
<1>3. PICK d \in [Files -> Contents \cup {Absent}] : d = disk BY <1>1, ScanSees
<1>4. PICK files, l : /\ l = layer /\ files = l.manifest.files /\ files \in Seq(FileEntry)
                      /\ LayerOK(l, s.for) /\ layer # NoLayer
  BY <1>1, <1>2, ScanSees
<1>5. PICK n \in Nat : n = Len(data)
  <2>1. f \in Seq(Nat) BY <1>2, <1>3, ContentType, FollowType
  <2>2. s.pos \in Nat /\ s.pos + BlockSize \in Nat BY BlockSizeAssumption DEF ScanType
  <2>3. Len(Slice(f, s.pos, s.pos + BlockSize)) \in Nat BY <2>1, <2>2, SliceType
  <2>4. Len(<< >>) = 0 OBVIOUS
  <2>5. QED BY <1>2, <2>3, <2>4 DEF Reads
<1>6. PICK t \in BOOLEAN : t <=> verify_block(l.tree, s.block_idx, data, l.root_hash) OBVIOUS
<1>7. t <=> Trusted(scan.block_idx, data) BY <1>2, <1>4, <1>6 DEF Trusted
<1>8. PICK s2 : s2 = [s EXCEPT !.pos = @ + Len(data), !.block_idx = @ + 1, !.failed = @ + (IF t THEN 0 ELSE 1)] OBVIOUS
<1>9. scan' = s2 /\ layer' = layer BY <1>2, <1>7, <1>8 DEF Check
<1>10. s2 \in ScanType /\ s2.for = s.for
  <2>1. PICK inc \in Nat : inc = IF t THEN 0 ELSE 1 OBVIOUS
  <2>2. s.pos \in Nat /\ s.block_idx \in Nat /\ s.failed \in Nat BY DEF ScanType
  <2>3. s.pos + n \in Nat /\ s.block_idx + 1 \in Nat /\ s.failed + inc \in Nat
    <3>1. \A x, y \in Nat : x + y \in Nat OBVIOUS
    <3>2. QED BY <2>2, <3>1
  <2>4. PICK a \in Nat, b \in Nat, c \in Nat : a = s.pos + n /\ b = s.block_idx + 1 /\ c = s.failed + inc BY <2>3
  <2>5. s2 = [s EXCEPT !.pos = a, !.block_idx = b, !.failed = c] BY <1>5, <1>8, <2>1, <2>4
  <2>6. QED BY <2>5 DEF ScanType
<1>11. cache' \subseteq 0..layer.tree.leaf_count - 1
  <2>1. PICK m : m = (IF Trusted(scan.block_idx, data) THEN {scan.block_idx} ELSE {}) OBVIOUS
  <2>2. scan.block_idx \in Nat BY <1>2 DEF ScanType
  <2>3. m \subseteq Nat BY <2>1, <2>2
  <2>4. cache' = cache \cup Mark(m) BY <2>1 DEF Check
  <2>5. QED BY <1>4, <2>3, <2>4, Marks DEF IInv
<1>12. ASSUME steady PROVE ScanOK(s2, d, l)
  <2>1. PICK i, j : ScanAt(s, d, l, files, i, j) BY <1>1, <1>2, <1>3, <1>4, <1>12 DEF IInv, ScanInv, ScanOK
  <2>2. i \in 1..Len(files) /\ e = files[i] BY <1>2, <1>4, <2>1, ScanHead
  <2>3. EntryOf(e, l.manifest.files) BY <1>4, <2>2 DEF EntryOf
  <2>4. e.block_range[2] = e.block_range[1] + BlocksOf(Len(e.content_hash)) BY <1>4, <2>3, EntryRange DEF LayerOK
  <2>5. j \in Nat /\ s.block_idx = e.block_range[1] + j BY <2>1, <2>2, LenProperties DEF ScanAt, InFile
  <2>6. f \in Seq(Nat) /\ InFile(s, e, f, j)
    <3>1. f \in Seq(Nat) BY <1>2, <1>3, ContentType, FollowType
    <3>2. QED BY <1>3, <2>1, <2>2, <3>1, LenProperties DEF ScanAt
  <2>7. t <=> Accepts(l, e.block_range[1] + j, data)
    <3>1. PICK b \in Nat : b = s.block_idx /\ b = e.block_range[1] + j BY <2>5 DEF ScanType
    <3>2. CASE l.root_hash = l.manifest.root_hash
      <4>1. verify_block(l.tree, b, data, l.root_hash) <=> FitsIn(l.manifest.files, b, data) BY <1>4, <3>2, LayerChecks
      <4>2. QED BY <1>6, <3>1, <3>2, <4>1 DEF Accepts
    <3>3. CASE l.root_hash # l.manifest.root_hash
      <4>1. s.for = "verify" BY <1>4, <3>3 DEF LayerOK
      <4>2. AsOn(d, files, << >>) BY <1>1, <1>2, <1>3, <1>4, <1>12, <4>1 DEF IInv, ScanInv, VerifyOK
      <4>3. f = e.content_hash BY <1>3, <2>2, <4>2 DEF AsOn
      <4>4. data = Block(f, j) /\ (~s.eof => j < BlocksOf(Len(f))) BY <1>2, <2>5, <2>6, ScanData
      <4>5. s.eof => j < BlocksOf(Len(e.content_hash)) BY <1>2, <2>4, <2>5, <2>6, StillInside
      <4>6. j < BlocksOf(Len(e.content_hash)) BY <4>3, <4>4, <4>5
      <4>7. GoodManifest(l.manifest) BY <1>4 DEF LayerOK
      <4>8. FitsIn(l.manifest.files, b, data) BY <2>3, <2>5, <3>1, <4>3, <4>4, <4>6, <4>7, OwnFits
      <4>9. ~verify_block(l.tree, b, data, l.root_hash) BY <1>4, <3>3, <4>8, LayerRefuses
      <4>10. QED BY <1>6, <3>1, <3>3, <4>9 DEF Accepts
    <3>4. QED BY <3>2, <3>3
  <2>8. ScanAt(s2, d, l, files, i, j + 1)
    <3>1. s.todo # << >> /\ e = Head(s.todo) /\ f = FollowIn(d, e.path) /\ Reads(s, f, data)
          /\ ~(s.eof /\ s.block_idx >= e.block_range[2])
      BY <1>2, <1>3
    <3>2. QED BY <1>4, <1>8, <2>1, <2>4, <2>7, <3>1, ScanChecks
  <2>9. QED BY <1>4, <2>8 DEF ScanOK
<1>13. QED BY <1>2, <1>3, <1>4, <1>9, <1>10, <1>11, <1>12, ScanStay

LEMMA ScanBlockInv == ASSUME IInv, ScanBlock PROVE IInv'
<1>1. Scanning /\ scan # NoScan /\ scan.todo # << >> BY DEF ScanBlock, Scanning
<1>2. PICK e \in FileEntry : e = Head(scan.todo) BY <1>1, ScanSees
<1>3. PICK f : f = FollowIn(disk, e.path) /\ f = Follow(e.path) BY OfDisk
<1>4. PICK rest : rest = Slice(f, scan.pos, scan.pos + BlockSize) OBVIOUS
<1>5. /\ f # Absent /\ ~FileDone(e)
      /\ \/ ~scan.eof /\ rest # << >> /\ Check(rest)
         \/ scan.eof /\ Check(<< >>)
         \/ /\ ~scan.eof /\ rest = << >>
            /\ scan' = [scan EXCEPT !.eof = TRUE]
            /\ ReplyNothing /\ UNCHANGED <<layer, cache>>
  BY <1>2, <1>3, <1>4 DEF ScanBlock
<1>6. ~(scan.eof /\ scan.block_idx >= e.block_range[2]) BY <1>5 DEF FileDone
<1>7. CASE ~scan.eof /\ rest # << >> /\ Check(rest)
  <2>1. Reads(scan, f, rest) BY <1>4, <1>7 DEF Reads
  <2>2. QED BY <1>1, <1>2, <1>3, <1>5, <1>6, <1>7, <2>1, CheckInv
<1>8. CASE scan.eof /\ Check(<< >>)
  <2>1. Reads(scan, f, << >>) BY <1>8 DEF Reads
  <2>2. QED BY <1>1, <1>2, <1>3, <1>5, <1>6, <1>8, <2>1, CheckInv
<1>9. CASE ~scan.eof /\ rest = << >> /\ scan' = [scan EXCEPT !.eof = TRUE] /\ UNCHANGED <<layer, cache>>
  <2>1. PICK s \in ScanType : s = scan BY <1>1, ScanSees
  <2>2. PICK d \in [Files -> Contents \cup {Absent}] : d = disk BY <1>1, ScanSees
  <2>3. PICK files \in Seq(FileEntry) : files = layer.manifest.files BY <1>1, ScanSees
  <2>4. PICK s2 : s2 = [s EXCEPT !.eof = TRUE] OBVIOUS
  <2>5. s2 \in ScanType /\ s2.for = s.for BY <2>4 DEF ScanType
  <2>6. ASSUME steady PROVE ScanOK(s2, d, layer)
    <3>1. PICK i, j : ScanAt(s, d, layer, files, i, j) BY <1>1, <2>1, <2>2, <2>3, <2>6 DEF IInv, ScanInv, ScanOK
    <3>2. /\ s.todo # << >> /\ ~s.eof /\ f = FollowIn(d, Head(s.todo).path)
          /\ Slice(f, s.pos, s.pos + BlockSize) = << >>
      BY <1>1, <1>2, <1>3, <1>4, <1>9, <2>1, <2>2
    <3>3. ScanAt(s2, d, layer, files, i, j) BY <1>5, <2>4, <3>1, <3>2, ScanFinds
    <3>4. QED BY <2>3, <3>3 DEF ScanOK
  <2>7. cache' \subseteq 0..layer.tree.leaf_count - 1 BY <1>1, <1>9, ScanSees
  <2>8. scan' = s2 BY <1>9, <2>1, <2>4
  <2>9. QED BY <1>1, <1>9, <2>1, <2>2, <2>3, <2>5, <2>6, <2>7, <2>8, ScanStay
<1>10. QED BY <1>5, <1>7, <1>8, <1>9

LEMMA ScanNextInv == ASSUME IInv, ScanNext PROVE IInv'
<1>1. Scanning /\ scan # NoScan /\ scan.todo # << >> /\ UNCHANGED <<layer, cache>> BY DEF ScanNext, Scanning
<1>2. PICK e \in FileEntry : e = Head(scan.todo) BY <1>1, ScanSees
<1>3. scan.eof /\ scan.block_idx >= e.block_range[2] BY <1>2 DEF ScanNext, FileDone
<1>4. PICK s \in ScanType : s = scan BY <1>1, ScanSees
<1>5. PICK d \in [Files -> Contents \cup {Absent}] : d = disk BY <1>1, ScanSees
<1>6. PICK files \in Seq(FileEntry) : files = layer.manifest.files BY <1>1, ScanSees
<1>7. PICK todo \in Seq(FileEntry) : todo = Tail(s.todo)
  <2>1. s.todo \in Seq(FileEntry) /\ s.todo # << >> BY <1>1, <1>4 DEF ScanType
  <2>2. QED BY <2>1, HeadTailProperties
<1>8. PICK s2 : s2 = NextFile(s, todo) OBVIOUS
<1>9. s2 \in ScanType /\ s2.for = s.for
  <2>1. PICK b \in Nat : b = IF todo = << >> THEN s.block_idx ELSE todo[1].block_range[1]
    <3>1. s.block_idx \in Nat BY DEF ScanType
    <3>2. ASSUME todo # << >> PROVE todo[1].block_range[1] \in Nat
      <4>1. Len(todo) \in Nat /\ Len(todo) # 0 BY <3>2, LenProperties, EmptySeq
      <4>2. todo[1] \in FileEntry BY <4>1, ElementOfSeq
      <4>3. QED BY <4>2 DEF FileEntry
    <3>3. QED BY <3>1, <3>2
  <2>2. s2 = [s EXCEPT !.todo = todo, !.pos = 0, !.eof = FALSE, !.block_idx = b] BY <1>8, <2>1 DEF NextFile
  <2>3. QED BY <2>2 DEF ScanType
<1>10. scan' = s2 BY <1>4, <1>7, <1>8 DEF ScanNext, NextFile
<1>11. ASSUME steady PROVE ScanOK(s2, d, layer)
  <2>1. PICK i, j : ScanAt(s, d, layer, files, i, j) BY <1>1, <1>4, <1>5, <1>6, <1>11 DEF IInv, ScanInv, ScanOK
  <2>2. s.todo # << >> /\ e = Head(s.todo) /\ s.eof /\ s.block_idx >= e.block_range[2] BY <1>1, <1>2, <1>3, <1>4
  <2>3. EntryOf(e, layer.manifest.files)
    <3>1. i \in 1..Len(files) /\ e = files[i] BY <2>1, <2>2, ScanHead
    <3>2. QED BY <1>6, <3>1 DEF EntryOf
  <2>4. GoodManifest(layer.manifest) BY <1>1, ScanSees DEF LayerOK
  <2>5. e.block_range[2] = e.block_range[1] + BlocksOf(Len(e.content_hash)) BY <2>3, <2>4, EntryRange
  <2>6. ScanAt(s2, d, layer, files, i + 1, 0) BY <1>7, <1>8, <2>1, <2>2, <2>5, ScanMoves
  <2>7. QED BY <1>6, <2>6 DEF ScanOK
<1>12. cache' \subseteq 0..layer.tree.leaf_count - 1 BY <1>1, ScanSees
<1>13. QED BY <1>1, <1>4, <1>5, <1>6, <1>9, <1>10, <1>11, <1>12, ScanStay

LEMMA ScanDoneInv == ASSUME IInv, ScanDone PROVE IInv'
<1>1. /\ scan # NoScan /\ scan' = NoScan /\ UNCHANGED <<disk, job, mfile, tfile, readers, range, steady, mods, builds, calls>>
  BY DEF ScanDone, Scanning
<1>2. layer # NoLayer /\ LayerOK(layer, scan.for) /\ cache \subseteq 0..layer.tree.leaf_count - 1 /\ scan \in ScanType
  BY <1>1, ScanSees
<1>3. range' = None /\ ScanInv' /\ RangeInv' BY <1>1 DEF IInv, ScanInv, RangeInv
<1>4. CASE scan.for = "verify"
  <2>1. layer' = NoLayer /\ cache' = {} BY <1>4 DEF ScanDone
  <2>2. \A r \in Readers : readers[r] = None BY <1>1, <1>4 DEF IInv, ScanInv
  <2>3. DiskInv' /\ CountInv' /\ FileInv' BY <1>1 DEF IInv, DiskInv, CountInv, FileInv
  <2>4. JobInv' BY <1>1, <1>2 DEF IInv, JobInv
  <2>5. LayerInv' BY <1>1, <1>3, <2>1, <2>2 DEF LayerInv
  <2>6. ReaderInv' BY <1>1, <2>2 DEF IInv, ReaderInv
  <2>7. QED BY <1>3, <2>3, <2>4, <2>5, <2>6 DEF IInv
<1>5. CASE scan.for # "verify"
  <2>1. layer' = layer /\ cache' = cache BY <1>5 DEF ScanDone
  <2>2. LayerOK(layer, scan'.for) BY <1>1, <1>2, <1>5 DEF LayerOK, NoScan
  <2>3. calls' \in 0..MaxCalls BY <1>1 DEF IInv, CountInv
  <2>4. QED BY <1>1, <1>2, <1>3, <2>1, <2>2, <2>3, ScanFrame
<1>6. QED BY <1>4, <1>5

LEMMA CalledType == ASSUME IInv, calls' = calls \/ Called PROVE calls' \in 0..MaxCalls
  BY VerityAssumption DEF IInv, CountInv, Called

(***************************************************************************)
(* verify_file_blocks.                                                     *)
(***************************************************************************)

\* Where verify_file_blocks starts.
LEMMA RangeStarts ==
  ASSUME IInv, NEW p \in Paths, NEW off \in Nat, NEW len \in Nat \ {0}, verify_file_blocks(p, off, len)
  PROVE  \/ /\ range' = range /\ steady' = steady
            /\ \E rg : rg.entry = None /\ RangeAnswer(rg, TRUE)
         \/ /\ steady' = TRUE /\ reply' = None
            /\ \A d, st : RangeOK(range', d, layer, st)
<1>1. layer # NoLayer BY DEF verify_file_blocks, Mounted
<1>2. PICK first \in Nat, o \in Nat : first = off \div BlockSize /\ o = off % BlockSize BY DivMod
<1>3. PICK to \in Nat : to = first + BlocksOf(o + len) /\ first < to
  <2>1. PICK n \in Nat : n = BlocksOf(o + len) BY BlocksType
  <2>2. 0 < BlocksOf(o + len)
    <3>1. PICK x \in Nat : x = o + len /\ x > 0 OBVIOUS
    <3>2. 0 * BlockSize = 0 BY BlockSizeAssumption
    <3>3. 0 < BlocksOf(x) <=> 0 * BlockSize < x BY BlocksOfIs
    <3>4. QED BY <3>1, <3>2, <3>3
  <2>3. QED BY <2>1, <2>2
<1>4. CASE EntryFor(p) = {}
  <2>1. PICK rg : rg = [entry |-> None, from |-> first, next |-> first, to |-> to] OBVIOUS
  <2>2. rg.entry = None BY <2>1
  <2>3. RangeAnswer(rg, TRUE) /\ range' = range /\ steady' = steady BY <1>2, <1>3, <1>4, <2>1 DEF verify_file_blocks
  <2>4. QED BY <2>2, <2>3
<1>5. CASE EntryFor(p) # {}
  <2>1. PICK i \in EntryFor(p) :
           range' = [entry |-> layer.manifest.files[i], from |-> first, next |-> first, to |-> to]
    BY <1>2, <1>3, <1>5 DEF verify_file_blocks
  <2>2. steady' = TRUE /\ reply' = None BY <1>5 DEF verify_file_blocks, ReplyNothing
  <2>3. PICK files \in Seq(FileEntry) : files = layer.manifest.files
    BY <1>1 DEF IInv, LayerInv, LayerOK, GoodManifest, GoodBlob
  <2>4. i \in 1..Len(files) BY <2>3, LenProperties DEF EntryFor
  <2>5. PICK e \in FileEntry : e = files[i] /\ EntryOf(e, files) BY <2>4, ElementOfSeq DEF EntryOf
  <2>6. PICK rg : rg = [entry |-> e, from |-> first, next |-> first, to |-> to] OBVIOUS
  <2>7. range' = rg BY <2>1, <2>3, <2>5, <2>6
  <2>8. rg \in RangeType /\ rg.entry = e /\ rg.from = first /\ rg.next = first /\ rg.to = to BY <2>6 DEF RangeType
  <2>9. \A k \in first..first - 1 : FALSE OBVIOUS
  <2>10. \A d, st : RangeOK(rg, d, layer, st) BY <1>3, <2>3, <2>5, <2>8, <2>9 DEF RangeOK
  <2>11. QED BY <2>2, <2>7, <2>10
<1>6. QED BY <1>4, <1>5

LEMMA verify_file_blocksInv ==
  ASSUME IInv, NEW p \in Paths, NEW off \in Nat, NEW len \in Nat \ {0}, verify_file_blocks(p, off, len)
  PROVE  IInv'
<1>1. /\ layer # NoLayer /\ scan = NoScan /\ range = None
      /\ UNCHANGED <<disk, job, mfile, tfile, layer, cache, readers, scan, mods, builds>>
  BY DEF verify_file_blocks, Mounted
<1>2. calls' \in 0..MaxCalls
  <2>1. Called BY DEF verify_file_blocks
  <2>2. QED BY <2>1, CalledType
<1>3. cache' \subseteq 0..layer.tree.leaf_count - 1 /\ LayerOK(layer, scan'.for) BY <1>1 DEF IInv, LayerInv
<1>4. ScanInv' BY <1>1 DEF ScanInv
<1>5. RangeInv'
  <2>1. CASE range' = range BY <1>1, <2>1 DEF RangeInv
  <2>2. CASE \A d, st : RangeOK(range', d, layer, st) BY <1>1, <2>2 DEF RangeInv
  <2>3. QED BY <2>1, <2>2, RangeStarts
<1>6. QED BY <1>1, <1>2, <1>3, <1>4, <1>5, ScanFrame

\* What a round of verify_file_blocks finds.
RangeSeen(rg, f, k, t) ==
    /\ rg = range /\ rg \in RangeType /\ RangeOK(rg, disk, layer, steady)
    /\ f = FollowIn(disk, rg.entry.path) /\ k = rg.next /\ k \in Nat
    /\ t \in BOOLEAN /\ (t <=> RangeFits(rg.entry, f, layer.manifest.files, k))

\* The two ways a round can go.
RangeFails(rg, t) == ~t /\ range' = None /\ RangeAnswer(rg, FALSE) /\ cache' = cache

RangeGoes(rg, t) ==
    /\ layer.on_failure = "Reject" /\ layer.pinned => t
    /\ cache' \subseteq 0..layer.tree.leaf_count - 1
    /\ IF rg.next + 1 = rg.to THEN range' = None /\ RangeAnswer(rg, TRUE)
       ELSE range' = [rg EXCEPT !.next = @ + 1] /\ reply' = None

LEMMA RangeRound ==
  ASSUME IInv, RangeStep
  PROVE  \E rg, f, k, t : RangeSeen(rg, f, k, t) /\ (RangeFails(rg, t) \/ RangeGoes(rg, t))
<1>1. range # None BY DEF RangeStep
<1>2. scan = NoScan /\ RangeOK(range, disk, layer, steady) BY <1>1 DEF IInv, RangeInv
<1>3. layer # NoLayer BY <1>1 DEF IInv, LayerInv
<1>4. PICK l : l = layer /\ LayerOK(l, scan.for) BY <1>3 DEF IInv, LayerInv
<1>5. l.root_hash = l.manifest.root_hash BY <1>2, <1>4 DEF LayerOK, NoScan
<1>6. PICK rg \in RangeType : rg = range BY <1>2 DEF RangeOK
<1>7. PICK e \in FileEntry, k \in Nat : e = rg.entry /\ k = rg.next BY DEF RangeType
<1>8. PICK f : f = FollowIn(disk, e.path) /\ f = Follow(e.path) BY OfDisk
<1>9. PICK b \in Nat : b = e.block_range[1] + k
  <2>1. e.block_range[1] \in Nat BY DEF FileEntry
  <2>2. QED BY <2>1
<1>10. PICK data : data = Block(f, k) OBVIOUS
<1>11. PICK t \in BOOLEAN : t <=> RangeFits(e, f, l.manifest.files, k) OBVIOUS
<1>12. Trusted(b, data) <=> FitsIn(l.manifest.files, b, data)
  <2>1. verify_block(l.tree, b, data, l.root_hash) <=> FitsIn(l.manifest.files, b, data) BY <1>4, <1>5, LayerChecks
  <2>2. QED BY <1>4, <2>1 DEF Trusted
<1>13. t <=> f # Absent /\ Trusted(b, data) BY <1>9, <1>10, <1>11, <1>12 DEF RangeFits
<1>14. RangeSeen(rg, f, k, t) BY <1>2, <1>4, <1>6, <1>7, <1>8, <1>11 DEF RangeSeen
<1> DEFINE Stops == range' = None /\ RangeAnswer(rg, FALSE) /\ UNCHANGED cache
           Goes(s) == /\ cache' = cache \cup Mark(s)
                      /\ IF rg.next + 1 = rg.to THEN range' = None /\ RangeAnswer(rg, TRUE)
                         ELSE range' = [rg EXCEPT !.next = @ + 1] /\ ReplyNothing
<1>15. IF Skips(b) THEN Goes({})
       ELSE IF f = Absent THEN Stops
       ELSE IF Rejects(Trusted(b, data)) THEN Stops
       ELSE Goes(IF Trusted(b, data) THEN {b} ELSE {})
  BY <1>6, <1>7, <1>8, <1>9, <1>10 DEF RangeStep
<1>16. ASSUME NEW s, s \subseteq Nat, Goes(s), layer.on_failure = "Reject" /\ layer.pinned => t PROVE RangeGoes(rg, t)
  <2>1. cache' \subseteq 0..layer.tree.leaf_count - 1 BY <1>3, <1>16, Marks DEF IInv
  <2>2. QED BY <1>16, <2>1 DEF RangeGoes, ReplyNothing
<1>17. CASE Skips(b)
  <2>1. ~layer.pinned BY <1>4, <1>17 DEF Skips, LayerOK
  <2>2. Goes({}) BY <1>15, <1>17
  <2> HIDE DEF Goes
  <2>3. RangeGoes(rg, t) BY <1>16, <2>1, <2>2
  <2>4. QED BY <1>14, <2>3
<1>18. CASE ~Skips(b) /\ (f = Absent \/ Rejects(Trusted(b, data)))
  <2>1. ~t BY <1>13, <1>18 DEF Rejects
  <2>2. Stops BY <1>15, <1>18
  <2>3. RangeFails(rg, t) BY <2>1, <2>2 DEF RangeFails
  <2>4. QED BY <1>14, <2>3
<1>19. CASE ~Skips(b) /\ f # Absent /\ ~Rejects(Trusted(b, data))
  <2>1. layer.on_failure = "Reject" => t BY <1>13, <1>19 DEF Rejects
  <2>2. PICK s : s = (IF Trusted(b, data) THEN {b} ELSE {}) OBVIOUS
  <2>3. s \subseteq Nat BY <2>2
  <2>4. Goes(s) BY <1>15, <1>19, <2>2
  <2> HIDE DEF Goes
  <2>5. RangeGoes(rg, t) BY <1>16, <2>1, <2>3, <2>4
  <2>6. QED BY <1>14, <2>5
<1>20. QED BY <1>17, <1>18, <1>19

\* All the blocks up to and with the one of this round.
LEMMA RangeMore ==
  ASSUME NEW rg, NEW f, NEW k, NEW t, RangeSeen(rg, f, k, t), RangeGoes(rg, t),
         steady, layer.on_failure = "Reject", layer.pinned
  PROVE  \A x \in rg.from..k : RangeFits(rg.entry, f, layer.manifest.files, x)
<1>1. t /\ RangeFits(rg.entry, f, layer.manifest.files, k) BY DEF RangeGoes, RangeSeen
<1>2. \A x \in rg.from..k - 1 : RangeFits(rg.entry, f, layer.manifest.files, x) BY DEF RangeSeen, RangeOK
<1>3. rg.from \in Nat /\ k \in Nat BY DEF RangeSeen, RangeType
<1>4. \A x \in rg.from..k : x \in rg.from..k - 1 \/ x = k BY <1>3
<1>5. QED BY <1>1, <1>2, <1>4

LEMMA RangeStepInv == ASSUME IInv, RangeStep PROVE IInv'
<1>1. /\ range # None /\ UNCHANGED <<disk, job, mfile, tfile, layer, readers, scan, steady, mods, builds, calls>>
  BY DEF RangeStep
<1>2. layer # NoLayer /\ scan = NoScan BY <1>1 DEF IInv, LayerInv, RangeInv
<1>3. LayerOK(layer, scan'.for) /\ cache \subseteq 0..layer.tree.leaf_count - 1 BY <1>1, <1>2 DEF IInv, LayerInv
<1>4. ScanInv' BY <1>1, <1>2 DEF ScanInv
<1>5. calls' \in 0..MaxCalls BY <1>1 DEF IInv, CountInv
<1>6. PICK rg, f, k, t : RangeSeen(rg, f, k, t) /\ (RangeFails(rg, t) \/ RangeGoes(rg, t)) BY RangeRound
<1>7. cache' \subseteq 0..layer.tree.leaf_count - 1 BY <1>3, <1>6 DEF RangeFails, RangeGoes
<1>8. RangeInv'
  <2>1. CASE range' = None BY <2>1 DEF RangeInv
  <2>2. CASE RangeGoes(rg, t) /\ rg.next + 1 # rg.to
    <3>1. PICK r2 : r2 = [rg EXCEPT !.next = @ + 1] /\ range' = r2 BY <2>2 DEF RangeGoes
    <3>2. rg \in RangeType /\ RangeOK(rg, disk, layer, steady) /\ k = rg.next /\ k \in Nat BY <1>6 DEF RangeSeen
    <3>3. r2 \in RangeType /\ r2.entry = rg.entry /\ r2.from = rg.from /\ r2.to = rg.to /\ r2.next = k + 1
      BY <3>1, <3>2 DEF RangeType
    <3>4. r2.from <= r2.next /\ r2.next < r2.to
      <4>1. rg.from \in Nat /\ rg.to \in Nat /\ rg.from <= k /\ k < rg.to BY <3>2 DEF RangeType, RangeOK
      <4>2. k + 1 # rg.to BY <2>2, <3>2
      <4>3. rg.from <= k + 1 /\ k + 1 < rg.to BY <3>2, <4>1, <4>2
      <4>4. QED BY <3>3, <4>3
    <3>5. ASSUME steady, layer.on_failure = "Reject", layer.pinned
          PROVE  \A x \in r2.from..r2.next - 1 : RangeFits(r2.entry, FollowIn(disk, r2.entry.path), layer.manifest.files, x)
      <4>1. \A x \in rg.from..k : RangeFits(rg.entry, f, layer.manifest.files, x) BY <1>6, <2>2, <3>5, RangeMore
      <4>2. r2.next - 1 = k BY <3>2, <3>3
      <4>3. f = FollowIn(disk, r2.entry.path) BY <1>6, <3>3 DEF RangeSeen
      <4>4. QED BY <3>3, <4>1, <4>2, <4>3
    <3>6. RangeOK(r2, disk, layer, steady) BY <3>2, <3>3, <3>4, <3>5 DEF RangeOK
    <3>7. QED BY <1>1, <1>2, <3>1, <3>6 DEF RangeInv
  <2>3. QED BY <1>6, <2>1, <2>2 DEF RangeFails, RangeGoes
<1>9. QED BY <1>1, <1>2, <1>3, <1>4, <1>5, <1>7, <1>8, ScanFrame

(***************************************************************************)
(* VerifiedReader.                                                         *)
(***************************************************************************)

\* What load_block asks for at a position inside the file.
InEntry(e, pos, k, off, n) ==
    /\ k \in Nat /\ off \in Nat /\ n \in Nat /\ pos = k * BlockSize + off /\ off < n /\ k * BlockSize \in Nat
    /\ k * BlockSize + n <= e.size
    /\ n = InBlock(e.size, k) /\ k < BlocksOf(e.size)

LEMMA ToReadIs ==
  ASSUME NEW e \in FileEntry, NEW pos \in Nat, pos < e.size
  PROVE  InEntry(e, pos, pos \div BlockSize, pos % BlockSize, ToRead(e, pos \div BlockSize))
<1>1. PICK k \in Nat, off \in Nat : k = pos \div BlockSize /\ off = pos % BlockSize BY DivMod
<1>2. off < BlockSize /\ pos = k * BlockSize + off BY <1>1, DivMod
<1>3. PICK size \in Nat : size = e.size BY ContentType
<1>4. PICK a \in Nat : a = k * BlockSize /\ (k + 1) * BlockSize = a + BlockSize BY Times
<1>5. a <= pos /\ a < size /\ pos = a + off BY <1>2, <1>3, <1>4
<1>6. BlockSize \in Nat /\ BlockSize > 0 BY BlockSizeAssumption
<1>7. PICK n \in Nat : n = ToRead(e, k) /\ n = (IF size - a <= BlockSize THEN size - a ELSE BlockSize)
  <2>1. size - a \in Int /\ BlockSize \in Int /\ size - a \in Nat BY <1>5, <1>6
  <2>2. Min({size - a, BlockSize}) = IF size - a <= BlockSize THEN size - a ELSE BlockSize BY <2>1, MinOf
  <2>3. ToRead(e, k) = Min({size - a, BlockSize}) BY <1>3, <1>4, <1>5 DEF ToRead
  <2>4. QED BY <1>6, <2>1, <2>2, <2>3
<1>8. off < n /\ a + n <= size BY <1>2, <1>3, <1>5, <1>6, <1>7
<1>9. n = InBlock(size, k)
  <2>1. InBlock(size, k) = IF a + BlockSize <= size THEN BlockSize ELSE IF a <= size THEN size - a ELSE 0 BY <1>4 DEF InBlock
  <2>2. QED BY <1>5, <1>6, <1>7, <2>1
<1>10. k < BlocksOf(size) BY <1>3, <1>4, <1>5, BlocksOfIs
<1>11. InEntry(e, pos, k, off, n) BY <1>2, <1>3, <1>4, <1>8, <1>9, <1>10 DEF InEntry
<1>12. QED BY <1>1, <1>7, <1>11

\* What is known of a block that is loaded.
BlockOK(e, k, data, mode) ==
    /\ k \in Nat /\ data \in Seq(Nat) /\ Len(data) = ToRead(e, k)
    /\ mode = "Reject" /\ SizeRight(e) => data = Block(e.content_hash, k)

\* A read in progress, or at its end.
CopyOK(now, mode) ==
    /\ now \in VerifiedReader
    /\ now.position <= now.entry.size
    /\ now.asked = now.want + Len(now.got)
    /\ Len(now.got) <= now.position
    /\ mode = "Reject" /\ SizeRight(now.entry) =>
          IsSlice(now.got, now.entry.content_hash, now.position - Len(now.got), Len(now.got))

CopyOf(rd, block) ==
    LET off  == rd.position % BlockSize
        n    == Min({Len(block) - off, rd.want})
    IN  [rd EXCEPT !.position = @ + n, !.want = @ - n, !.got = @ \o Slice(block, off, off + n)]

LEMMA Copies ==
  ASSUME NEW d, NEW files, NEW mode, NEW rd, ReaderOK(rd, d, files, mode), rd.want > 0,
         NEW data, BlockOK(rd.entry, rd.position \div BlockSize, data, mode)
  PROVE  /\ CopyOK(CopyOf(rd, data), mode)
         /\ CopyOf(rd, data).entry = rd.entry /\ CopyOf(rd, data).current = rd.current
         /\ CopyOf(rd, data).asked = rd.asked
<1>1. /\ rd \in VerifiedReader /\ rd.position < rd.entry.size /\ rd.asked = rd.want + Len(rd.got)
      /\ Len(rd.got) <= rd.position
  BY DEF ReaderOK
<1>2. PICK e \in FileEntry, pos \in Nat, want \in Nat, asked \in Nat, got \in Seq(Nat) :
          e = rd.entry /\ pos = rd.position /\ want = rd.want /\ asked = rd.asked /\ got = rd.got
  BY <1>1 DEF VerifiedReader
<1>3. PICK k, off, m : /\ k = pos \div BlockSize /\ off = pos % BlockSize /\ m = ToRead(e, k)
                       /\ InEntry(e, pos, k, off, m)
  BY <1>1, <1>2, ToReadIs
<1>4. PICK a \in Nat : a = k * BlockSize /\ k \in Nat /\ off \in Nat /\ m \in Nat /\ pos = a + off /\ off < m /\ a + m <= e.size
  BY <1>3 DEF InEntry
<1>5. off \in Nat /\ m \in Nat /\ off < m BY <1>4
<1>6. pos = a + off /\ a + m <= e.size /\ e.size \in Nat BY <1>4, ContentType
<1>7. data \in Seq(Nat) /\ Len(data) = m BY <1>2, <1>3 DEF BlockOK
<1>8. PICK n \in Nat : /\ n = Min({Len(data) - off, rd.want}) /\ n <= m - off /\ n <= want
                       /\ n > 0
  <2>1. m - off \in Int /\ want \in Int BY <1>5
  <2>2. Min({m - off, want}) = IF m - off <= want THEN m - off ELSE want BY <2>1, MinOf
  <2>3. QED BY <1>2, <1>7, <1>5, <2>2
<1>9. PICK to \in Nat : to = off + n /\ off <= to /\ to <= Len(data) /\ to - off = n
  <2>1. n <= m - off BY <1>8
  <2>2. QED BY <1>7, <1>5, <2>1
<1>10. PICK x \in Seq(Nat) : x = Slice(data, off, to) /\ IsSlice(x, data, off, n) 
  <2>1. IsSlice(Slice(data, off, to), data, off, to - off) BY <1>7, <1>9, <1>5, SliceIn
  <2>2. QED BY <1>9, <2>1 DEF IsSlice
<1>11. Len(x) = n BY <1>10 DEF IsSlice
<1>12. PICK y \in Seq(Nat) : y = got \o x /\ IsConcat(y, got, x) BY ConcatBytes DEF IsConcat
<1>13. PICK g \in Nat : g = Len(got) /\ Len(y) = g + n BY <1>11, <1>12, LenProperties DEF IsConcat
<1>14. PICK pos2 \in Nat, want2 \in Nat : pos2 = pos + n /\ want2 = want - n BY <1>8
<1>15. PICK now : now = [rd EXCEPT !.position = pos2, !.want = want2, !.got = y] OBVIOUS
<1>16. CopyOf(rd, data) = now BY <1>2, <1>3, <1>8, <1>9, <1>10, <1>12, <1>14, <1>15 DEF CopyOf
<1>17. /\ now \in VerifiedReader /\ now.entry = e /\ now.position = pos2 /\ now.want = want2 /\ now.got = y
       /\ now.asked = asked /\ now.current = rd.current
  BY <1>1, <1>2, <1>15 DEF VerifiedReader
<1>18. pos2 <= e.size /\ asked = want2 + Len(y) /\ Len(y) <= pos2
  <2>1. asked = want + g /\ g <= pos /\ e.size \in Nat BY <1>1, <1>2, <1>13, ContentType
  <2>2. n <= m - off /\ n <= want BY <1>8
  <2>3. QED BY <1>13, <1>14, <1>5, <1>6, <2>1, <2>2
<1>19. ASSUME mode = "Reject", SizeRight(e) PROVE IsSlice(y, e.content_hash, pos2 - Len(y), Len(y))
  <2>1. PICK c \in Seq(Nat) : c = e.content_hash BY ContentType
  <2>2. IsSlice(got, c, pos - g, g) BY <1>2, <1>13, <1>19, <2>1 DEF ReaderOK
  <2>3. data = Block(c, k) BY <1>2, <1>3, <1>19, <2>1 DEF BlockOK
  <2>4. IsSlice(data, c, a, m)
    <3>1. m = InBlock(Len(c), k) BY <1>3, <1>19, <2>1 DEF InEntry, SizeRight
    <3>2. QED BY <1>4, <2>1, <2>3, <3>1, BlockIs
  <2>5. PICK z \in Nat : z = pos - g /\ pos2 - Len(y) = z
    <3>1. g <= pos BY <1>1, <1>2, <1>13
    <3>2. pos - g \in Nat BY <3>1
    <3>3. pos2 - Len(y) = pos - g BY <1>13, <1>14
    <3>4. QED BY <3>2, <3>3
  <2>6. ASSUME NEW i \in 1..g + n PROVE y[i] = c[z + i]
    <3>1. CASE i <= g
      <4>1. i \in 1..Len(got) /\ i \in 1..g BY <1>13, <3>1
      <4>2. y[i] = got[i] BY <1>12, <4>1 DEF IsConcat
      <4>3. got[i] = c[z + i] BY <2>2, <2>5, <4>1 DEF IsSlice
      <4>4. QED BY <4>2, <4>3
    <3>2. CASE ~(i <= g)
      <4>1. PICK j \in 1..n : i = g + j
        <5>1. i - g \in 1..n /\ i = g + (i - g) BY <1>8, <1>13, <2>6, <3>2
        <5>2. QED BY <5>1
      <4>2. j \in 1..Len(x) BY <1>11
      <4>3. y[i] = x[j] BY <1>12, <1>13, <4>1, <4>2 DEF IsConcat
      <4>4. x[j] = data[off + j] BY <1>10 DEF IsSlice
      <4>5. PICK u \in 1..m : u = off + j
        <5>1. n <= m - off BY <1>8
        <5>2. QED BY <1>5, <5>1
      <4>6. data[u] = c[a + u] BY <2>4 DEF IsSlice
      <4>7. a + u = z + i BY <1>5, <1>6, <2>5, <4>1, <4>5
      <4>8. QED BY <4>3, <4>4, <4>5, <4>6, <4>7
    <3>3. QED BY <3>1, <3>2
  <2>7. QED BY <1>12, <1>13, <2>1, <2>5, <2>6 DEF IsSlice
<1>20. CopyOK(now, mode)
  <2>1. now.position <= now.entry.size /\ now.asked = now.want + Len(now.got) /\ Len(now.got) <= now.position
    BY <1>17, <1>18
  <2>2. QED BY <1>17, <1>19, <2>1 DEF CopyOK
<1>21. QED BY <1>2, <1>16, <1>17, <1>20

\* What a read gives back.
LEMMA AnswerRight ==
  ASSUME NEW now, CopyOK(now, "Reject"), SizeRight(now.entry), now.want = 0 \/ now.position >= now.entry.size
  PROVE  now.got = Slice(now.entry.content_hash, now.position - Len(now.got), now.position - Len(now.got) + now.asked)
<1>1. PICK c \in Seq(Nat), pos \in Nat, want \in Nat, asked \in Nat, got \in Seq(Nat) :
          c = now.entry.content_hash /\ pos = now.position /\ want = now.want /\ asked = now.asked /\ got = now.got
  BY ContentType DEF CopyOK, VerifiedReader
<1>2. PICK g \in Nat, size \in Nat : g = Len(got) /\ size = Len(c) BY LenProperties
<1>3. pos <= size /\ asked = want + g /\ g <= pos /\ IsSlice(got, c, pos - g, g) BY <1>1, <1>2 DEF CopyOK, SizeRight
<1>4. want = 0 \/ pos >= size BY <1>1, <1>2 DEF SizeRight
<1>5. PICK from \in Nat : from = pos - g BY <1>3
<1>6. IsSlice(Slice(c, from, pos), c, from, g)
  <2>1. pos - from = g /\ from <= pos BY <1>3, <1>5
  <2>2. QED BY <1>2, <1>3, <2>1, SliceIn
<1>7. got = Slice(c, from, pos) BY <1>3, <1>5, <1>6, SliceUnique
<1>8. PICK to \in Nat : to = from + asked OBVIOUS
<1>9. Slice(c, from, to) = Slice(c, from, pos)
  <2>1. CASE want = 0
    <3>1. to = pos BY <1>3, <1>5, <1>8, <2>1
    <3>2. QED BY <3>1
  <2>2. CASE want # 0
    <3>1. pos = size /\ to >= size BY <1>3, <1>4, <1>5, <1>8, <2>2
    <3>2. QED BY <1>2, <3>1, SliceEnd
  <2>3. QED BY <2>1, <2>2
<1>10. QED BY <1>1, <1>2, <1>5, <1>7, <1>8, <1>9

\* One reader changes.
LEMMA ReaderFrame ==
  ASSUME IInv, NEW r \in Readers, layer # NoLayer, scan.for # "verify", NEW x,
         readers' = [readers EXCEPT ![r] = x],
         x # None => ReaderOK(x, disk, layer.manifest.files, layer.on_failure),
         UNCHANGED <<disk, job, mfile, tfile, layer, scan, range, steady, mods, builds>>,
         calls' \in 0..MaxCalls, cache' \subseteq 0..layer.tree.leaf_count - 1
  PROVE  IInv'
<1>1. DiskInv' /\ CountInv' /\ FileInv' /\ JobInv' BY DEF IInv, DiskInv, CountInv, FileInv, JobInv
<1>2. LayerInv' BY DEF IInv, LayerInv
<1>3. ScanInv' /\ RangeInv' BY DEF IInv, ScanInv, RangeInv
<1>4. readers = [q \in Readers |-> readers[q]] BY DEF IInv, ReaderInv
<1>5. readers' = [q \in Readers |-> IF q = r THEN x ELSE readers[q]] BY <1>4
<1>6. ReaderInv' BY <1>5 DEF IInv, ReaderInv
<1>7. QED BY <1>1, <1>2, <1>3, <1>6 DEF IInv

\* What a reader's step finds.
LEMMA ReaderSees ==
  ASSUME IInv, NEW r \in Readers, Reading(r)
  PROVE  /\ layer # NoLayer /\ scan.for # "verify" /\ LayerOK(layer, scan.for)
         /\ layer.root_hash = layer.manifest.root_hash
         /\ ReaderOK(readers[r], disk, layer.manifest.files, layer.on_failure)
         /\ readers[r] \in VerifiedReader
         /\ disk \in [Files -> Contents \cup {Absent}]
         /\ cache \subseteq 0..layer.tree.leaf_count - 1
         /\ UNCHANGED <<disk, job, mfile, tfile, layer, scan, range, steady, mods, builds>>
<1>1. readers[r] # None BY DEF Reading
<1>2. layer # NoLayer BY <1>1 DEF IInv, LayerInv
<1>3. scan.for # "verify"
  <2>1. CASE scan = NoScan BY <2>1 DEF NoScan
  <2>2. CASE scan # NoScan BY <1>1, <2>2 DEF IInv, ScanInv
  <2>3. QED BY <2>1, <2>2
<1>4. LayerOK(layer, scan.for) /\ cache \subseteq 0..layer.tree.leaf_count - 1 BY <1>2 DEF IInv, LayerInv
<1>5. layer.root_hash = layer.manifest.root_hash BY <1>3, <1>4 DEF LayerOK
<1>6. ReaderOK(readers[r], disk, layer.manifest.files, layer.on_failure) BY <1>1 DEF IInv, ReaderInv
<1>7. QED BY <1>2, <1>3, <1>4, <1>5, <1>6 DEF ReaderOK, IInv, DiskInv, Reading

LEMMA open_fileInv == ASSUME IInv, NEW r \in Readers, NEW p \in Paths, open_file(r, p) PROVE IInv'
<1>1. /\ layer # NoLayer /\ scan.for # "verify" /\ UNCHANGED <<disk, job, mfile, tfile, layer, cache, scan, range, steady, mods, builds>>
      /\ calls' = calls
  BY DEF open_file, Mounted
<1>2. FollowIn(disk, p) # Absent BY OfDisk DEF open_file
<1>3. PICK i \in EntryFor(p) : readers' = [readers EXCEPT ![r] =
          [entry |-> layer.manifest.files[i], position |-> 0, current |-> None, want |-> 0, asked |-> 0, got |-> << >>]]
  BY DEF open_file
<1>4. PICK files \in Seq(FileEntry) : files = layer.manifest.files BY <1>1 DEF IInv, LayerInv, LayerOK, GoodManifest, GoodBlob
<1>5. i \in 1..Len(files) /\ files[i].path = p BY <1>4, LenProperties DEF EntryFor
<1>6. PICK e \in FileEntry : e = files[i] /\ EntryOf(e, files) /\ e.path = p BY <1>5, ElementOfSeq DEF EntryOf
<1>7. PICK x : x = [entry |-> e, position |-> 0, current |-> None, want |-> 0, asked |-> 0, got |-> << >>] OBVIOUS
<1>8. x \in VerifiedReader /\ x.entry = e /\ x.current = None /\ x.want = 0 /\ x.asked = 0
  BY <1>7, EmptySeq DEF VerifiedReader
<1>9. ReaderOK(x, disk, files, layer.on_failure) BY <1>2, <1>6, <1>8 DEF ReaderOK
<1>10. calls' \in 0..MaxCalls BY <1>1, CalledType
<1>11. cache' \subseteq 0..layer.tree.leaf_count - 1 BY <1>1 DEF IInv, LayerInv
<1>12. readers' = [readers EXCEPT ![r] = x] BY <1>3, <1>4, <1>6, <1>7
<1>13. QED BY <1>1, <1>4, <1>9, <1>10, <1>11, <1>12, ReaderFrame

LEMMA closeInv == ASSUME IInv, NEW r \in Readers, close(r) PROVE IInv'
<1>1. Reading(r) /\ readers' = [readers EXCEPT ![r] = None] /\ Called /\ cache' = cache BY DEF close
<1>2. calls' \in 0..MaxCalls BY <1>1, CalledType
<1>3. cache' \subseteq 0..layer.tree.leaf_count - 1 BY <1>1, ReaderSees
<1>4. layer # NoLayer /\ scan.for # "verify" /\ UNCHANGED <<disk, job, mfile, tfile, layer, scan, range, steady, mods, builds>>
  BY <1>1, ReaderSees
<1>5. QED BY <1>1, <1>2, <1>3, <1>4, ReaderFrame

LEMMA seekInv == ASSUME IInv, NEW r \in Readers, NEW pos \in Int, seek(r, pos) PROVE IInv'
<1>1. /\ Reading(r) /\ readers[r].want = 0 /\ Called /\ cache' = cache
      /\ readers' = IF pos < 0 THEN readers ELSE [readers EXCEPT ![r].position = pos]
  BY DEF seek
<1>2. PICK rd \in VerifiedReader : rd = readers[r] /\ ReaderOK(rd, disk, layer.manifest.files, layer.on_failure)
  BY <1>1, ReaderSees
<1>3. calls' \in 0..MaxCalls /\ cache' \subseteq 0..layer.tree.leaf_count - 1 BY <1>1, CalledType, ReaderSees
<1>4. layer # NoLayer /\ scan.for # "verify" /\ UNCHANGED <<disk, job, mfile, tfile, layer, scan, range, steady, mods, builds>>
  BY <1>1, ReaderSees
<1>5. CASE pos < 0
  <2>1. readers' = [readers EXCEPT ![r] = rd] BY <1>1, <1>2, <1>5 DEF IInv, ReaderInv
  <2>2. QED BY <1>2, <1>3, <1>4, <2>1, ReaderFrame
<1>6. CASE ~(pos < 0)
  <2>1. PICK x : x = [rd EXCEPT !.position = pos] OBVIOUS
  <2>2. pos \in Nat BY <1>6
  <2>3. x \in VerifiedReader /\ x.entry = rd.entry /\ x.current = rd.current /\ x.want = rd.want /\ x.asked = rd.asked
    BY <2>1, <2>2 DEF VerifiedReader
  <2>4. ~(rd.want > 0) BY <1>1, <1>2
  <2>5. ReaderOK(x, disk, layer.manifest.files, layer.on_failure) BY <1>2, <2>3, <2>4 DEF ReaderOK
  <2>6. readers' = [readers EXCEPT ![r] = x] BY <1>1, <1>2, <1>6, <2>1
  <2>7. QED BY <1>3, <1>4, <2>5, <2>6, ReaderFrame
<1>7. QED BY <1>5, <1>6

LEMMA readInv == ASSUME IInv, NEW r \in Readers, NEW n \in Nat \ {0}, read(r, n) PROVE IInv'
<1>1. Reading(r) /\ readers[r].want = 0 /\ Called /\ cache' = cache BY DEF read
<1>2. PICK rd \in VerifiedReader : rd = readers[r] /\ ReaderOK(rd, disk, layer.manifest.files, layer.on_failure)
  BY <1>1, ReaderSees
<1>3. calls' \in 0..MaxCalls /\ cache' \subseteq 0..layer.tree.leaf_count - 1 BY <1>1, CalledType, ReaderSees
<1>4. layer # NoLayer /\ scan.for # "verify" /\ UNCHANGED <<disk, job, mfile, tfile, layer, scan, range, steady, mods, builds>>
  BY <1>1, ReaderSees
<1>5. PICK rd1 : rd1 = [rd EXCEPT !.asked = n, !.got = << >>] OBVIOUS
<1>6. rd1.position = rd.position /\ rd1.entry = rd.entry BY <1>5 DEF VerifiedReader
<1>7. CASE rd.position >= rd.entry.size
  <2>1. readers' = readers BY <1>2, <1>5, <1>6, <1>7 DEF read
  <2>2. readers' = [readers EXCEPT ![r] = rd] BY <1>2, <2>1 DEF IInv, ReaderInv
  <2>3. QED BY <1>2, <1>3, <1>4, <2>2, ReaderFrame
<1>8. CASE ~(rd.position >= rd.entry.size)
  <2>1. PICK x : x = [rd1 EXCEPT !.want = n] OBVIOUS
  <2>2. readers' = [readers EXCEPT ![r] = x] BY <1>2, <1>5, <1>6, <1>8, <2>1 DEF read
  <2>3. /\ x \in VerifiedReader /\ x.entry = rd.entry /\ x.current = rd.current /\ x.want = n /\ x.asked = n
        /\ x.position = rd.position /\ x.got = << >>
    BY <1>5, <2>1, EmptySeq DEF VerifiedReader
  <2>4. rd.position \in Nat /\ rd.entry \in FileEntry BY DEF VerifiedReader
  <2>5. rd.entry.size \in Nat /\ rd.position < rd.entry.size BY <1>8, <2>4, ContentType
  <2>6. Len(<< >>) = 0 /\ IsSlice(<< >>, rd.entry.content_hash, rd.position - 0, 0) BY EmptySeq DEF IsSlice
  <2>7. ReaderOK(x, disk, layer.manifest.files, layer.on_failure)
    <3>1. x.asked = x.want + Len(x.got) /\ Len(x.got) <= x.position /\ x.want <= x.asked BY <2>3, <2>4, <2>6
    <3>2. IsSlice(x.got, x.entry.content_hash, x.position - Len(x.got), Len(x.got)) BY <2>3, <2>6
    <3>3. QED BY <1>2, <2>3, <2>5, <3>1, <3>2 DEF ReaderOK
  <2>8. QED BY <1>3, <1>4, <2>2, <2>7, ReaderFrame
<1>9. QED BY <1>7, <1>8

\* A read between two blocks, or at its end, is a reader that may go on.
LEMMA CopiedReader ==
  ASSUME NEW d, NEW files, NEW mode, NEW rd, ReaderOK(rd, d, files, mode), NEW now, CopyOK(now, mode),
         now.entry = rd.entry, now.current = rd.current
  PROVE  /\ ReaderOK([now EXCEPT !.want = 0, !.got = << >>], d, files, mode)
         /\ ~(now.want = 0 \/ now.position >= now.entry.size) => ReaderOK(now, d, files, mode)
<1>1. now \in VerifiedReader /\ rd \in VerifiedReader BY DEF CopyOK, ReaderOK
<1>2. PICK x : x = [now EXCEPT !.want = 0, !.got = << >>] OBVIOUS
<1>3. x \in VerifiedReader /\ x.entry = rd.entry /\ x.current = rd.current /\ x.want = 0 /\ x.asked \in Nat
  BY <1>1, <1>2, EmptySeq DEF VerifiedReader
<1>4. ReaderOK(x, d, files, mode) BY <1>3 DEF ReaderOK
<1>5. ASSUME ~(now.want = 0 \/ now.position >= now.entry.size) PROVE ReaderOK(now, d, files, mode)
  <2>1. PICK e \in FileEntry, pos \in Nat, want \in Nat, got \in Seq(Nat) :
            e = now.entry /\ pos = now.position /\ want = now.want /\ got = now.got
    BY <1>1 DEF VerifiedReader
  <2>2. e.size \in Nat /\ Len(got) \in Nat BY ContentType, LenProperties
  <2>3. pos < e.size BY <1>5, <2>1, <2>2
  <2>4. now.want <= now.asked BY <2>1, <2>2 DEF CopyOK
  <2>5. QED BY <1>1, <2>1, <2>3, <2>4 DEF CopyOK, ReaderOK
<1>6. QED BY <1>2, <1>4, <1>5

LEMMA CopiedInv ==
  ASSUME IInv, NEW r \in Readers, Reading(r), calls' = calls, cache' \subseteq 0..layer.tree.leaf_count - 1,
         NEW rd, ReaderOK(rd, disk, layer.manifest.files, layer.on_failure), rd.want > 0,
         NEW data, BlockOK(rd.entry, rd.position \div BlockSize, data, layer.on_failure), Copied(r, rd, data)
  PROVE  IInv'
<1>1. PICK now : now = CopyOf(rd, data) OBVIOUS
<1>2. CopyOK(now, layer.on_failure) /\ now.entry = rd.entry /\ now.current = rd.current BY <1>1, Copies
<1>3. PICK done \in BOOLEAN : done <=> (now.want = 0 \/ now.position >= now.entry.size) OBVIOUS
<1>4. PICK x : x = IF done THEN [now EXCEPT !.want = 0, !.got = << >>] ELSE now OBVIOUS
<1>5. readers' = [readers EXCEPT ![r] = x] BY <1>1, <1>3, <1>4 DEF Copied, CopyOf
<1>6. ReaderOK(x, disk, layer.manifest.files, layer.on_failure)
  <2>1. CASE done BY <1>2, <1>4, <2>1, CopiedReader
  <2>2. CASE ~done BY <1>2, <1>3, <1>4, <2>2, CopiedReader
  <2>3. QED BY <2>1, <2>2
<1>7. layer # NoLayer /\ scan.for # "verify" /\ UNCHANGED <<disk, job, mfile, tfile, layer, scan, range, steady, mods, builds>>
  BY ReaderSees
<1>8. calls' \in 0..MaxCalls BY CalledType
<1>9. QED BY <1>5, <1>6, <1>7, <1>8, ReaderFrame

LEMMA FailedInv ==
  ASSUME IInv, NEW r \in Readers, Reading(r), calls' = calls, cache' = cache, NEW rd, Failed(r, rd)
  PROVE  IInv'
<1>1. PICK o \in VerifiedReader : o = readers[r] /\ ReaderOK(o, disk, layer.manifest.files, layer.on_failure) BY ReaderSees
<1>2. PICK x : x = [o EXCEPT !.want = 0, !.got = << >>] OBVIOUS
<1>3. x \in VerifiedReader /\ x.entry = o.entry /\ x.current = o.current /\ x.want = 0 /\ x.asked \in Nat
  BY <1>2, EmptySeq DEF VerifiedReader
<1>4. ReaderOK(x, disk, layer.manifest.files, layer.on_failure) BY <1>1, <1>3 DEF ReaderOK
<1>5. readers = [q \in Readers |-> readers[q]] BY DEF IInv, ReaderInv
<1>6. readers' = [readers EXCEPT ![r].want = 0, ![r].got = << >>] BY DEF Failed
<1>7. readers' = [readers EXCEPT ![r] = x] BY <1>1, <1>2, <1>5, <1>6
<1>8. layer # NoLayer /\ scan.for # "verify" /\ UNCHANGED <<disk, job, mfile, tfile, layer, scan, range, steady, mods, builds>>
  BY ReaderSees
<1>9. calls' \in 0..MaxCalls /\ cache' \subseteq 0..layer.tree.leaf_count - 1 BY CalledType, ReaderSees
<1>10. QED BY <1>4, <1>7, <1>8, <1>9, ReaderFrame

\* What load_block reads, and what the tree says of it.
LoadOK(l, e, f, k, n, data) ==
    /\ data \in Seq(Nat) /\ IsSlice(data, f, k * BlockSize, n)
    /\ SizeRight(e) => (verify_block(l.tree, e.block_range[1] + k, data, l.root_hash) <=> data = Block(e.content_hash, k))

LEMMA Loads ==
  ASSUME NEW l, NEW for, LayerOK(l, for), l.root_hash = l.manifest.root_hash, NEW d \in [Files -> Contents \cup {Absent}],
         NEW e, EntryOf(e, l.manifest.files), NEW pos \in Nat, pos < e.size,
         NEW f, f = FollowIn(d, e.path), f # Absent,
         NEW k, k = pos \div BlockSize, NEW n, n = ToRead(e, k), ~(Len(f) < k * BlockSize + n),
         NEW data, data = Slice(f, k * BlockSize, k * BlockSize + n)
  PROVE  LoadOK(l, e, f, k, n, data)
<1>1. e \in FileEntry BY EntryRange DEF LayerOK
<1>2. PICK c \in Seq(Nat) : c = e.content_hash BY <1>1, ContentType
<1>3. f \in Seq(Nat) /\ Len(f) \in Nat BY <1>1, ContentType, FollowType, LenProperties
<1>4. PICK off : InEntry(e, pos, k, off, n) BY <1>1, ToReadIs
<1>5. PICK a \in Nat : a = k * BlockSize /\ k \in Nat /\ n \in Nat BY <1>4 DEF InEntry
<1>6. PICK to \in Nat : to = a + n /\ to - a = n /\ a <= to BY <1>5
<1>7. to <= Len(f) BY <1>3, <1>5, <1>6
<1>8. data = Slice(f, a, to) BY <1>5, <1>6
<1>9. IsSlice(data, f, a, n) BY <1>3, <1>6, <1>7, <1>8, SliceIn
<1>10. data \in Seq(Nat) /\ Len(data) = n BY <1>9 DEF IsSlice
<1>11. ASSUME SizeRight(e)
       PROVE  verify_block(l.tree, e.block_range[1] + k, data, l.root_hash) <=> data = Block(e.content_hash, k)
  <2>1. k < BlocksOf(Len(c)) /\ n = InBlock(Len(c), k) BY <1>2, <1>4, <1>11 DEF InEntry, SizeRight
  <2>2. verify_block(l.tree, e.block_range[1] + k, data, l.root_hash) <=> Padded(data) = Padded(Block(c, k))
    BY <1>2, <1>5, <2>1, LayerTrusts
  <2>3. PICK b \in Seq(Nat) : b = Block(c, k) /\ Len(b) = n /\ Len(b) \in 0..BlockSize BY <1>5, <2>1, BlockType
  <2>4. Len(data) <= BlockSize BY <1>10, <2>3, BlockSizeAssumption
  <2>5. Padded(data) = Padded(b) => data = b BY <1>10, <2>3, <2>4, PaddedSame
  <2>6. QED BY <1>2, <2>2, <2>3, <2>5
<1>12. QED BY <1>5, <1>9, <1>10, <1>11 DEF LoadOK

\* The four ways a round of read's loop can go.
LEMMA ReadRound ==
  ASSUME IInv, NEW r \in Readers, ReadStep(r)
  PROVE  \E rd, k, n, f, data, rd2 :
            /\ rd = readers[r] /\ rd \in VerifiedReader /\ rd.want > 0
            /\ ReaderOK(rd, disk, layer.manifest.files, layer.on_failure)
            /\ k = rd.position \div BlockSize /\ n = ToRead(rd.entry, k) /\ f = FollowIn(disk, rd.entry.path) /\ f \in Seq(Nat)
            /\ rd2 = [rd EXCEPT !.current = [block |-> k, data |-> data]]
            /\ \/ /\ BlockOK(rd.entry, k, rd.current.data, layer.on_failure)
                  /\ Copied(r, rd, rd.current.data) /\ cache' = cache
               \/ Len(f) < k * BlockSize + n /\ Failed(r, rd) /\ cache' = cache
               \/ /\ LoadOK(layer, rd.entry, f, k, n, data)
                  /\ ~verify_block(layer.tree, rd.entry.block_range[1] + k, data, layer.root_hash)
                  /\ Failed(r, rd) /\ cache' = cache
               \/ /\ ReaderOK(rd2, disk, layer.manifest.files, layer.on_failure)
                  /\ rd2.want > 0 /\ rd2.position = rd.position /\ rd2.entry = rd.entry
                  /\ BlockOK(rd.entry, k, data, layer.on_failure)
                  /\ Copied(r, rd2, data) /\ cache' \subseteq 0..layer.tree.leaf_count - 1
<1>1. Reading(r) /\ readers[r].want > 0 BY DEF ReadStep
<1>2. /\ layer # NoLayer /\ scan.for # "verify" /\ LayerOK(layer, scan.for)
      /\ layer.root_hash = layer.manifest.root_hash /\ disk \in [Files -> Contents \cup {Absent}]
  BY <1>1, ReaderSees
<1>3. PICK rd \in VerifiedReader : /\ rd = readers[r] /\ ReaderOK(rd, disk, layer.manifest.files, layer.on_failure)
  BY <1>1, ReaderSees
<1>4. PICK e \in FileEntry, pos \in Nat : e = rd.entry /\ pos = rd.position BY DEF VerifiedReader
<1>5. rd.want > 0 /\ pos < e.size /\ EntryOf(e, layer.manifest.files) BY <1>1, <1>3, <1>4 DEF ReaderOK
<1>6. PICK f : f = FollowIn(disk, e.path) /\ f # Absent /\ f = Follow(e.path) BY <1>3, <1>4, OfDisk DEF ReaderOK
<1>7. f \in Seq(Nat) BY <1>2, <1>6, ContentType, FollowType
<1>8. PICK k, n : k = pos \div BlockSize /\ n = ToRead(e, k) OBVIOUS
<1>9. k \in Nat BY <1>8, DivMod
<1>10. PICK data, b : data = Slice(f, k * BlockSize, k * BlockSize + n) /\ b = e.block_range[1] + k OBVIOUS
<1>11. PICK rd2 : rd2 = [rd EXCEPT !.current = [block |-> k, data |-> data]] OBVIOUS
<1>12. IF Loaded(rd, k) THEN Copied(r, rd, rd.current.data) /\ UNCHANGED cache
       ELSE IF Len(f) < k * BlockSize + n THEN Failed(r, rd) /\ UNCHANGED cache
       ELSE IF Rejects(Trusted(b, data)) THEN Failed(r, rd) /\ UNCHANGED cache
       ELSE /\ Copied(r, rd2, data)
            /\ cache' = cache \cup Mark(IF Trusted(b, data) THEN {b} ELSE {})
  BY <1>3, <1>4, <1>6, <1>8, <1>10, <1>11 DEF ReadStep
<1>13. CASE Loaded(rd, k)
  <2>1. rd.current # None /\ rd.current.block = k BY <1>13 DEF Loaded
  <2>2. rd.current.data \in Seq(Nat) BY <2>1 DEF VerifiedReader
  <2>3. BlockOK(e, k, rd.current.data, layer.on_failure) BY <1>3, <1>4, <1>9, <2>1, <2>2 DEF ReaderOK, BlockOK
  <2>4. QED BY <1>3, <1>4, <1>5, <1>6, <1>7, <1>8, <1>11, <1>12, <1>13, <2>3
<1>14. CASE ~Loaded(rd, k) /\ Len(f) < k * BlockSize + n
  BY <1>3, <1>4, <1>5, <1>6, <1>7, <1>8, <1>11, <1>12, <1>14
<1>15. CASE ~Loaded(rd, k) /\ ~(Len(f) < k * BlockSize + n)
  <2>1. LoadOK(layer, e, f, k, n, data) BY <1>2, <1>5, <1>6, <1>8, <1>10, <1>15, Loads
  <2>2. Trusted(b, data) <=> verify_block(layer.tree, e.block_range[1] + k, data, layer.root_hash)
    BY <1>10 DEF Trusted
  <2>3. CASE Rejects(Trusted(b, data))
    <3>1. ~Trusted(b, data) BY <2>3 DEF Rejects
    <3>2. QED BY <1>3, <1>4, <1>5, <1>6, <1>7, <1>8, <1>11, <1>12, <1>15, <2>1, <2>2, <2>3, <3>1
  <2>4. CASE ~Rejects(Trusted(b, data))
    <3>1. layer.on_failure = "Reject" => Trusted(b, data) BY <2>4 DEF Rejects
    <3>2. layer.on_failure = "Reject" /\ SizeRight(e) => data = Block(e.content_hash, k) BY <2>1, <2>2, <3>1 DEF LoadOK
    <3>3. data \in Seq(Nat) /\ Len(data) = n BY <2>1 DEF LoadOK, IsSlice
    <3>4. BlockOK(e, k, data, layer.on_failure) BY <1>8, <1>9, <3>2, <3>3 DEF BlockOK
    <3>5. PICK cur : cur = [block |-> k, data |-> data] OBVIOUS
    <3>6. cur \in [block : Nat, data : Seq(Nat)] /\ cur.block = k /\ cur.data = data BY <1>9, <3>3, <3>5
    <3>7. /\ rd2 \in VerifiedReader /\ rd2.current = cur /\ rd2.entry = e /\ rd2.position = pos /\ rd2.want = rd.want
          /\ rd2.asked = rd.asked /\ rd2.got = rd.got
      BY <1>4, <1>11, <3>5, <3>6 DEF VerifiedReader
    <3>8. ReaderOK(rd2, disk, layer.manifest.files, layer.on_failure)
      BY <1>3, <1>4, <1>8, <3>2, <3>3, <3>6, <3>7 DEF ReaderOK
    <3>9. cache' \subseteq 0..layer.tree.leaf_count - 1
      <4>1. PICK m : m = (IF Trusted(b, data) THEN {b} ELSE {}) OBVIOUS
      <4>2. e.block_range[1] \in Nat BY DEF FileEntry
      <4>3. b \in Nat BY <1>9, <1>10, <4>2
      <4>4. m \subseteq Nat BY <4>1, <4>3
      <4>5. cache' = cache \cup Mark(m) BY <1>12, <1>15, <2>4, <4>1
      <4>6. QED BY <1>2, <4>4, <4>5, Marks DEF IInv
    <3>10. Copied(r, rd2, data) BY <1>12, <1>15, <2>4
    <3>11. rd2.want > 0 BY <1>5, <3>7
    <3>12. QED BY <1>3, <1>4, <1>5, <1>6, <1>7, <1>8, <1>11, <3>4, <3>7, <3>8, <3>9, <3>10, <3>11
  <2>5. QED BY <2>3, <2>4
<1>16. QED BY <1>13, <1>14, <1>15

LEMMA ReadStepInv == ASSUME IInv, NEW r \in Readers, ReadStep(r) PROVE IInv'
<1>1. Reading(r) /\ calls' = calls BY DEF ReadStep
<1>2. PICK rd, k, n, f, data, rd2 :
            /\ rd = readers[r] /\ rd \in VerifiedReader /\ rd.want > 0
            /\ ReaderOK(rd, disk, layer.manifest.files, layer.on_failure)
            /\ k = rd.position \div BlockSize /\ n = ToRead(rd.entry, k) /\ f = FollowIn(disk, rd.entry.path) /\ f \in Seq(Nat)
            /\ rd2 = [rd EXCEPT !.current = [block |-> k, data |-> data]]
            /\ \/ /\ BlockOK(rd.entry, k, rd.current.data, layer.on_failure)
                  /\ Copied(r, rd, rd.current.data) /\ cache' = cache
               \/ Len(f) < k * BlockSize + n /\ Failed(r, rd) /\ cache' = cache
               \/ /\ LoadOK(layer, rd.entry, f, k, n, data)
                  /\ ~verify_block(layer.tree, rd.entry.block_range[1] + k, data, layer.root_hash)
                  /\ Failed(r, rd) /\ cache' = cache
               \/ /\ ReaderOK(rd2, disk, layer.manifest.files, layer.on_failure)
                  /\ rd2.want > 0 /\ rd2.position = rd.position /\ rd2.entry = rd.entry
                  /\ BlockOK(rd.entry, k, data, layer.on_failure)
                  /\ Copied(r, rd2, data) /\ cache' \subseteq 0..layer.tree.leaf_count - 1
  BY ReadRound
<1>3. cache \subseteq 0..layer.tree.leaf_count - 1 BY <1>1, ReaderSees
<1>4. CASE /\ BlockOK(rd.entry, k, rd.current.data, layer.on_failure)
           /\ Copied(r, rd, rd.current.data) /\ cache' = cache
  BY <1>1, <1>2, <1>3, <1>4, CopiedInv
<1>5. CASE Failed(r, rd) /\ cache' = cache BY <1>1, <1>5, FailedInv
<1>6. CASE /\ ReaderOK(rd2, disk, layer.manifest.files, layer.on_failure)
           /\ rd2.want > 0 /\ rd2.position = rd.position /\ rd2.entry = rd.entry
           /\ BlockOK(rd.entry, k, data, layer.on_failure)
           /\ Copied(r, rd2, data) /\ cache' \subseteq 0..layer.tree.leaf_count - 1
  <2>1. BlockOK(rd2.entry, rd2.position \div BlockSize, data, layer.on_failure) BY <1>2, <1>6
  <2>2. QED BY <1>1, <1>6, <2>1, CopiedInv
<1>7. QED BY <1>2, <1>4, <1>5, <1>6

LEMMA ModifyInv == ASSUME IInv, NEW p \in Files, NEW c \in Contents, Modify(p, c) PROVE IInv'
<1>1. /\ disk' = [disk EXCEPT ![p] = c] /\ steady' = FALSE /\ mods < MaxMods /\ mods' = mods + 1
      /\ UNCHANGED <<job, mfile, tfile, layer, cache, readers, scan, range, builds, calls>>
  BY DEF Modify
<1>2. PICK d, d2 : d = disk /\ d2 = disk' /\ d \in [Files -> Contents \cup {Absent}] /\ d2 \in [Files -> Contents \cup {Absent}]
  BY <1>1 DEF IInv, DiskInv
<1>3. DiskInv' BY <1>2 DEF DiskInv
<1>4. CountInv' BY <1>1, VerityAssumption DEF IInv, CountInv
<1>5. FileInv' /\ LayerInv' BY <1>1 DEF IInv, FileInv, LayerInv
<1>6. ASSUME NEW q \in Paths, FollowIn(d, q) # Absent PROVE FollowIn(d2, q) # Absent
  <2>1. PICK x \in Files : x = IF q \in DOMAIN Link THEN Link[q] ELSE q BY VerityAssumption DEF Files
  <2>2. FollowIn(d, q) = d[x] /\ FollowIn(d2, q) = d2[x] BY <2>1 DEF FollowIn
  <2>3. d2[x] = IF x = p THEN c ELSE d[x] BY <1>1, <1>2
  <2>4. QED BY <1>6, <2>2, <2>3, VerityAssumption
<1>7. JobInv'
  <2>1. SUFFICES ASSUME job # None PROVE layer = NoLayer /\ JobOK(job, d2, mfile) BY <1>1, <1>2 DEF JobInv
  <2>2. layer = NoLayer /\ JobOK(job, d, mfile) BY <1>2, <2>1 DEF IInv, JobInv
  <2>3. PICK todo \in Seq(Paths) : todo = job.todo BY <2>2 DEF JobOK, JobType
  <2>4. ASSUME NEW i \in 1..Len(todo) PROVE CollectsIn(d2, job.builder, todo[i])
    <3>1. todo[i] \in Paths BY ElementOfSeq
    <3>2. CollectsIn(d, job.builder, todo[i]) BY <2>2, <2>3 DEF JobOK
    <3>3. QED BY <1>6, <3>1, <3>2 DEF CollectsIn
  <2>5. QED BY <2>2, <2>3, <2>4 DEF JobOK
<1>8. ScanInv'
  <2>1. SUFFICES ASSUME scan # NoScan
        PROVE  /\ scan \in ScanType
               /\ scan.for = "verify" => /\ \A r \in Readers : readers[r] = None
                                         /\ VerifyOK(layer, mfile, d2, FALSE)
    BY <1>1, <1>2 DEF ScanInv
  <2>2. QED BY <2>1 DEF IInv, ScanInv, VerifyOK
<1>9. ReaderInv'
  <2>1. SUFFICES ASSUME NEW r \in Readers, readers[r] # None
        PROVE  ReaderOK(readers[r], d2, layer.manifest.files, layer.on_failure)
    BY <1>1, <1>2 DEF IInv, ReaderInv
  <2>2. ReaderOK(readers[r], d, layer.manifest.files, layer.on_failure) BY <1>2, <2>1 DEF IInv, ReaderInv
  <2>3. PICK q \in Paths : q = readers[r].entry.path BY <2>2 DEF ReaderOK, VerifiedReader, FileEntry
  <2>4. FollowIn(d2, q) # Absent BY <1>6, <2>2, <2>3 DEF ReaderOK
  <2>5. QED BY <2>2, <2>3, <2>4 DEF ReaderOK
<1>10. RangeInv'
  <2>1. SUFFICES ASSUME range # None PROVE scan = NoScan /\ RangeOK(range, d2, layer, FALSE)
    BY <1>1, <1>2 DEF RangeInv
  <2>2. QED BY <2>1 DEF IInv, RangeInv, RangeOK
<1>11. QED BY <1>3, <1>4, <1>5, <1>7, <1>8, <1>9, <1>10 DEF IInv

LEMMA NextInv == ASSUME IInv, [Next]_vars PROVE IInv'
<1>1. CASE StartPin
  <2>1. PICK b \in {"vfs", "dir"} : StartBuild("pin", b, FALSE) BY <1>1 DEF StartPin
  <2>2. QED BY <2>1, StartBuildInv
<1>2. CASE StartMount
  <2>1. StartBuild("mount", "vfs", FALSE) BY <1>2 DEF StartMount
  <2>2. QED BY <2>1, StartBuildInv
<1>3. CASE StartVerify
  <2>1. PICK w \in BOOLEAN : StartBuild("verify", "vfs", w) /\ mfile \notin {None, Torn} BY <1>3 DEF StartVerify
  <2>2. QED BY <2>1, StartBuildInv
<1>4. CASE Stat \/ ReadFile \/ BuildError BY <1>4, StatInv, ReadFileInv, BuildErrorInv
<1>5. CASE WriteManifest \/ WriteTree BY <1>5, WriteManifestInv, WriteTreeInv
<1>6. CASE FinishMount \/ load_pinned \/ FinishVerify BY <1>6, FinishMountInv, load_pinnedInv, FinishVerifyInv
<1>7. CASE full_check \/ ScanBlock \/ ScanNext \/ ScanDone \/ RangeStep
  BY <1>7, full_checkInv, ScanBlockInv, ScanNextInv, ScanDoneInv, RangeStepInv
<1>8. CASE \E p \in Paths, off \in {0, MaxRead - 1} : verify_file_blocks(p, off, MaxRead)
  <2>1. MaxRead \in Nat \ {0} /\ MaxRead - 1 \in Nat BY VerityAssumption
  <2>2. PICK p \in Paths, off \in Nat : verify_file_blocks(p, off, MaxRead) BY <1>8, <2>1
  <2>3. QED BY <2>1, <2>2, verify_file_blocksInv
<1>9. ASSUME NEW r \in Readers,
             \/ ReadStep(r) \/ close(r)
             \/ \E p \in Paths : open_file(r, p)
             \/ \E n \in {1, MaxRead} : read(r, n)
             \/ \E pos \in {-1, MaxRead - 1} : seek(r, pos)
      PROVE  IInv'
  <2>1. MaxRead - 1 \in Nat /\ MaxRead \in Nat \ {0} BY VerityAssumption
  <2>2. CASE ReadStep(r) BY <2>2, ReadStepInv
  <2>3. CASE close(r) BY <2>3, closeInv
  <2>4. CASE \E p \in Paths : open_file(r, p) BY <2>4, open_fileInv
  <2>5. CASE \E n \in {1, MaxRead} : read(r, n)
    <3>1. PICK n \in Nat \ {0} : read(r, n) BY <2>1, <2>5
    <3>2. QED BY <3>1, readInv
  <2>6. CASE \E pos \in {-1, MaxRead - 1} : seek(r, pos)
    <3>1. PICK pos \in Int : seek(r, pos) BY <2>1, <2>6
    <3>2. QED BY <3>1, seekInv
  <2>7. QED BY <1>9, <2>2, <2>3, <2>4, <2>5, <2>6
<1>10. CASE \E p \in Files, c \in Contents : Modify(p, c) BY <1>10, ModifyInv
<1>11. CASE UNCHANGED vars
  <2>1. DiskInv' /\ CountInv' /\ JobInv' /\ FileInv' BY <1>11 DEF vars, IInv, DiskInv, CountInv, JobInv, FileInv
  <2>2. LayerInv' /\ ScanInv' /\ RangeInv' /\ ReaderInv' BY <1>11 DEF vars, IInv, LayerInv, ScanInv, RangeInv, ReaderInv
  <2>3. QED BY <2>1, <2>2 DEF IInv
<1>12. QED BY <1>1, <1>2, <1>3, <1>4, <1>5, <1>6, <1>7, <1>8, <1>9, <1>10, <1>11 DEF Next

LEMMA Invariance == Spec => []IInv
<1>1. QED BY InitInv, NextInv, PTL DEF Spec

(***************************************************************************)
(* The types.                                                              *)
(***************************************************************************)

\* The ranges of a blob's files follow each other and end inside it.
LEMMA BlobRanges ==
  ASSUME NEW files, NEW data, GoodBlob(files, data)
  PROVE  /\ Len(data) % BlockSize = 0 /\ files \in Seq(FileEntry)
         /\ \A i \in DOMAIN files :
              /\ files[i].block_range[1] = IF i = 1 THEN 0 ELSE files[i - 1].block_range[2]
              /\ files[i].block_range[2] * BlockSize <= Len(data)
<1>1. files \in Seq(FileEntry) /\ DOMAIN files = 1..Len(files) BY LenProperties DEF GoodBlob
<1>2. PICK m \in Nat : Len(data) = m * BlockSize BY DEF GoodBlob
<1>3. (m * BlockSize) % BlockSize = 0 BY BlockSizeAssumption
<1>4. QED BY <1>1, <1>2, <1>3 DEF GoodBlob, GoodEntry

LEMMA InvType == IInv => TypeOK
<1>1. SUFFICES ASSUME IInv PROVE TypeOK OBVIOUS
<1>2. ASSUME job # None
      PROVE  /\ Len(job.data) % BlockSize = 0
             /\ job.files \in Seq(FileEntry)
             /\ \A i \in DOMAIN job.files :
                  LET blocks == job.files[i].block_range IN
                  /\ blocks[1] = IF i = 1 THEN 0 ELSE job.files[i - 1].block_range[2]
                  /\ blocks[2] * BlockSize <= Len(job.data)
  <2>1. GoodBlob(job.files, job.data) BY <1>1, <1>2 DEF IInv, JobInv, JobOK
  <2>2. QED BY <2>1, BlobRanges
<1>3. ASSUME layer # NoLayer
      PROVE  layer.manifest.files \in Seq(FileEntry) /\ cache \subseteq 0..layer.tree.leaf_count - 1
  BY <1>1, <1>3 DEF IInv, LayerInv, LayerOK, GoodManifest, GoodBlob
<1>4. layer = NoLayer => cache = {} /\ scan = NoScan /\ range = None /\ \A r \in Readers : readers[r] = None
  BY <1>1 DEF IInv, LayerInv
<1>5. \A r \in Readers : readers[r] # None => readers[r] \in VerifiedReader /\ readers[r].want <= readers[r].asked
  BY <1>1 DEF IInv, ReaderInv, ReaderOK
<1>6. QED BY <1>1, <1>2, <1>3, <1>4, <1>5 DEF TypeOK, IInv, DiskInv, CountInv

(***************************************************************************)
(* The tree of a mounted layer.                                            *)
(***************************************************************************)

LEMMA InvTree == IInv => TreeExact
<1>1. SUFFICES ASSUME IInv, layer # NoLayer, layer.root_hash = layer.manifest.root_hash,
                      NEW b \in 0..layer.tree.padded_leaf_count, NEW d \in SomeBlocks
               PROVE  Trusted(b, d) <=> FitsIn(layer.manifest.files, b, d)
  BY DEF TreeExact, Fits, FitsIn
<1>2. LayerOK(layer, scan.for) BY <1>1 DEF IInv, LayerInv
<1>3. b \in Nat
  <2>1. PICK x \in Seq(Nat) : layer.tree = build(x) BY <1>2 DEF LayerOK, IsTree
  <2>2. PICK g, leaves, padded : TreeFacts(build(x), g, x, leaves, padded) BY BuildFacts
  <2>3. layer.tree.padded_leaf_count \in Nat BY <2>1, <2>2 DEF TreeFacts
  <2>4. QED BY <1>1, <2>3
<1>4. QED BY <1>1, <1>2, <1>3, LayerChecks DEF Trusted

(***************************************************************************)
(* What a read returns.                                                    *)
(***************************************************************************)

Replies == Authentic /\ NoFalseAlarm /\ RangeExact /\ ScanExact /\ VerifyExact

LEMMA Silent == ASSUME reply' = None PROVE Replies'
  BY DEF Replies, Authentic, NoFalseAlarm, RangeExact, ScanExact, VerifyExact

LEMMA Answered ==
  ASSUME NEW rd, NEW ok \in BOOLEAN, NEW bytes, Answer(rd, ok, bytes), UNCHANGED <<disk, layer>>,
         ok /\ layer.on_failure = "Reject" /\ SizeRight(rd.entry) =>
            bytes = Slice(rd.entry.content_hash, rd.position - Len(rd.got), rd.position - Len(rd.got) + rd.asked),
         ~ok /\ SizeRight(rd.entry) => ~IsPrefix(rd.entry.content_hash, FollowIn(disk, rd.entry.path))
  PROVE  Replies'
<1>1. PICK a : a = reply' /\ a = [kind |-> "read", entry |-> rd.entry, ok |-> ok, bytes |-> bytes,
                                  asked |-> rd.asked, from |-> rd.position - Len(rd.got)]
  BY DEF Answer
<1>2. /\ a.kind = "read" /\ a.entry = rd.entry /\ a.ok = ok /\ a.bytes = bytes /\ a.asked = rd.asked
      /\ a.from = rd.position - Len(rd.got)
  BY <1>1
<1>3. Authentic' BY <1>1, <1>2 DEF Authentic, SizeRight
<1>4. NoFalseAlarm' BY <1>1, <1>2, OfDisk DEF NoFalseAlarm, SizeRight
<1>5. RangeExact' /\ ScanExact' /\ VerifyExact' BY <1>1, <1>2 DEF RangeExact, ScanExact, VerifyExact
<1>6. QED BY <1>3, <1>4, <1>5 DEF Replies

LEMMA readReply == ASSUME IInv, NEW r \in Readers, NEW n \in Nat \ {0}, read(r, n) PROVE Replies'
<1>1. Reading(r) BY DEF read
<1>2. PICK rd \in VerifiedReader : rd = readers[r] BY <1>1, ReaderSees
<1>3. disk' = disk /\ layer' = layer BY <1>1, ReaderSees
<1>4. PICK rd1 : rd1 = [rd EXCEPT !.asked = n, !.got = << >>] OBVIOUS
<1>5. rd1.position = rd.position /\ rd1.entry = rd.entry /\ rd1.asked = n /\ rd1.got = << >> BY <1>4 DEF VerifiedReader
<1>6. CASE rd.position >= rd.entry.size
  <2>1. Answer(rd1, TRUE, << >>) BY <1>2, <1>4, <1>5, <1>6 DEF read
  <2>2. PICK c \in Seq(Nat), pos \in Nat : c = rd.entry.content_hash /\ pos = rd.position
    BY ContentType DEF VerifiedReader
  <2>3. ASSUME SizeRight(rd.entry) PROVE << >> = Slice(c, pos - 0, pos - 0 + n)
    <3>1. Len(c) \in Nat /\ pos >= Len(c) BY <1>6, <2>2, <2>3, LenProperties DEF SizeRight
    <3>2. PICK to \in Nat : to = pos - 0 + n /\ to >= Len(c) /\ pos - 0 = pos BY <3>1
    <3>3. Slice(c, pos, to) = << >> BY <3>1, <3>2, SliceEnd
    <3>4. QED BY <3>2, <3>3
  <2>4. Len(rd1.got) = 0 BY <1>5, EmptySeq
  <2>5. SizeRight(rd1.entry) =>
           << >> = Slice(rd1.entry.content_hash, rd1.position - Len(rd1.got), rd1.position - Len(rd1.got) + rd1.asked)
    BY <1>5, <2>2, <2>3, <2>4
  <2>6. QED BY <1>3, <2>1, <2>5, Answered
<1>7. CASE ~(rd.position >= rd.entry.size)
  <2>1. reply' = None BY <1>2, <1>4, <1>5, <1>7 DEF read, ReplyNothing
  <2>2. QED BY <2>1, Silent
<1>8. QED BY <1>6, <1>7

LEMMA CopiedReply ==
  ASSUME IInv, NEW r \in Readers, Reading(r), NEW rd, ReaderOK(rd, disk, layer.manifest.files, layer.on_failure), rd.want > 0,
         NEW data, BlockOK(rd.entry, rd.position \div BlockSize, data, layer.on_failure), Copied(r, rd, data)
  PROVE  Replies'
<1>1. PICK now : now = CopyOf(rd, data) OBVIOUS
<1>2. CopyOK(now, layer.on_failure) BY <1>1, Copies
<1>3. disk' = disk /\ layer' = layer BY ReaderSees
<1>4. CASE now.want = 0 \/ now.position >= now.entry.size
  <2>1. Answer(now, TRUE, now.got) BY <1>1, <1>4 DEF Copied, CopyOf
  <2>2. layer.on_failure = "Reject" /\ SizeRight(now.entry) =>
           now.got = Slice(now.entry.content_hash, now.position - Len(now.got), now.position - Len(now.got) + now.asked)
    BY <1>2, <1>4, AnswerRight
  <2>3. QED BY <1>3, <2>1, <2>2, Answered
<1>5. CASE ~(now.want = 0 \/ now.position >= now.entry.size)
  <2>1. reply' = None BY <1>1, <1>5 DEF Copied, CopyOf, ReplyNothing
  <2>2. QED BY <2>1, Silent
<1>6. QED BY <1>4, <1>5

\* A file that still starts with the entry's content has every block load_block asks for.
LEMMA StillThere ==
  ASSUME NEW e \in FileEntry, SizeRight(e), NEW f \in Seq(Nat), IsPrefix(e.content_hash, f), NEW pos \in Nat, pos < e.size,
         NEW k, k = pos \div BlockSize, NEW n, n = ToRead(e, k)
  PROVE  /\ ~(Len(f) < k * BlockSize + n)
         /\ \A data : IsSlice(data, f, k * BlockSize, n) => data = Block(e.content_hash, k)
<1>1. PICK c \in Seq(Nat) : c = e.content_hash /\ e.size = Len(c) BY ContentType DEF SizeRight
<1>2. PICK len \in Nat, flen \in Nat : len = Len(c) /\ flen = Len(f) BY LenProperties
<1>3. len <= flen /\ \A i \in 1..len : c[i] = f[i]
  <2>1. len <= flen /\ SubSeq(c, 1, len) = SubSeq(f, 1, len) BY <1>1, <1>2 DEF IsPrefix
  <2>2. ASSUME NEW i \in 1..len PROVE c[i] = f[i]
    <3>1. SubSeq(c, 1, len)[i] = c[i] /\ SubSeq(f, 1, len)[i] = f[i] BY <1>2, <2>1
    <3>2. QED BY <2>1, <3>1
  <2>3. QED BY <2>1, <2>2
<1>4. PICK off : InEntry(e, pos, k, off, n) BY ToReadIs
<1>5. PICK a \in Nat : a = k * BlockSize /\ n \in Nat /\ k \in Nat /\ a + n <= len /\ n = InBlock(len, k)
  BY <1>1, <1>2, <1>4 DEF InEntry
<1>6. ~(flen < a + n) BY <1>3, <1>5
<1>7. ASSUME NEW data, IsSlice(data, f, a, n) PROVE data = Block(c, k)
  <2>1. ASSUME NEW i \in 1..n PROVE f[a + i] = c[a + i]
    <3>1. a + i \in 1..len BY <1>5
    <3>2. QED BY <1>3, <3>1
  <2>2. IsSlice(data, c, a, n) BY <1>7, <2>1 DEF IsSlice
  <2>3. IsSlice(Block(c, k), c, a, n) BY <1>2, <1>5, BlockIs
  <2>4. QED BY <2>2, <2>3, SliceUnique
<1>8. QED BY <1>1, <1>2, <1>5, <1>6, <1>7

LEMMA FailedReply ==
  ASSUME UNCHANGED <<disk, layer>>, NEW r, NEW rd, Failed(r, rd),
         SizeRight(rd.entry) => ~IsPrefix(rd.entry.content_hash, FollowIn(disk, rd.entry.path))
  PROVE  Replies'
<1>1. Answer(rd, FALSE, << >>) BY DEF Failed
<1>2. QED BY <1>1, Answered

LEMMA ReadStepReply == ASSUME IInv, NEW r \in Readers, ReadStep(r) PROVE Replies'
<1>1. Reading(r) BY DEF ReadStep
<1>2. PICK rd, k, n, f, data, rd2 :
            /\ rd = readers[r] /\ rd \in VerifiedReader /\ rd.want > 0
            /\ ReaderOK(rd, disk, layer.manifest.files, layer.on_failure)
            /\ k = rd.position \div BlockSize /\ n = ToRead(rd.entry, k) /\ f = FollowIn(disk, rd.entry.path) /\ f \in Seq(Nat)
            /\ rd2 = [rd EXCEPT !.current = [block |-> k, data |-> data]]
            /\ \/ /\ BlockOK(rd.entry, k, rd.current.data, layer.on_failure)
                  /\ Copied(r, rd, rd.current.data) /\ cache' = cache
               \/ Len(f) < k * BlockSize + n /\ Failed(r, rd) /\ cache' = cache
               \/ /\ LoadOK(layer, rd.entry, f, k, n, data)
                  /\ ~verify_block(layer.tree, rd.entry.block_range[1] + k, data, layer.root_hash)
                  /\ Failed(r, rd) /\ cache' = cache
               \/ /\ ReaderOK(rd2, disk, layer.manifest.files, layer.on_failure)
                  /\ rd2.want > 0 /\ rd2.position = rd.position /\ rd2.entry = rd.entry
                  /\ BlockOK(rd.entry, k, data, layer.on_failure)
                  /\ Copied(r, rd2, data) /\ cache' \subseteq 0..layer.tree.leaf_count - 1
  BY ReadRound
<1>3. disk' = disk /\ layer' = layer BY <1>1, ReaderSees
<1>4. PICK e \in FileEntry, pos \in Nat : e = rd.entry /\ pos = rd.position /\ pos < e.size
  BY <1>2 DEF VerifiedReader, ReaderOK
<1>5. ASSUME SizeRight(e), IsPrefix(e.content_hash, f)
      PROVE  /\ ~(Len(f) < k * BlockSize + n)
             /\ \A x : IsSlice(x, f, k * BlockSize, n) => x = Block(e.content_hash, k)
  BY <1>2, <1>4, <1>5, StillThere
<1>6. CASE /\ BlockOK(rd.entry, k, rd.current.data, layer.on_failure)
           /\ Copied(r, rd, rd.current.data)
  BY <1>1, <1>2, <1>6, CopiedReply
<1>7. CASE Len(f) < k * BlockSize + n /\ Failed(r, rd)
  <2>1. SizeRight(rd.entry) => ~IsPrefix(rd.entry.content_hash, FollowIn(disk, rd.entry.path)) BY <1>2, <1>4, <1>5, <1>7
  <2>2. QED BY <1>3, <1>7, <2>1, FailedReply
<1>8. CASE /\ LoadOK(layer, rd.entry, f, k, n, data)
           /\ ~verify_block(layer.tree, rd.entry.block_range[1] + k, data, layer.root_hash)
           /\ Failed(r, rd)
  <2>1. SizeRight(e) => data # Block(e.content_hash, k) BY <1>4, <1>8 DEF LoadOK
  <2>2. IsSlice(data, f, k * BlockSize, n) BY <1>8 DEF LoadOK
  <2>3. SizeRight(rd.entry) => ~IsPrefix(rd.entry.content_hash, FollowIn(disk, rd.entry.path))
    BY <1>2, <1>4, <1>5, <2>1, <2>2
  <2>4. QED BY <1>3, <1>8, <2>3, FailedReply
<1>9. CASE /\ ReaderOK(rd2, disk, layer.manifest.files, layer.on_failure)
           /\ rd2.want > 0 /\ rd2.position = rd.position /\ rd2.entry = rd.entry
           /\ BlockOK(rd.entry, k, data, layer.on_failure) /\ Copied(r, rd2, data)
  <2>1. BlockOK(rd2.entry, rd2.position \div BlockSize, data, layer.on_failure) BY <1>2, <1>9
  <2>2. QED BY <1>1, <1>9, <2>1, CopiedReply
<1>10. QED BY <1>2, <1>6, <1>7, <1>8, <1>9

(***************************************************************************)
(* What the checks return.                                                 *)
(***************************************************************************)

\* verify_file_blocks has returned.
LEMMA RangeAnswered ==
  ASSUME NEW rg, NEW ok \in BOOLEAN, NEW good \in BOOLEAN, RangeAnswer(rg, ok), UNCHANGED <<disk, layer>>,
         good <=> \/ rg.entry = None
                  \/ \A k \in rg.from..rg.to - 1 :
                        RangeFits(rg.entry, FollowIn(disk, rg.entry.path), layer.manifest.files, k),
         steady' /\ layer.on_failure = "Reject" => (good => ok) /\ (layer.pinned /\ ok => good)
  PROVE  Replies'
<1>1. PICK a : a = reply' /\ a = [kind |-> "range", entry |-> rg.entry, from |-> rg.from, to |-> rg.to, ok |-> ok]
  BY DEF RangeAnswer
<1>2. a.kind = "range" /\ a.entry = rg.entry /\ a.from = rg.from /\ a.to = rg.to /\ a.ok = ok BY <1>1
<1>3. RangeExact' BY <1>1, <1>2, OfDisk DEF RangeExact, RangeFits, Fits, FitsIn
<1>4. Authentic' /\ NoFalseAlarm' /\ ScanExact' /\ VerifyExact'
  BY <1>1, <1>2 DEF Authentic, NoFalseAlarm, ScanExact, VerifyExact
<1>5. QED BY <1>3, <1>4 DEF Replies

LEMMA verify_file_blocksReply ==
  ASSUME IInv, NEW p \in Paths, NEW off \in Nat, NEW len \in Nat \ {0}, verify_file_blocks(p, off, len)
  PROVE  Replies'
<1>1. disk' = disk /\ layer' = layer BY DEF verify_file_blocks
<1>2. CASE \E rg : rg.entry = None /\ RangeAnswer(rg, TRUE)
  <2>1. PICK rg : rg.entry = None /\ RangeAnswer(rg, TRUE) BY <1>2
  <2>2. QED BY <1>1, <2>1, RangeAnswered
<1>3. CASE reply' = None BY <1>3, Silent
<1>4. QED BY <1>2, <1>3, RangeStarts

LEMMA RangeStepReply == ASSUME IInv, RangeStep PROVE Replies'
<1>1. disk' = disk /\ layer' = layer /\ steady' = steady BY DEF RangeStep
<1>2. PICK rg, f, k, t : RangeSeen(rg, f, k, t) /\ (RangeFails(rg, t) \/ RangeGoes(rg, t)) BY RangeRound
<1>3. /\ rg \in RangeType /\ f = FollowIn(disk, rg.entry.path) /\ k = rg.next /\ k \in Nat
      /\ rg.from \in Nat /\ rg.to \in Nat /\ rg.from <= k /\ k < rg.to
      /\ t <=> RangeFits(rg.entry, f, layer.manifest.files, k)
  BY <1>2 DEF RangeSeen, RangeOK, RangeType
<1>4. rg.entry # None BY <1>3, VerityAssumption DEF RangeType
<1>5. PICK good \in BOOLEAN :
         good <=> \A x \in rg.from..rg.to - 1 : RangeFits(rg.entry, f, layer.manifest.files, x)
  OBVIOUS
<1>6. CASE RangeFails(rg, t)
  <2>1. ~t /\ RangeAnswer(rg, FALSE) BY <1>6 DEF RangeFails
  <2>2. k \in rg.from..rg.to - 1 BY <1>3
  <2>3. ~good BY <1>3, <1>5, <2>1, <2>2
  <2>4. QED BY <1>1, <1>3, <1>4, <1>5, <2>1, <2>3, RangeAnswered
<1>7. CASE RangeGoes(rg, t) /\ k + 1 = rg.to
  <2>1. RangeAnswer(rg, TRUE) BY <1>3, <1>7 DEF RangeGoes
  <2>2. rg.to - 1 = k BY <1>3, <1>7
  <2>3. ASSUME steady, layer.on_failure = "Reject", layer.pinned PROVE good
    <3>1. \A x \in rg.from..k : RangeFits(rg.entry, f, layer.manifest.files, x) BY <1>2, <1>7, <2>3, RangeMore
    <3>2. QED BY <1>5, <2>2, <3>1
  <2>4. QED BY <1>1, <1>3, <1>4, <1>5, <2>1, <2>3, RangeAnswered
<1>8. CASE RangeGoes(rg, t) /\ k + 1 # rg.to
  <2>1. reply' = None BY <1>3, <1>8 DEF RangeGoes
  <2>2. QED BY <2>1, Silent
<1>9. QED BY <1>2, <1>6, <1>7, <1>8

\* The files of a directory, as VerifyExact lists them.
NowIn(d) == [i \in DOMAIN CollectedIn(d, "vfs") |-> [content_hash |-> FollowIn(d, CollectedIn(d, "vfs")[i])]]

\* They are the files that build_from_vfs has just listed.
LEMMA NowFiles ==
  ASSUME NEW d, NEW files \in Seq(FileEntry), AsOn(d, files, << >>)
  PROVE  /\ DOMAIN NowIn(d) = 1..Len(files)
         /\ \A i \in 1..Len(files) : NowIn(d)[i].content_hash = files[i].content_hash
<1>1. PICK ps : ps = CollectedIn(d, "vfs") /\ ps \in Seq({p \in Paths : CollectsIn(d, "vfs", p)}) BY CollectedType
<1>2. PICK n \in Nat : n = Len(files) /\ DOMAIN files = 1..n BY LenProperties
<1>3. Len(ps) = n /\ DOMAIN ps = 1..n
  <2>1. Len(<< >>) = 0 BY EmptySeq
  <2>2. Len(ps) = n BY <1>1, <1>2, <2>1 DEF AsOn
  <2>3. QED BY <1>1, <2>2, LenProperties
<1>4. PICK now : now = NowIn(d) OBVIOUS
<1>5. now = [i \in 1..n |-> [content_hash |-> FollowIn(d, ps[i])]] BY <1>1, <1>3, <1>4 DEF NowIn
<1>6. now = NowIn(d) /\ DOMAIN now = 1..n /\ \A i \in 1..n : now[i].content_hash = FollowIn(d, ps[i])
  BY <1>4, <1>5
<1>7. \A i \in 1..n : now[i].content_hash = files[i].content_hash BY <1>1, <1>2, <1>6 DEF AsOn
<1>8. QED BY <1>2, <1>6, <1>7

LEMMA NowImage ==
  ASSUME NEW d, NEW files \in Seq(FileEntry), AsOn(d, files, << >>)
  PROVE  Image(NowIn(d)) = Image(files)
<1>1. PICK n \in Nat : n = Len(files) /\ DOMAIN files = 1..n BY LenProperties
<1>2. PICK now : now = NowIn(d) OBVIOUS
<1>3. DOMAIN now = 1..n /\ \A i \in 1..n : now[i].content_hash = files[i].content_hash BY <1>1, <1>2, NowFiles
<1>4. [i \in DOMAIN now |-> Aligned(now[i].content_hash)] = [i \in DOMAIN files |-> Aligned(files[i].content_hash)]
  BY <1>1, <1>3
<1>5. QED BY <1>2, <1>4 DEF Image

\* The directory's files, those of the manifest, and their roots.
LEMMA VerifyRoots ==
  ASSUME NEW d, NEW files, NEW data, GoodBlob(files, data), AsOn(d, files, << >>), NEW m, GoodManifest(m)
  PROVE  root_hash(build(data)) = m.root_hash <=> Image(NowIn(d)) = Image(m.files)
<1>1. files \in Seq(FileEntry) BY DEF GoodBlob
<1>2. Image(NowIn(d)) = Image(files) BY <1>1, NowImage
<1>3. PICK f2, d2 : f2 = m.files /\ d2 = Flat(f2) /\ GoodBlob(f2, d2) /\ m.root_hash = root_hash(build(d2)) BY DEF GoodManifest
<1>4. root_hash(build(data)) = root_hash(build(d2)) <=> Image(files) = Image(f2) BY <1>3, RootIsImage
<1>5. QED BY <1>2, <1>3, <1>4

\* Every file the directory has is empty.
AllEmpty(now) == \A i \in DOMAIN now : now[i].content_hash = << >>

\* `verity verify` has ended.
LEMMA VerifiedReply ==
  ASSUME NEW w, NEW ok, NEW failed, Verified(w, ok, failed), UNCHANGED <<disk, mfile, steady>>,
         NEW same \in BOOLEAN, same <=> Image(NowIn(disk)) = Image(mfile.files),
         steady => /\ ok <=> same \/ w
                   /\ failed # None => (failed = 0 <=> same \/ AllEmpty(NowIn(disk)))
  PROVE  Replies'
<1>1. PICK a : a = reply' /\ a = [kind |-> "verify", warn |-> w, ok |-> ok, failed |-> failed] BY DEF Verified
<1>2. a.kind = "verify" /\ a.warn = w /\ a.ok = ok /\ a.failed = failed BY <1>1
<1>3. PICK now : now = NowIn(disk) OBVIOUS
<1>4. [i \in DOMAIN Collected("vfs") |-> [content_hash |-> Follow(Collected("vfs")[i])]]' = now
  BY <1>3, OfDisk DEF NowIn
<1>5. VerifyExact' BY <1>1, <1>2, <1>3, <1>4 DEF VerifyExact, AllEmpty
<1>6. Authentic' /\ NoFalseAlarm' /\ RangeExact' /\ ScanExact'
  BY <1>1, <1>2 DEF Authentic, NoFalseAlarm, RangeExact, ScanExact
<1>7. QED BY <1>5, <1>6 DEF Replies

LEMMA FinishVerifyReply == ASSUME IInv, FinishVerify PROVE Replies'
<1>1. /\ Built /\ mfile' = mfile /\ job.for = "verify" /\ disk' = disk /\ steady' = steady
  BY DEF FinishVerify, Built, Building
<1>2. /\ job # None /\ GoodBlob(job.files, job.data) /\ Tree = build(job.data) /\ JobOK(job, disk, mfile)
      /\ job.builder = "vfs" /\ job.todo = << >>
  <2>1. job # None /\ job.todo = << >> BY <1>1 DEF Built, Building
  <2>2. JobOK(job, disk, mfile) BY <2>1 DEF IInv, JobInv
  <2>3. QED BY <1>1, <2>1, <2>2 DEF JobOK, Tree
<1>3. GoodManifest(mfile) BY <1>1, <1>2 DEF JobOK, IInv, FileInv
<1>4. CASE root_hash(Tree) # ExpectedRoot /\ ~job.warn
  <2>1. Verified(FALSE, FALSE, None) BY <1>4 DEF FinishVerify
  <2>2. ASSUME steady PROVE ~(Image(NowIn(disk)) = Image(mfile.files))
    <3>1. AsOn(disk, job.files, << >>) BY <1>2, <2>2 DEF IInv, JobInv
    <3>2. root_hash(build(job.data)) # mfile.root_hash BY <1>2, <1>4 DEF ExpectedRoot
    <3>3. QED BY <1>2, <1>3, <3>1, <3>2, VerifyRoots
  <2>3. PICK same \in BOOLEAN : same <=> Image(NowIn(disk)) = Image(mfile.files) OBVIOUS
  <2>4. QED BY <1>1, <2>1, <2>2, <2>3, VerifiedReply
<1>5. CASE ~(root_hash(Tree) # ExpectedRoot /\ ~job.warn)
  <2>1. reply' = None BY <1>5 DEF FinishVerify, ReplyNothing
  <2>2. QED BY <2>1, Silent
<1>6. QED BY <1>4, <1>5

\* full_check at its end.
LEMMA ScanEnds ==
  ASSUME NEW s, NEW d, NEW l, NEW files \in Seq(FileEntry), files = l.manifest.files, ScanOK(s, d, l), s.todo = << >>
  PROVE  /\ s.failed = 0 <=> \A x \in 1..Len(files) : GoodFile(l, d, files[x])
         /\ \A x \in 1..Len(files) : FollowIn(d, files[x].path) # Absent
<1>1. PICK i, j : ScanAt(s, d, l, files, i, j) BY DEF ScanOK
<1>2. PICK n \in Nat : n = Len(files) BY LenProperties
<1>3. Len(s.todo) = 0 BY EmptySeq
<1>4. i \in 1..n + 1 /\ 0 = n + 1 - i BY <1>1, <1>2, <1>3 DEF ScanAt
<1>5. i - 1 = n /\ ~(i <= n) BY <1>4
<1>6. s.failed = 0 <=> GoodSoFar(d, l, files, i, j) BY <1>1 DEF ScanAt
<1>7. GoodSoFar(d, l, files, i, j) <=> \A x \in 1..n : GoodFile(l, d, files[x]) BY <1>2, <1>5 DEF GoodSoFar
<1>8. \A x \in 1..n : FollowIn(d, files[x].path) # Absent BY <1>1, <1>5 DEF ScanAt
<1>9. QED BY <1>2, <1>6, <1>7, <1>8

\* The blocks of a file, counted as ScanExact counts them.
LEMMA FileBlocks ==
  ASSUME NEW l, l.root_hash = l.manifest.root_hash, NEW d \in [Files -> Contents \cup {Absent}],
         NEW e \in FileEntry, FollowIn(d, e.path) # Absent
  PROVE  GoodFile(l, d, e) <=>
            \A k \in 0..Max({BlocksOf(Len(FollowIn(d, e.path))), BlocksOf(Len(e.content_hash))}) - 1 :
                FitsIn(l.manifest.files, e.block_range[1] + k, Block(FollowIn(d, e.path), k))
<1>1. PICK f \in Seq(Nat) : f = FollowIn(d, e.path) BY ContentType, FollowType
<1>2. PICK nf, nc, need \in Nat : /\ nf = BlocksOf(Len(f)) /\ nc = BlocksOf(Len(e.content_hash)) /\ need = Needs(e, f)
                                  /\ need = IF nf >= nc THEN nf ELSE nc
  BY NeedsType
<1>3. Max({nf, nc}) = need BY <1>2, MaxOf
<1>4. \A k : k \in 0..need - 1 <=> k \in Nat /\ k < need BY <1>2
<1>5. GoodFile(l, d, e) <=> \A k \in 0..need - 1 : FitsIn(l.manifest.files, e.block_range[1] + k, Block(f, k))
  BY <1>1, <1>2, <1>4 DEF GoodFile, GoodUpTo, Accepts
<1>6. QED BY <1>1, <1>2, <1>3, <1>5

\* A layer over the files it was built from: full_check takes all of a file's blocks, or none.
LEMMA OwnFile ==
  ASSUME NEW l, GoodManifest(l.manifest), NEW e \in FileEntry, EntryOf(e, l.manifest.files),
         NEW d, FollowIn(d, e.path) = e.content_hash
  PROVE  GoodFile(l, d, e) <=> l.root_hash = l.manifest.root_hash \/ e.content_hash = << >>
<1>1. PICK c \in Seq(Nat) : c = e.content_hash BY ContentType
<1>2. PICK len \in Nat : len = Len(c) /\ (len = 0 <=> c = << >>) BY LenProperties, EmptySeq
<1>3. PICK n \in Nat : n = BlocksOf(len) /\ n = Needs(e, c) BY <1>1, <1>2, NeedsType
<1>4. n = 0 <=> c = << >>
  <2>1. 0 * BlockSize = 0 BY BlockSizeAssumption
  <2>2. 0 < BlocksOf(len) <=> 0 * BlockSize < len BY BlocksOfIs
  <2>3. QED BY <1>2, <1>3, <2>1, <2>2
<1>5. GoodFile(l, d, e) <=> GoodUpTo(l, e, c, n) BY <1>1, <1>3 DEF GoodFile
<1>6. CASE l.root_hash = l.manifest.root_hash
  <2>1. \A k \in Nat : k < n => FitsIn(l.manifest.files, e.block_range[1] + k, Block(c, k))
    BY <1>1, <1>2, <1>3, OwnFits
  <2>2. QED BY <1>5, <1>6, <2>1 DEF GoodUpTo, Accepts
<1>7. CASE l.root_hash # l.manifest.root_hash
  <2>1. GoodUpTo(l, e, c, n) <=> n = 0
    <3>1. GoodUpTo(l, e, c, n) <=> \A k \in Nat : ~(k < n) BY <1>7 DEF GoodUpTo, Accepts
    <3>2. (\A k \in Nat : ~(k < n)) <=> n = 0 BY <1>3
    <3>3. QED BY <3>1, <3>2
  <2>2. QED BY <1>1, <1>4, <1>5, <1>7, <2>1
<1>8. QED BY <1>6, <1>7

LEMMA ScanDoneReply == ASSUME IInv, ScanDone PROVE Replies'
<1>1. scan # NoScan /\ UNCHANGED <<disk, mfile, steady>> BY DEF ScanDone, Scanning
<1>2. /\ layer # NoLayer /\ LayerOK(layer, scan.for) /\ scan \in ScanType /\ layer.manifest.files \in Seq(FileEntry)
      /\ disk \in [Files -> Contents \cup {Absent}]
  BY <1>1, ScanSees
<1>3. PICK l, files : l = layer /\ files = l.manifest.files /\ files \in Seq(FileEntry) BY <1>2
<1>4. PICK n \in Nat : n = Len(files) /\ DOMAIN files = 1..n BY <1>3, LenProperties
<1>5. ASSUME steady, scan.todo = << >>
      PROVE  /\ scan.failed = 0 <=> \A x \in 1..n : GoodFile(l, disk, files[x])
             /\ \A x \in 1..n : FollowIn(disk, files[x].path) # Absent
  <2>1. ScanOK(scan, disk, l) BY <1>1, <1>3, <1>5 DEF IInv, ScanInv
  <2>2. QED BY <1>3, <1>4, <1>5, <2>1, ScanEnds
<1>6. CASE scan.todo = << >> /\ scan.for = "check"
  <2>1. reply' = [kind |-> "scan", failed |-> scan.failed] /\ layer' = layer BY <1>6 DEF ScanDone
  <2>2. PICK a : a = reply' /\ a = [kind |-> "scan", failed |-> scan.failed] BY <2>1
  <2>3. a.kind = "scan" /\ a.failed = scan.failed BY <2>2
  <2>4. l.root_hash = l.manifest.root_hash BY <1>2, <1>3, <1>6 DEF LayerOK
  <2>5. ASSUME steady
        PROVE  scan.failed = 0 <=> \A e \in Range(files) :
                  \A k \in 0..Max({BlocksOf(Len(FollowIn(disk, e.path))), BlocksOf(Len(e.content_hash))}) - 1 :
                      FitsIn(files, e.block_range[1] + k, Block(FollowIn(disk, e.path), k))
    <3>1. \A e : e \in Range(files) <=> \E x \in 1..n : e = files[x] BY <1>4 DEF Range
    <3>2. scan.failed = 0 <=> \A e \in Range(files) : GoodFile(l, disk, e) BY <1>5, <1>6, <2>5, <3>1
    <3>3. ASSUME NEW e \in Range(files)
          PROVE  GoodFile(l, disk, e) <=>
                    \A k \in 0..Max({BlocksOf(Len(FollowIn(disk, e.path))), BlocksOf(Len(e.content_hash))}) - 1 :
                        FitsIn(files, e.block_range[1] + k, Block(FollowIn(disk, e.path), k))
      <4>1. PICK x \in 1..n : e = files[x] BY <3>1
      <4>2. e \in FileEntry BY <1>3, <1>4, <4>1, ElementOfSeq
      <4>3. FollowIn(disk, e.path) # Absent BY <1>5, <1>6, <2>5, <4>1
      <4>4. QED BY <1>2, <1>3, <2>4, <4>2, <4>3, FileBlocks
    <3>4. QED BY <3>2, <3>3
  <2>6. ScanExact' BY <1>1, <1>3, <2>1, <2>2, <2>3, <2>5, OfDisk DEF ScanExact, Fits, FitsIn
  <2>7. Authentic' /\ NoFalseAlarm' /\ RangeExact' /\ VerifyExact'
    BY <2>2, <2>3 DEF Authentic, NoFalseAlarm, RangeExact, VerifyExact
  <2>8. QED BY <2>6, <2>7 DEF Replies
<1>7. CASE scan.todo = << >> /\ scan.for # "check"
  <2>1. PICK w \in BOOLEAN : w = WarnOnly BY DEF WarnOnly
  <2>2. PICK ok \in BOOLEAN : ok = (scan.failed = 0 \/ w) OBVIOUS
  <2>3. Verified(w, ok, scan.failed) BY <1>7, <2>1, <2>2 DEF ScanDone
  <2>4. scan.for = "verify" BY <1>2, <1>7 DEF ScanType
  <2>5. VerifyOK(layer, mfile, disk, steady) BY <1>1, <2>4 DEF IInv, ScanInv
  <2>6. GoodManifest(mfile) BY <2>5 DEF VerifyOK, IInv, FileInv
  <2>7. PICK data : /\ data = Flat(files) /\ GoodBlob(files, data) /\ l.manifest.root_hash = root_hash(build(data))
    BY <1>2, <1>3 DEF LayerOK, GoodManifest
  <2>8. PICK same \in BOOLEAN : same <=> Image(NowIn(disk)) = Image(mfile.files) OBVIOUS
  <2>9. ASSUME steady
        PROVE  (ok <=> same \/ w) /\ (scan.failed = 0 <=> same \/ AllEmpty(NowIn(disk)))
    <3>1. AsOn(disk, files, << >>) BY <1>3, <2>5, <2>9 DEF VerifyOK
    <3>2. same <=> l.root_hash = l.manifest.root_hash
      <4>1. root_hash(build(data)) = mfile.root_hash <=> Image(NowIn(disk)) = Image(mfile.files)
        BY <2>6, <2>7, <3>1, VerifyRoots
      <4>2. l.root_hash = mfile.root_hash BY <1>3, <2>5 DEF VerifyOK
      <4>3. QED BY <2>7, <2>8, <4>1, <4>2
    <3>3. AllEmpty(NowIn(disk)) <=> \A x \in 1..n : files[x].content_hash = << >>
      <4>1. DOMAIN NowIn(disk) = 1..n /\ \A x \in 1..n : NowIn(disk)[x].content_hash = files[x].content_hash
        BY <1>3, <1>4, <3>1, NowFiles
      <4>2. QED BY <4>1 DEF AllEmpty
    <3>4. ASSUME NEW x \in 1..n
          PROVE  GoodFile(l, disk, files[x]) <=> l.root_hash = l.manifest.root_hash \/ files[x].content_hash = << >>
      <4>1. PICK e \in FileEntry : e = files[x] /\ EntryOf(e, l.manifest.files)
        BY <1>3, <1>4, ElementOfSeq DEF EntryOf
      <4>2. FollowIn(disk, e.path) = e.content_hash BY <1>4, <3>1, <4>1 DEF AsOn
      <4>3. GoodManifest(l.manifest) BY <1>2, <1>3 DEF LayerOK
      <4>4. QED BY <4>1, <4>2, <4>3, OwnFile
    <3>5. scan.failed = 0 <=> same \/ AllEmpty(NowIn(disk)) BY <1>5, <1>7, <2>9, <3>2, <3>3, <3>4
    <3>6. ~same => w BY <1>2, <1>3, <2>1, <3>2 DEF LayerOK, WarnOnly
    <3>7. QED BY <2>2, <3>5, <3>6
  <2>10. QED BY <1>1, <2>3, <2>8, <2>9, VerifiedReply
<1>8. CASE scan.todo # << >>
  <2>1. reply' = None BY <1>8 DEF ScanDone, ReplyNothing
  <2>2. QED BY <2>1, Silent
<1>9. QED BY <1>6, <1>7, <1>8

LEMMA NextReply == ASSUME IInv, Replies, [Next]_vars PROVE Replies'
<1>1. CASE StartPin \/ StartMount \/ StartVerify
  <2>1. reply' = None BY <1>1 DEF StartPin, StartMount, StartVerify, StartBuild, ReplyNothing
  <2>2. QED BY <2>1, Silent
<1>2. CASE Stat \/ ReadFile \/ BuildError \/ WriteManifest \/ WriteTree \/ FinishMount \/ load_pinned
  <2>1. reply' = None
    BY <1>2 DEF Stat, ReadFile, BuildError, WriteManifest, WriteTree, FinishMount, load_pinned, ReplyNothing
  <2>2. QED BY <2>1, Silent
<1>3. CASE full_check \/ ScanBlock \/ ScanNext
  <2>1. reply' = None BY <1>3 DEF full_check, ScanBlock, ScanNext, Check, ReplyNothing
  <2>2. QED BY <2>1, Silent
<1>4. CASE FinishVerify \/ ScanDone \/ RangeStep BY <1>4, FinishVerifyReply, ScanDoneReply, RangeStepReply
<1>5. CASE \E p \in Paths, off \in {0, MaxRead - 1} : verify_file_blocks(p, off, MaxRead)
  <2>1. MaxRead \in Nat \ {0} /\ MaxRead - 1 \in Nat BY VerityAssumption
  <2>2. PICK p \in Paths, off \in Nat : verify_file_blocks(p, off, MaxRead) BY <1>5, <2>1
  <2>3. QED BY <2>1, <2>2, verify_file_blocksReply
<1>6. ASSUME NEW r \in Readers,
             \/ ReadStep(r) \/ close(r)
             \/ \E p \in Paths : open_file(r, p)
             \/ \E n \in {1, MaxRead} : read(r, n)
             \/ \E pos \in {-1, MaxRead - 1} : seek(r, pos)
      PROVE  Replies'
  <2>1. CASE ReadStep(r) BY <2>1, ReadStepReply
  <2>2. CASE close(r) \/ (\E p \in Paths : open_file(r, p)) \/ (\E pos \in {-1, MaxRead - 1} : seek(r, pos))
    <3>1. reply' = None BY <2>2 DEF close, open_file, seek, ReplyNothing
    <3>2. QED BY <3>1, Silent
  <2>3. CASE \E n \in {1, MaxRead} : read(r, n)
    <3>1. PICK n \in Nat \ {0} : read(r, n) BY <2>3, VerityAssumption
    <3>2. QED BY <3>1, readReply
  <2>4. QED BY <1>6, <2>1, <2>2, <2>3
<1>7. CASE \E p \in Files, c \in Contents : Modify(p, c)
  <2>1. reply' = None BY <1>7 DEF Modify, ReplyNothing
  <2>2. QED BY <2>1, Silent
<1>8. CASE UNCHANGED vars
  <2>1. Authentic' /\ NoFalseAlarm' BY <1>8 DEF vars, Replies, Authentic, NoFalseAlarm, Follow
  <2>2. RangeExact' /\ ScanExact' BY <1>8 DEF vars, Replies, RangeExact, ScanExact, Follow, Fits
  <2>3. VerifyExact' BY <1>8, OfDisk DEF vars, Replies, VerifyExact
  <2>4. QED BY <2>1, <2>2, <2>3 DEF Replies
<1>9. QED BY <1>1, <1>2, <1>3, <1>4, <1>5, <1>6, <1>7, <1>8 DEF Next

LEMMA RepliesHold == Spec => []Replies
<1>1. Init => Replies
  BY DEF Init, Replies, Authentic, NoFalseAlarm, RangeExact, ScanExact, VerifyExact
<1>2. QED BY <1>1, Invariance, NextReply, PTL DEF Spec

\* In every reachable state of the verity code the variables have their types; the
\* block ranges a builder gives to files follow each other and end inside its blob
\* (build_from_vfs, build_from_dir); the bits of VerifiedBlockCache are those of the
\* layer's blocks; and the process has readers, bits and a check in progress only
\* while it has a layer.
THEOREM TypesHold == Spec => []TypeOK
<1>1. QED BY Invariance, InvType, PTL

\* MerkleTree::verify_block of a mounted layer accepts at an index the block that the
\* manifest's files have there and nothing else: for every block size, every set of
\* files and contents, and whichever two files of different builds, whole or torn,
\* load_pinned found.
THEOREM TreeIsExact == Spec => []TreeExact
<1>1. QED BY Invariance, InvTree, PTL

\* Under Reject, VerifiedReader::read never returns a byte that was not in the file
\* when the manifest was built, nor fewer bytes than there were: whatever is written
\* to the layer between its build and the read, or between two blocks of one read.
THEOREM ReadsAreAuthentic == Spec => []Authentic
<1>1. Replies => Authentic BY DEF Replies
<1>2. QED BY <1>1, RepliesHold, PTL

\* VerifiedReader::read refuses nothing that is as it was: when it fails, the file on
\* disk does not start with the content in the manifest.
THEOREM FailuresAreReal == Spec => []NoFalseAlarm
<1>1. Replies => NoFalseAlarm BY DEF Replies
<1>2. QED BY <1>1, RepliesHold, PTL

\* verify_file_blocks under Reject raises no false alarm, and a pinned layer's misses
\* no block of its range that was written after load_pinned, whatever was read and
\* checked before: for every range, and with any write between two calls.
THEOREM RangesAreExact == Spec => []RangeExact
<1>1. Replies => RangeExact BY DEF Replies
<1>2. QED BY <1>1, RepliesHold, PTL

\* full_check counts no failure exactly when every block it lays over the manifest's,
\* those of a grown file and those a shortened one has lost included, is the one
\* the manifest has at that place.
THEOREM ScansAreExact == Spec => []ScanExact
<1>1. Replies => ScanExact BY DEF Replies
<1>2. QED BY <1>1, RepliesHold, PTL

\* `rspacefs verity verify` exits with success exactly when the directory's blocks are
\* the manifest's or it was told to warn only; and then its count is 0 only when they
\* are, or when there is no block to count.
THEOREM VerifyIsExact == Spec => []VerifyExact
<1>1. Replies => VerifyExact BY DEF Replies
<1>2. QED BY <1>1, RepliesHold, PTL
==============================================================================
