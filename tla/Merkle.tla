------------------------------- MODULE Merkle -------------------------------
(***************************************************************************)
(* The Merkle tree of rspacefs-verity: how it is built over a blob of      *)
(* bytes, how a block is checked against it, and its form on disk.         *)
(*                                                                         *)
(* SHA-256 is taken to be free of collisions: a hash is a term that holds  *)
(* what was hashed.  Blocks (BlockSize bytes, always padded), pairs (two   *)
(* hashes) and the all-zero padding hash are never the same term.          *)
(***************************************************************************)
EXTENDS Naturals, SequencesExt

CONSTANT BlockSize   \* BLOCK_SIZE, the bytes of a block

ASSUME BlockSizeAssumption == BlockSize \in Nat \ {0}

\* data.len().div_ceil(BLOCK_SIZE)
BlocksOf(n) == (n + BlockSize - 1) \div BlockSize

\* data[from..to], as far as there are bytes.
Slice(data, from, to) == SubSeq(data, from + 1, Min({to, Len(data)}))

\* Block k, from 0, of a file or blob: the last may be short, one past the end is empty.
Block(data, k) == Slice(data, k * BlockSize, (k + 1) * BlockSize)

Padded(b) == b \o [i \in 1..BlockSize - Len(b) |-> 0]

\* Mutant: short blocks are hashed as they are.
HashUnpadded(b) == <<"block", b>>

hash_block(b) == <<"block", Padded(b)>>

hash_pair(l, r) == <<"pair", l, r>>

ZERO_HASH == <<"zero">>

\* The powers of two up to 2^n.
PowersOfTwo(n) == LET pow[k \in 0..n] == IF k = 0 THEN 1 ELSE 2 * pow[k - 1] IN Range(pow)

next_power_of_two(n) == Min({p \in PowersOfTwo(n) : p >= n})

\* Node i of the flat array, the root being node 0.
NodeAt(tree, i) == tree.nodes[i + 1]

root_hash(tree) == NodeAt(tree, 0)

\* The hashes by number: leaves at padded - 1 and after, node i over 2i+1 and 2i+2.
Hashes(data, leaves, padded) ==
    LET node[i \in 0..2 * padded - 2] ==
            IF i < padded - 1 THEN hash_pair(node[2 * i + 1], node[2 * i + 2])
            ELSE IF i - (padded - 1) < leaves THEN hash_block(Block(data, i - (padded - 1)))
            ELSE ZERO_HASH
    IN  node

\* The tree over a blob.
build(data) ==
    LET leaves == Max({1, BlocksOf(Len(data))})
        padded == next_power_of_two(leaves)
        node   == Hashes(data, leaves, padded)
    IN  [leaf_count |-> leaves, padded_leaf_count |-> padded,
         nodes |-> [i \in 1..2 * padded - 1 |-> node[i - 1]]]

\* One level up: the node's number halves, its hash joins that of its sibling.
Above(tree, at) ==
    IF at.node = 0 THEN at
    ELSE [node |-> (at.node - 1) \div 2,
          hash |-> IF at.node % 2 = 1 THEN hash_pair(at.hash, NodeAt(tree, at.node + 1))
                                      ELSE hash_pair(NodeAt(tree, at.node - 1), at.hash)]

\* The way from node `leaf` to the root, which takes fewer levels than its number.
Climb(tree, leaf, hash) ==
    LET at[n \in 0..leaf] == IF n = 0 THEN [node |-> leaf, hash |-> hash] ELSE Above(tree, at[n - 1])
    IN  at

\* Hash the block, then combine with the sibling at each level up to the root.
verify_block(tree, index, data, root) ==
    /\ index < tree.padded_leaf_count
    /\ LET leaf == tree.padded_leaf_count - 1 + index
       IN  Climb(tree, leaf, hash_block(data))[leaf].hash = root

\* The file format: the three counts, then the nodes.
to_bytes(tree) ==
    [leaf_count |-> tree.leaf_count, padded_leaf_count |-> tree.padded_leaf_count,
     node_count |-> Len(tree.nodes), nodes |-> tree.nodes]

\* from_bytes returns a tree exactly for these.
WellFormed(bytes) ==
    /\ Len(bytes.nodes) = bytes.node_count
    /\ bytes.node_count = 2 * bytes.padded_leaf_count - 1

from_bytes(bytes) ==
    [leaf_count |-> bytes.leaf_count, padded_leaf_count |-> bytes.padded_leaf_count,
     nodes |-> bytes.nodes]
==============================================================================
