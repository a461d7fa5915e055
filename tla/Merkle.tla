------------------------------- MODULE Merkle -------------------------------
(***************************************************************************)
(* The trees of transactions in Bitcoin's blocks (qlc-bitcoin lib.rs).     *)
(* Hashes are ideal: the hash of two nodes is the pair of them.            *)
(***************************************************************************)
EXTENDS Integers, Sequences, FiniteSets, FiniteSetsExt

Pair(l, r) == [left |-> l, right |-> r]

\* The next level of a tree: the last node of an odd level is paired with itself.
pair_up(level) ==
    IF Len(level) = 1 THEN level
    ELSE [i \in 1 .. (Len(level) + 1) \div 2 |->
             Pair(level[2 * i - 1], level[IF 2 * i <= Len(level) THEN 2 * i ELSE 2 * i - 1])]

\* There is one node left after no more levels than there are leaves.
levels(txids) ==
    LET level[k \in 0 .. Len(txids)] == IF k = 0 THEN txids ELSE pair_up(level[k - 1])
    IN  level

merkle_root(txids) == levels(txids)[Len(txids)][1]

fold_step(cur, step) ==
    IF step.sibling_on_left THEN Pair(step.hash, cur) ELSE Pair(cur, step.hash)

\* The node after every step.
climb(txid, branch) ==
    LET cur[i \in 0 .. Len(branch)] ==
            IF i = 0 THEN txid ELSE fold_step(cur[i - 1], branch[i])
    IN  cur

fold_merkle_branch(txid, branch) == climb(txid, branch)[Len(branch)]

\* The branch to a leaf of a tree, by whoever has the tree.
merkle_branch(txids, i) ==
    LET tree == levels(txids)
        place(k) == (i - 1) \div 2 ^ k + 1
        sibling(k) == IF place(k) % 2 = 0 THEN place(k) - 1
                      ELSE Min({place(k) + 1, Len(tree[k])})
    IN  [k \in 1 .. Cardinality({n \in DOMAIN tree : Len(tree[n]) > 1}) |->
            [hash |-> tree[k - 1][sibling(k - 1)], sibling_on_left |-> place(k - 1) % 2 = 0]]
=============================================================================
