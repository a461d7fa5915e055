----------------------------- MODULE HashTrees -----------------------------
(***************************************************************************)
(* The trees that a Cosmos chain hashes its headers and validators with    *)
(* (qlc-cosmos merkle.rs), and every existence proof that can be made of   *)
(* what was hashed.                                                        *)
(***************************************************************************)
EXTENDS Hashing, FiniteSets

(* merkle.rs *)

largest_pow2_lt(n) == CHOOSE k \in {2 ^ i : i \in 0 .. n} : k < n /\ n <= 2 * k

RECURSIVE merkle_root(_)
merkle_root(leaves) ==
    LET n == Len(leaves)
        k == largest_pow2_lt(n)
    IN  CASE n = 0 -> sha(<<>>)
          [] n = 1 -> leaf_hash(leaves[1])
          [] OTHER -> inner_hash(merkle_root(SubSeq(leaves, 1, k)),
                                 merkle_root(SubSeq(leaves, k + 1, n)))

RECURSIVE proof_aunts(_, _)
proof_aunts(leaves, index) ==
    LET n == Len(leaves)
        k == largest_pow2_lt(n)
        low == SubSeq(leaves, 1, k)
        high == SubSeq(leaves, k + 1, n)
    IN  CASE n <= 1 -> <<>>
          [] n > 1 /\ index < k -> Append(proof_aunts(low, index), merkle_root(high))
          [] OTHER -> Append(proof_aunts(high, index - k), merkle_root(low))

\* The root as a set of one, {} when the aunts do not fit the place.
RECURSIVE compute_root(_, _, _, _)
compute_root(index, total, hash, aunts) ==
    LET k == largest_pow2_lt(total)
        top == Last(aunts)
        rest == Front(aunts)
    IN  CASE index >= total -> {}
          [] index < total /\ total = 1 -> IF aunts = <<>> THEN {hash} ELSE {}
          [] index < total /\ total > 1 /\ aunts = <<>> -> {}
          [] OTHER -> IF index < k
                      THEN {inner_hash(l, top) : l \in compute_root(index, k, hash, rest)}
                      ELSE {inner_hash(top, r) : r \in compute_root(index - k, total - k, hash, rest)}

verify_inclusion(root, leaf, index, total, aunts) ==
    compute_root(index, total, leaf_hash(leaf), aunts) = {root}

\* An inclusion proof opens the leaf at its own place, and no other leaf there.
inclusion_right(leaves, total) ==
    \A i, j \in 0 .. Len(leaves) - 1, leaf \in Range(leaves) :
        LET opens == verify_inclusion(merkle_root(leaves), leaf, j, total,
                                      proof_aunts(leaves, i))
        IN  /\ total = Len(leaves) /\ i = j => (opens <=> leaf = leaves[i + 1])
            /\ opens => leaf = leaves[i + 1]

-----------------------------------------------------------------------------
(* proof.rs *)

\* Every reading of a hash as the root of a proof: a leaf, or a step down to
\* any hash among the tokens that were hashed.
RECURSIVE ProofsOf(_)
ProofsOf(root) ==
    LET t == root.sha
        n == Len(t)
        plain(p) == \A i \in 1 .. p : "byte" \in DOMAIN t[i]
        leaves == {p \in 1 .. n - 3 :
                     /\ plain(p + 1) /\ t[p + 1].byte = Size(SubSeq(t, p + 2, n - 2))
                     /\ t[n - 1] = Byte(HASH_LEN) /\ "sha" \in DOMAIN t[n]}
    IN  {[key |-> SubSeq(t, p + 2, n - 2), value |-> t[n].sha,
          leaf |-> [i \in 1 .. p |-> t[i].byte], path |-> <<>>, store |-> {}] : p \in leaves}
        \cup UNION {{[q EXCEPT !.path = Append(@, [prefix |-> SubSeq(t, 1, i - 1),
                                                   suffix |-> SubSeq(t, i + 1, n)])] :
                        q \in ProofsOf(t[i])} :
                    i \in {k \in 1 .. n : "sha" \in DOMAIN t[k]}}

Proofs(app_hash) ==
    UNION {{[q EXCEPT !.store = {s}] : q \in ProofsOf(s.value[1])} :
           s \in {p \in ProofsOf(app_hash[1]) : Len(p.value) = 1 /\ "sha" \in DOMAIN p.value[1]}}
=============================================================================
