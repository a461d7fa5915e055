------------------------------ MODULE Hashing ------------------------------
(***************************************************************************)
(* How the trees of a Cosmos chain are hashed (qlc-cosmos merkle.rs,       *)
(* proof.rs).  Hashes are ideal: sha of some tokens is a token that holds  *)
(* them.  A token is a byte, a word of a value, or a hash; Size counts     *)
(* bytes.                                                                  *)
(***************************************************************************)
EXTENDS Integers, Sequences, SequencesExt

CONSTANT HASH_LEN               \* bytes of a hash: 32

sha(tokens) == [sha |-> tokens]
Byte(n) == [byte |-> n]
Word(w) == [word |-> w]

leaf_hash(leaf) == sha(<<Byte(0)>> \o leaf)
inner_hash(left, right) == sha(<<Byte(1), left, right>>)

Size(tokens) ==
    SumFunction([i \in DOMAIN tokens |-> IF "sha" \in DOMAIN tokens[i] THEN HASH_LEN ELSE 1])

Bytes(s) == [i \in DOMAIN s |-> Byte(s[i])]

length_prefixed(tokens) == <<Byte(Size(tokens))>> \o tokens

leaf_apply(prefix, key, value) ==
    sha(Bytes(prefix) \o length_prefixed(key) \o length_prefixed(<<sha(value)>>))

inner_apply(child, op) == sha(op.prefix \o <<child>> \o op.suffix)
=============================================================================
