------------------------------- MODULE Tries -------------------------------
(***************************************************************************)
(* How a receipt is read out of an Ethereum block: RLP (qlc-ethereum       *)
(* rlp.rs) and Merkle Patricia proofs (mpt.rs).  RLP is over bytes, with   *)
(* the bounds of its prefixes as constants: the code has SINGLE = 128,     *)
(* SPAN = 55 and OF_LEN = 8.  Proofs are over decoded nodes; a hash is     *)
(* ideal, the node it is the hash of.                                      *)
(***************************************************************************)
EXTENDS Integers, Sequences, SequencesExt, FiniteSets

CONSTANTS SINGLE, SPAN, OF_LEN, RLP_MAX_DEPTH, NIBBLE, HASH_LEN

LIST == SINGLE + SPAN + 1 + OF_LEN          \* 0xc0
BASE == LIST + SPAN + 1 + OF_LEN            \* 256

-----------------------------------------------------------------------------
(* rlp.rs.  An item is bytes [b |-> ...] or a list [l |-> ...]; a decoder  *)
(* returns {} where the code returns an error.                             *)

as_bytes(item) == IF "b" \in DOMAIN item THEN {item.b} ELSE {}
as_list(item) == IF "l" \in DOMAIN item THEN {item.l} ELSE {}

RECURSIVE to_be(_)
to_be(n) == IF n < BASE THEN <<n>> ELSE Append(to_be(n \div BASE), n % BASE)

encode_length(len, offset) ==
    IF len <= SPAN THEN <<offset + len>>
    ELSE <<offset + SPAN + Len(to_be(len))>> \o to_be(len)

encode_bytes(bytes) ==
    IF Len(bytes) = 1 /\ bytes[1] < SINGLE THEN bytes
    ELSE encode_length(Len(bytes), SINGLE) \o bytes

encode_uint(value) == encode_bytes(IF value = 0 THEN <<>> ELSE to_be(value))

encode_list(items) ==
    LET body == FlattenSeq(items) IN encode_length(Len(body), LIST) \o body

RECURSIVE encode(_)
encode(item) ==
    IF "b" \in DOMAIN item THEN encode_bytes(item.b)
    ELSE encode_list([i \in DOMAIN item.l |-> encode(item.l[i])])

read_length(bytes, of_len) ==
    IF of_len = 0 \/ of_len > OF_LEN \/ of_len > Len(bytes) THEN {}
    ELSE IF bytes[1] = 0 THEN {}
    ELSE {FoldLeft(LAMBDA v, i : v * BASE + bytes[i], 0, [i \in 1 .. of_len |-> i])}

\* Where the body of an item stands: <<start, end>>, {} if the bytes are cut
\* short or the length could have been written shorter.
body_of(bytes, offset) ==
    LET prefix == Head(bytes) - offset
    IN  IF prefix <= SPAN
        THEN IF 1 + prefix > Len(bytes) THEN {} ELSE {<<1, 1 + prefix>>}
        ELSE LET of_len == prefix - SPAN
             IN  {<<1 + of_len, 1 + of_len + len>> :
                     len \in {n \in read_length(Tail(bytes), of_len) :
                                 n > SPAN /\ 1 + of_len + n <= Len(bytes)}}

RECURSIVE decode_item(_, _), decode_list_body(_, _)
decode_item(bytes, depth) ==
    IF bytes = <<>> THEN {}
    ELSE IF Head(bytes) < SINGLE THEN {<<[b |-> <<Head(bytes)>>], 1>>}
    ELSE IF Head(bytes) < LIST
    THEN {<<[b |-> SubSeq(bytes, at[1] + 1, at[2])], at[2]>> :
             at \in {p \in body_of(bytes, SINGLE) :
                        ~(Head(bytes) = SINGLE + 1 /\ bytes[2] < SINGLE)}}
    ELSE UNION {{<<[l |-> items], at[2]>> :
                    items \in decode_list_body(SubSeq(bytes, at[1] + 1, at[2]), depth)} :
                    at \in body_of(bytes, LIST)}

decode_list_body(bytes, depth) ==
    IF depth >= RLP_MAX_DEPTH THEN {}
    ELSE IF bytes = <<>> THEN {<<>>}
    ELSE UNION {{<<got[1]>> \o rest :
                    rest \in decode_list_body(SubSeq(bytes, got[2] + 1, Len(bytes)), depth)} :
                    got \in decode_item(bytes, depth + 1)}

decode(bytes) == {got[1] : got \in {g \in decode_item(bytes, 0) : g[2] = Len(bytes)}}

\* Bytes with one byte changed, added or cut off, or a length padded.
edits(bytes) ==
    {bytes} \cup {SubSeq(bytes, 1, i) : i \in 0 .. Len(bytes) - 1}
    \cup {[bytes EXCEPT ![i] = v] : i \in DOMAIN bytes, v \in 0 .. BASE - 1}
    \cup {InsertAt(bytes, i, v) : i \in 1 .. Len(bytes), v \in 0 .. BASE - 1}
    \cup {<<bytes[1] + 1, 0>> \o Tail(bytes)}

\* What is decoded is encoded again as it was, and what is encoded is decoded.
rlp_right(item, bytes) ==
    /\ decode(encode(item)) = {item}
    /\ \A got \in decode(bytes) : encode(got) = bytes

-----------------------------------------------------------------------------
(* mpt.rs: reading.  A node is a list of NIBBLE children and a value, or a *)
(* path and what it leads to; a child is a node, or its hash [h |-> node]. *)

to_nibbles(key) ==
    FlattenSeq([i \in DOMAIN key |-> <<key[i] \div NIBBLE, key[i] % NIBBLE>>])

\* Path and whether it ends at a leaf.
decode_hp(bytes) ==
    IF bytes = <<>> THEN <<<<>>, FALSE>>
    ELSE LET flag == bytes[1] \div NIBBLE
         IN  <<(IF flag % 2 = 1 THEN <<bytes[1] % NIBBLE>> ELSE <<>>) \o to_nibbles(Tail(bytes)),
               (flag \div 2) % 2 = 1>>

branch_value(item) == IF as_bytes(item) \in {{}, {<<>>}} THEN {} ELSE as_bytes(item)

\* The node a child stands for and how many nodes of the proof are used then.
resolve(item, proof, pi) ==
    CASE "l" \in DOMAIN item -> [is |-> "node", node |-> item, pi |-> pi]
      [] "b" \in DOMAIN item -> [is |-> IF item.b = <<>> THEN "none" ELSE "error"]
      [] "h" \in DOMAIN item -> IF pi > Len(proof) \/ proof[pi] # item.h
                                THEN [is |-> "error"]
                                ELSE [is |-> "node", node |-> proof[pi], pi |-> pi + 1]

Found(values) == IF values = {} THEN [is |-> "none"]
                 ELSE [is |-> "value", value |-> CHOOSE v \in values : TRUE]

RECURSIVE walk(_, _, _, _)
walk(node, rest, proof, pi) ==
    LET items == node.l
        go(item, left) == LET at == resolve(item, proof, pi)
                          IN  IF at.is = "node" THEN walk(at.node, left, proof, at.pi) ELSE at
    IN  IF "l" \notin DOMAIN node THEN [is |-> "error"]
        ELSE IF Len(items) = NIBBLE + 1
        THEN IF rest = <<>> THEN Found(branch_value(items[NIBBLE + 1]))
             ELSE go(items[Head(rest) + 1], Tail(rest))
        ELSE IF Len(items) # 2 \/ as_bytes(items[1]) = {} THEN [is |-> "error"]
        ELSE LET hp == decode_hp(items[1].b)
             IN  IF hp[2]
                 THEN IF rest # hp[1] THEN [is |-> "none"]
                      ELSE IF as_bytes(items[2]) = {} THEN [is |-> "error"]
                      ELSE Found(as_bytes(items[2]))
                 ELSE IF IsPrefix(hp[1], rest)
                      THEN go(items[2], SubSeq(rest, Len(hp[1]) + 1, Len(rest)))
                      ELSE [is |-> "none"]

verify_proof(root, key, proof) ==
    IF proof = <<>> \/ proof[1] # root THEN [is |-> "error"]
    ELSE walk(proof[1], to_nibbles(key), proof, 2)

-----------------------------------------------------------------------------
(* mpt.rs builder: the trie of a set of <<nibbles, value>> and its proofs  *)

from_nibbles(nibbles) ==
    [i \in 1 .. Len(nibbles) \div 2 |-> nibbles[2 * i - 1] * NIBBLE + nibbles[2 * i]]

hp_encode(nibbles, is_leaf) ==
    LET flag == IF is_leaf THEN 2 ELSE 0
    IN  IF Len(nibbles) % 2 = 1
        THEN <<(flag + 1) * NIBBLE + nibbles[1]>> \o from_nibbles(Tail(nibbles))
        ELSE <<flag * NIBBLE>> \o from_nibbles(nibbles)

common_prefix(entries) ==
    LET some == (CHOOSE e \in entries : TRUE)[1]
    IN  CHOOSE p \in Prefixes(some) :
            /\ \A e \in entries : IsPrefix(p, e[1])
            /\ \A q \in Prefixes(some) : (\A e \in entries : IsPrefix(q, e[1])) => Len(q) <= Len(p)

\* A short node is its own reference.
RECURSIVE size(_)
size(item) == IF "b" \in DOMAIN item THEN Len(item.b)
              ELSE IF "h" \in DOMAIN item THEN HASH_LEN
              ELSE FoldLeft(LAMBDA n, i : n + size(i), 0, item.l)

child_ref(node) == IF size(node) < HASH_LEN THEN node ELSE [h |-> node]

RECURSIVE build(_)
build(entries) ==
    LET skip(e, n) == <<SubSeq(e[1], n + 1, Len(e[1])), e[2]>>
        cp == Len(common_prefix(entries))
        only == CHOOSE e \in entries : TRUE
        group(n) == {skip(e, 1) : e \in {e \in entries : e[1] # <<>> /\ e[1][1] = n}}
        here == {e[2] : e \in {e \in entries : e[1] = <<>>}}
    IN  IF Cardinality(entries) = 1
        THEN [l |-> <<[b |-> hp_encode(only[1], TRUE)], [b |-> only[2]]>>]
        ELSE IF cp > 0
        THEN [l |-> <<[b |-> hp_encode(SubSeq(only[1], 1, cp), FALSE)],
                      child_ref(build({skip(e, cp) : e \in entries}))>>]
        ELSE [l |-> [n \in 1 .. NIBBLE + 1 |->
                        IF n = NIBBLE + 1
                        THEN [b |-> IF here = {} THEN <<>> ELSE CHOOSE v \in here : TRUE]
                        ELSE IF group(n - 1) = {} THEN [b |-> <<>>]
                        ELSE child_ref(build(group(n - 1)))]]

\* The hashed nodes on the way to a key.
RECURSIVE prove_walk(_, _)
prove_walk(node, rest) ==
    LET into(item, left) == CASE "h" \in DOMAIN item -> <<item.h>> \o prove_walk(item.h, left)
                              [] "l" \in DOMAIN item -> prove_walk(item, left)
                              [] OTHER -> <<>>
    IN  IF Len(node.l) = NIBBLE + 1
        THEN IF rest = <<>> THEN <<>> ELSE into(node.l[Head(rest) + 1], Tail(rest))
        ELSE LET hp == decode_hp(node.l[1].b)
             IN  IF ~hp[2] /\ IsPrefix(hp[1], rest)
                 THEN into(node.l[2], SubSeq(rest, Len(hp[1]) + 1, Len(rest)))
                 ELSE <<>>

prove(root, key) == <<root>> \o prove_walk(root, to_nibbles(key))

\* A proof made of the trie tells its value or its absence, and no proof that
\* starts at its root, cut short or put together from other nodes, tells
\* anything else.
mpt_right(entries, keys, foreign) ==
    LET root == build({<<to_nibbles(e[1]), e[2]>> : e \in entries})
        truth(key) == Found({e[2] : e \in {e \in entries : e[1] = key}})
        nodes == Range(FlattenSeq(SetToSeq({prove(root, k) : k \in keys}))) \cup foreign
        others == {<<root>>} \cup {<<root, n>> : n \in nodes}
                     \cup {<<root, n, m>> : n \in nodes, m \in nodes}
    IN  \A key \in keys :
            /\ verify_proof(root, key, prove(root, key)) = truth(key)
            /\ \A proof \in others :
                  verify_proof(root, key, proof) \in {[is |-> "error"], truth(key)}
=============================================================================
