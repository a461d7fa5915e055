---------------------------- MODULE BurnSource ----------------------------
(***************************************************************************)
(* How burns are read from a node of the Quantova chain and proven         *)
(* (q-exits rpc.rs, watch.rs, burn_proof.rs, anchor.rs).                   *)
(*                                                                         *)
(* The node is not trusted: an answer is any [sent, status, body] with a   *)
(* body that is a tree of JSON values, and hex text <<"hex", v>> stands    *)
(* for the bytes of v.  Hashes are ideal: a header's bytes and its hash    *)
(* are the block's name, an event root is the sequence of events and a     *)
(* burn_ref the record it is hashed from.  qtv_attest, qtv_block and       *)
(* qtv_state are other repositories' code.                                 *)
(***************************************************************************)
EXTENDS Integers, FiniteSets, SequencesExt

CONSTANTS
    QBlocks,            \* of a header's name: [height, events, state], where
                        \* state is the bridge epoch in it, or nothing
    MAX_DEPTH, MAX_U64, MAX_RESPONSE,
    MAX_ATTESTATIONS, MAX_COMMITTEE_REVEALS, MAX_CREDENTIAL_SIBLINGS,
    MAX_HEIGHTS_PER_POLL, MAX_BURNS_PER_POLL

-----------------------------------------------------------------------------
(* anchor.rs *)

\* qtv_sampler::params::finality_threshold
finality_threshold(n) == (2 * n) \div 3 + 1

Zero == "0"

can_from_config(c) ==
    /\ c.chain_id # 0 /\ c.tau # 0
    /\ c.members # <<>>
    /\ \A i \in DOMAIN c.members :
          /\ c.members[i].attest_pk # Zero
          /\ \A k \in 1 .. (i - 1) : /\ c.members[k].id # c.members[i].id
                                     /\ c.members[k].attest_pk # c.members[i].attest_pk
    /\ c.tau \in finality_threshold(Len(c.members)) .. Len(c.members)

from_config(c) ==
    [chain_id |-> c.chain_id, genesis |-> c.genesis_hash, tau |-> c.tau,
     keys |-> Range(c.members), budget |-> c.budget, beacon |-> c.beacon_seed]

binding(anchor) == [chain_id |-> anchor.chain_id, genesis |-> anchor.genesis]

\* The same members are drawn from in every slot.
commitment_at(anchor, slot) ==
    [slot |-> slot, keys |-> anchor.keys, budget |-> anchor.budget]

-----------------------------------------------------------------------------
(* qtv_attest: a certificate's signatures, by the members of the committee *)
(* of its slot, over its envelope and the chain.                           *)

signs(a, envelope, anchor) ==
    \E m \in commitment_at(anchor, envelope.slot).keys :
        /\ m.id = a.from
        /\ a.sig = [key |-> m.attest_pk, says |-> envelope, on |-> binding(anchor),
                    beacon |-> anchor.beacon]

attesters(c) == {c.attestations[i].from : i \in DOMAIN c.attestations}

verify_with_trusted_commitment(c, anchor) ==
    Cardinality({id \in attesters(c) :
        \E i \in DOMAIN c.attestations :
            /\ c.attestations[i].from = id
            /\ signs(c.attestations[i], c.envelope, anchor)}) >= anchor.tau

-----------------------------------------------------------------------------
(* rpc.rs: the response *)

children(j) == IF j[1] = "arr" THEN j[2]
               ELSE IF j[1] = "obj" THEN [i \in DOMAIN j[2] |-> j[2][i][2]]
               ELSE <<>>

\* The values inside a value, by how deep they are.
nested(j) ==
    LET at[deep \in 0 .. MAX_DEPTH] ==
            IF deep = 0 THEN <<j>>
            ELSE FlattenSeq([i \in DOMAIN at[deep - 1] |-> children(at[deep - 1][i])])
    IN  at

\* object: no key twice; number: no sign, no leading zero, no more than u64;
\* string: closed, with escapes there are; nested: MAX_DEPTH at most.
value(j, deep) ==
    /\ j[1] \in {"arr", "obj"} => deep < MAX_DEPTH
    /\ j[1] = "obj" => \A a, b \in DOMAIN j[2] : j[2][a][1] = j[2][b][1] => a = b
    /\ j[1] = "num" => j[2] \in 0 .. MAX_U64
    /\ j[1] # "junk"

parses_json(j) ==
    \A deep \in 0 .. MAX_DEPTH :
        LET level == nested(j)[deep]
        IN  \A i \in DOMAIN level : value(level[i], deep)

\* Nothing, or the value under a key.
get(j, key) ==
    IF j[1] # "obj" THEN <<>>
    ELSE LET at == SelectInSeq(j[2], LAMBDA m : m[1] = key)
         IN  IF at = 0 THEN <<>> ELSE <<j[2][at][2]>>

as(kind, maybe) == IF maybe # <<>> /\ maybe[1][1] = kind THEN <<maybe[1][2]>> ELSE <<>>

\* decode_hex: nothing for text that is not pairs of digits.
hex(maybe) ==
    IF maybe # <<>> /\ maybe[1][1] = "hex" THEN <<maybe[1][2]>> ELSE <<>>

bytes_of(j, key) == hex(as("str", get(j, key)))

\* The connection is made, the answer ends in time and is not too long; then
\* split_response: there is a status line and an end of the head.
request(answer) ==
    /\ answer.sent = "whole"
    /\ answer.length <= MAX_RESPONSE

-----------------------------------------------------------------------------
(* rpc.rs: the certificate *)

ascending(ids) == \A i \in 1 .. (Len(ids) - 1) : ids[i] <= ids[i + 1]

\* A genesis parent carries no value.
decodes_block(b) ==
    \/ b.parent.tag = "GENESIS" /\ b.parent.value = Zero
    \/ b.parent.tag = "VALUE"

decodes_credential(c) == Len(c.siblings) <= MAX_CREDENTIAL_SIBLINGS

decodes_attestation(a) == decodes_block(a.block) /\ decodes_credential(a.membership)

decodes_certificate(bytes) ==
    /\ bytes.is = "certificate"
    /\ decodes_block(bytes.envelope.block)
    /\ bytes.stage = 1
    /\ Len(bytes.attestations) <= MAX_ATTESTATIONS
    /\ \A i \in DOMAIN bytes.attestations : decodes_attestation(bytes.attestations[i])
    /\ ascending([i \in DOMAIN bytes.attestations |-> bytes.attestations[i].from])
    /\ Len(bytes.reveals) <= MAX_COMMITTEE_REVEALS
    /\ \A i \in DOMAIN bytes.reveals : decodes_credential(bytes.reveals[i].credential)
    /\ ascending([i \in DOMAIN bytes.reveals |-> bytes.reveals[i].id])

header_decodes(bytes) == bytes.is = "header" /\ bytes.name \in DOMAIN QBlocks

\* The certificate is for the header, at the header's height.
certifies(c, name) ==
    /\ c.envelope.block.val = name
    /\ c.envelope.block.height = QBlocks[name].height
    /\ c.envelope.height = QBlocks[name].height

\* Fault: the number of names on it is all that is looked at.
finalized_by_count(c, anchor) == Cardinality(attesters(c)) >= anchor.tau

finalized(c, anchor) ==
    /\ verify_with_trusted_commitment(c, anchor)
    /\ Cardinality(attesters(c)) >= anchor.tau

-----------------------------------------------------------------------------
(* rpc.rs: the three questions.  Nothing is a refusal. *)

\* The epoch the header's state root proves, zero when it proves there is none.
proven_bridge_epoch(j, name) ==
    LET proof == bytes_of(j, "bridge_epoch_proof")
    IN  IF proof = <<>> \/ proof[1].is # "proof" \/ proof[1].root # QBlocks[name].state THEN <<>>
        ELSE IF QBlocks[name].state = <<>> THEN <<0>> ELSE QBlocks[name].state

decode_finalized_head(j) == IF parses_json(j) THEN as("num", get(j, "head")) ELSE <<>>

decode_finalized_head_epoch(j) ==
    LET head == decode_finalized_head(j)
    IN  IF head = <<>> THEN <<>> ELSE <<head[1], as("num", get(j, "bridge_epoch"))>>

decode_certified_head(j, anchor) ==
    LET head == decode_finalized_head_epoch(j)
        header == bytes_of(j, "header_bytes")
        cert == bytes_of(j, "certificate")
    IN  IF /\ head # <<>> /\ header # <<>> /\ cert # <<>>
           /\ header_decodes(header[1])
           /\ decodes_certificate(cert[1])
           /\ QBlocks[header[1].name].height = head[1]
           /\ certifies(cert[1], header[1].name)
           /\ finalized(cert[1], anchor)
        THEN <<head[1], proven_bridge_epoch(j, header[1].name)>>
        ELSE <<>>

finalized_height(answer, anchor) ==
    IF request(answer) /\ answer.status = 200
    THEN LET head == decode_certified_head(answer.body, anchor)
         IN  IF head = <<>> THEN <<>> ELSE <<head[1]>>
    ELSE <<>>

decode_heights_after(j) ==
    LET items == IF parses_json(j) THEN as("arr", get(j, "heights")) ELSE <<>>
    IN  IF items # <<>> /\ \A i \in DOMAIN items[1] : items[1][i][1] = "num"
        THEN <<[i \in DOMAIN items[1] |-> items[1][i][2]]>> ELSE <<>>

burn_heights_after(answer) ==
    IF request(answer) /\ answer.status = 200 THEN decode_heights_after(answer.body) ELSE <<>>

\* An array of events that was cut short proves nothing.
decode_finalized_block(j) ==
    LET header == bytes_of(j, "header_bytes")
        cert == bytes_of(j, "certificate")
        events == as("arr", get(j, "events"))
    IN  IF /\ parses_json(j)
           /\ header # <<>> /\ cert # <<>> /\ decodes_certificate(cert[1])
           /\ as("bool", get(j, "truncated")) # <<TRUE>>
           /\ events # <<>>
           /\ \A i \in DOMAIN events[1] : hex(as("str", <<events[1][i]>>)) # <<>>
        THEN <<[header |-> header[1], certificate |-> cert[1],
                events |-> [i \in DOMAIN events[1] |-> events[1][i][2][2]]]>>
        ELSE <<>>

finalized_block(answer) ==
    IF request(answer) /\ answer.status = 200 THEN decode_finalized_block(answer.body) ELSE <<>>

-----------------------------------------------------------------------------
(* burn_proof.rs *)

is_bridge_burn_leaf(leaf) == leaf.contract = "qtv/native" /\ leaf.selector = "QBBN"

\* The hash that names a burn.
derived(data, genesis) ==
    [dest_chain |-> data.dest_chain, genesis |-> genesis, asset_id |-> data.asset_id,
     holder |-> data.holder, amount |-> data.amount, destination |-> data.destination,
     sender_nonce |-> data.sender_nonce, event_index |-> data.event_index]

parses_burn_leaf(leaf, genesis) ==
    /\ is_bridge_burn_leaf(leaf)
    /\ leaf.data.is = "burn"
    /\ leaf.data.burn_ref = derived(leaf.data, genesis)

verifies_burn(p, anchor) ==
    /\ header_decodes(p.header)
    /\ certifies(p.certificate, p.header.name)
    /\ finalized(p.certificate, anchor)
    /\ p.index \in DOMAIN QBlocks[p.header.name].events     \* verify_inclusion
    /\ QBlocks[p.header.name].events[p.index] = p.leaf
    /\ parses_burn_leaf(p.leaf, anchor.genesis)

verify_burn(p) ==
    [asset_id |-> p.leaf.data.asset_id, holder |-> p.leaf.data.holder,
     destination |-> p.leaf.data.destination, amount |-> p.leaf.data.amount,
     burn_ref |-> p.leaf.data.burn_ref, dest_chain |-> p.leaf.data.dest_chain,
     finalized_height |-> QBlocks[p.header.name].height]

-----------------------------------------------------------------------------
(* watch.rs *)

served_matches_header(b, height) ==
    /\ header_decodes(b.header)
    /\ QBlocks[b.header.name].height = height
    /\ QBlocks[b.header.name].events = b.events

\* The n-th of some indices, from the lowest.
nth(K, n) == CHOOSE i \in K : Cardinality({k \in K : k <= i}) = n

assemble(b) ==
    LET burns == {k \in DOMAIN b.events : is_bridge_burn_leaf(b.events[k])}
    IN  [n \in 1 .. Cardinality(burns) |->
            [header |-> b.header, certificate |-> b.certificate,
             leaf |-> b.events[nth(burns, n)], index |-> nth(burns, n)]]

\* The heights in question, the lowest first, each once.
asked(heights, scanned, head) ==
    SetToSortSeq({h \in Range(heights) : h \in (scanned + 1) .. head}, <)

\* One more block; on stops the loop.  The first that is not there, does not
\* decode or does not match its header ends it.
polled(blocks, st, height) ==
    LET b == IF height \in DOMAIN blocks THEN finalized_block(blocks[height]) ELSE <<>>
    IN  IF ~st.on THEN st
        ELSE IF b = <<>> \/ ~served_matches_header(b[1], height) THEN [st EXCEPT !.on = FALSE]
        ELSE LET proofs == st.proofs \o assemble(b[1])
             IN  [scanned |-> height, proofs |-> proofs,
                  on |-> Len(proofs) < MAX_BURNS_PER_POLL]

\* The first MAX_HEIGHTS_PER_POLL of the heights, one after another.
poll_each(blocks, from, heights) ==
    LET st[i \in 0 .. MAX_HEIGHTS_PER_POLL] ==
            IF i = 0 THEN from
            ELSE IF i > Len(heights) THEN st[i - 1]
            ELSE polled(blocks, st[i - 1], heights[i])
    IN  st

\* What a poll makes of a node's answers: how far it has read, and the proofs.
poll(node, scanned, anchor) ==
    LET head == finalized_height(node.head, anchor)
        heights == burn_heights_after(node.heights)
        ask == asked(heights[1], scanned, head[1])
        from == [scanned |-> scanned, proofs |-> <<>>, on |-> TRUE]
    IN  IF head = <<>> \/ head[1] <= scanned \/ heights = <<>> THEN from
        ELSE IF ask = <<>> THEN [from EXCEPT !.scanned = head[1]]
        ELSE poll_each(node.blocks, from, ask)[MAX_HEIGHTS_PER_POLL]
=============================================================================
