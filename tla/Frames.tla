------------------------------- MODULE Frames -------------------------------
(***************************************************************************)
(* The byte frames that cross the airlock: the bridge fact of q-codec, the *)
(* two envelopes of q-airlock around it, and q-isolation's admission of a  *)
(* frame.  Byte and field widths are scaled down (Base, Width); everything *)
(* else is as in the code.  Fixed arrays are read as numbers, which loses  *)
(* nothing.  A reader returns <<value>>, or <<>> when it refuses.          *)
(***************************************************************************)
EXTENDS Naturals, Sequences, SequencesExt

CONSTANTS Base,     \* a byte is one of 0 .. Base - 1
          Width     \* bytes in a field of each type

ASSUME FrameAssumption ==
    /\ Base \in Nat /\ Base > 2       \* the tags of the envelopes are 1 and 2
    /\ \A t \in DOMAIN Width : Width[t] \in Nat \ {0}
    /\ Width["u8"] = 1

Byte == 0 .. (Base - 1)
FACT_VERSION == 1
ENVELOPE_VERSION == 1
ARTIFACT_ATTESTATION == 1
ARTIFACT_STARK == 2

\* to_le_bytes and from_le_bytes
written(type, n) == [i \in 1 .. Width[type] |-> (n \div Base^(i - 1)) % Base]
read(bytes) == FoldLeft(LAMBDA n, i : n + bytes[i] * Base^(i - 1), 0,
                        [i \in DOMAIN bytes |-> i])

\* A Reader is the bytes that are left; advance refuses to pass the end.
advance(rest, n) == IF n > Len(rest) THEN <<>>
                    ELSE <<[got |-> SubSeq(rest, 1, n),
                            rest |-> SubSeq(rest, n + 1, Len(rest))]>>

-----------------------------------------------------------------------------
(* BridgeFact *)

Layout ==
    <<<<"version", "u8">>, <<"source_chain", "u32">>, <<"dest_chain", "u32">>,
      <<"route_id", "u32">>, <<"direction", "u8">>, <<"nonce", "u64">>,
      <<"source_ref", "array32">>, <<"asset_id", "array16">>,
      <<"amount", "u128">>, <<"recipient", "array32">>,
      <<"finality_depth", "u32">>, <<"observed_height", "u64">>,
      <<"expiry_height", "u64">>>>

encode_fact(fact) ==
    FlattenSeq([i \in DOMAIN Layout |-> written(Layout[i][2], fact[Layout[i][1]])])

\* Where each field starts, and in the last place where the fact ends.
Offset == [i \in 1 .. Len(Layout) + 1 |->
             FoldLeft(LAMBDA n, f : n + Width[f[2]], 0, SubSeq(Layout, 1, i - 1))]
FACT_ENCODED_LEN == Offset[Len(Layout) + 1]

\* Direction::from_tag knows the tags 0 and 1.
decode_fact(bytes) ==
    LET value(i) == read(SubSeq(bytes, Offset[i] + 1, Offset[i + 1]))
        keys == {Layout[i][1] : i \in DOMAIN Layout}
        fact == [k \in keys |->
                   value(CHOOSE i \in DOMAIN Layout : Layout[i][1] = k)]
    IN IF \/ Len(bytes) # FACT_ENCODED_LEN
          \/ fact["version"] # FACT_VERSION
          \/ fact["direction"] \notin {0, 1}
       THEN <<>> ELSE <<fact>>

validate(fact) ==
    /\ fact["version"] = FACT_VERSION
    /\ \A k \in {"source_chain", "dest_chain", "amount", "asset_id",
                 "recipient", "source_ref"} : fact[k] # 0

-----------------------------------------------------------------------------
(* Envelopes *)

encode_attestation(env) ==
    LET sigs == SortSeq(env.signatures,
                        LAMBDA a, b : a.operator_id < b.operator_id)
    IN <<ARTIFACT_ATTESTATION, ENVELOPE_VERSION>> \o encode_fact(env.fact)
       \o written("u32", Len(sigs))
       \o FlattenSeq([i \in DOMAIN sigs |->
              written("u32", sigs[i].operator_id)
              \o written("u16", Len(sigs[i].signature))
              \o sigs[i].signature])

encode_stark(env) ==
    <<ARTIFACT_STARK>> \o written("array32", env.statement_digest)
    \o written("u32", Len(env.proof)) \o env.proof

\* A length and as many bytes.
sized(rest, type) ==
    LET len == advance(rest, Width[type])
    IN IF len = <<>> THEN <<>> ELSE advance(len[1].rest, read(len[1].got))

\* One signature of the list, after those in r.sigs: its operator must come
\* after the last one.
next_signature(r) ==
    IF r = <<>> THEN <<>>
    ELSE LET id == advance(r[1].rest, Width["u32"])
             sig == IF id = <<>> THEN <<>> ELSE sized(id[1].rest, "u16")
         IN IF sig = <<>> THEN <<>>
            ELSE IF r[1].sigs # <<>>
                    /\ read(id[1].got) <= Last(r[1].sigs).operator_id
            THEN <<>>
            ELSE <<[sigs |-> Append(r[1].sigs,
                                    [operator_id |-> read(id[1].got),
                                     signature |-> sig[1].got]),
                    rest |-> sig[1].rest]>>

parse_attestation(rest) ==
    LET version == advance(rest, 1)
        body == IF version = <<>> THEN <<>>
                ELSE advance(version[1].rest, FACT_ENCODED_LEN)
        fact == IF body = <<>> THEN <<>> ELSE decode_fact(body[1].got)
        count == IF body = <<>> THEN <<>>
                 ELSE advance(body[1].rest, Width["u32"])
        listed == IF count = <<>> THEN <<>>
                  ELSE FoldLeft(LAMBDA r, i : next_signature(r),
                                <<[sigs |-> <<>>, rest |-> count[1].rest]>>,
                                [i \in 1 .. read(count[1].got) |-> i])
    IN IF \/ version = <<>> \/ fact = <<>> \/ listed = <<>>
          \/ version[1].got # <<ENVELOPE_VERSION>>
          \/ read(count[1].got) = 0
          \/ listed[1].rest # <<>>
       THEN <<>>
       ELSE <<[fact |-> fact[1], signatures |-> listed[1].sigs]>>

parse_stark(rest) ==
    LET digest == advance(rest, Width["array32"])
        proof == IF digest = <<>> THEN <<>> ELSE sized(digest[1].rest, "u32")
    IN IF proof = <<>> \/ proof[1].rest # <<>> THEN <<>>
       ELSE <<[statement_digest |-> read(digest[1].got), proof |-> proof[1].got]>>

-----------------------------------------------------------------------------
(* The boundary *)

\* The kind of an artifact, with the artifact; Foreign and Malformed frames
\* are refused alike.
admit(frame) ==
    CASE frame # <<>> /\ frame[1] = ARTIFACT_ATTESTATION ->
            LET env == parse_attestation(Tail(frame))
            IN IF env = <<>> THEN <<>>
               ELSE <<[kind |-> "MlDsaAttestation", artifact |-> env[1]]>>
      [] frame # <<>> /\ frame[1] = ARTIFACT_STARK ->
            LET env == parse_stark(Tail(frame))
            IN IF env = <<>> THEN <<>>
               ELSE <<[kind |-> "HashStark", artifact |-> env[1]]>>
      [] OTHER -> <<>>

encode_artifact(crossing) ==
    IF crossing.kind = "HashStark" THEN encode_stark(crossing.artifact)
    ELSE encode_attestation(crossing.artifact)

admit_artifact(crossing) == admit(encode_artifact(crossing))

-----------------------------------------------------------------------------
\* What may happen to a frame on the way: a byte altered, dropped or added.
Damaged(frame) ==
    {ReplaceAt(frame, i, b) : i \in DOMAIN frame, b \in Byte}
    \cup {RemoveAt(frame, i) : i \in DOMAIN frame}
    \cup {InsertAt(frame, i, b) : i \in 1 .. Len(frame) + 1, b \in Byte}

\* Every frame that is admitted is the one encoding of what it is admitted as.
canonical(frame) ==
    LET crossing == admit(frame)
    IN crossing # <<>> => encode_artifact(crossing[1]) = frame
=============================================================================
