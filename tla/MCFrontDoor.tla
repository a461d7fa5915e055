---------------------------- MODULE MCFrontDoor ----------------------------
(***************************************************************************)
(* FrontDoor on a few threads and addresses, and the two codecs of a       *)
(* request beside it: parcel is what a codec is tried on.  A behaviour is  *)
(* about one thing only: how requests arrive, how proofs are handled, or   *)
(* one parcel.                                                             *)
(***************************************************************************)
EXTENDS FrontDoor, Wire, Frames, TLC

VARIABLE parcel

Scenes == {"arrivals", "deposits", "rotations"}
Scene(name) == [of |-> name]
mcvars == <<door_vars, parcel>>

ip(fam, site, sub, host) == [fam |-> fam, site |-> site, sub |-> sub, host |-> host]
mcAddrs == {ip("v4", 1, 0, 1), ip("mapped", 1, 0, 1), ip("v6", 2, 1, 1)}
mcProxies == {ip("v4", 1, 0, 1)}
mcUpdates == {[period |-> 0, name |-> 1], [period |-> 0, name |-> 2],
              [period |-> 1, name |-> 3]}
mcVerifiers == [Deposit |-> 1, Rotation |-> 1]
mcPerWindow == [Deposit |-> 2, Rotation |-> 2]
mcPerIp == [Deposit |-> 1, Rotation |-> 2]
mcPerPrefix == [Deposit |-> 1, Rotation |-> 2]

mcLimit == [u8 |-> 3, i32 |-> 7, u32 |-> 15, i64 |-> 127, u64 |-> 255,
            usize |-> 255, u128 |-> 4095]
mcCap == [c \in {"MAX_HEADERS", "MAX_BRANCH", "MAX_PARTICIPATION",
                 "MAX_PROOF_NODES", "MAX_VALIDATORS", "MAX_OPERATOR_SIGS",
                 "MAX_OPERATOR_SIG_BYTES", "MAX_PROOF_PATH",
                 "MAX_RELEASE_HEADERS", "MAX_RELEASE_BRANCH",
                 "MAX_RELEASE_TX_BYTES", "MAX_RAW_TX",
                 "MAX_DEPOSIT_ANCESTRY"} |-> 2]

mcWidth == [u8 |-> 1, u16 |-> 1, u32 |-> 2, u64 |-> 2, u128 |-> 2,
            array16 |-> 1, array32 |-> 1]
sig(id, n) == [operator_id |-> id, signature |-> [i \in 1 .. n |-> 1]]
Facts == {[k \in {Layout[i][1] : i \in DOMAIN Layout} |->
             IF k \in {"version", "direction"} THEN 1 ELSE n] : n \in {0, 2}}
Crossings ==
    {[kind |-> "MlDsaAttestation", artifact |-> [fact |-> f, signatures |-> s]] :
        f \in Facts,
        s \in {<<sig(1, 2)>>, <<sig(2, 1), sig(1, 0)>>, <<sig(1, 1), sig(1, 1)>>}}
    \cup {[kind |-> "HashStark", artifact |-> [statement_digest |-> d, proof |-> p]] :
            d \in {0, 2}, p \in {<<>>, <<1, 2, 0>>}}

mcInit ==
    /\ DoorInit
    /\ \/ \E name \in Scenes : parcel = Scene(name)
       \/ \E m \in Messages : parcel = [of |-> "message", it |-> m]
       \/ \E e \in Crossings : parcel = [of |-> "frame", it |-> encode_artifact(e)]

\* A frame is damaged on the way.
Damage == /\ parcel.of = "frame"
          /\ \E bytes \in Damaged(parcel.it) :
                parcel' = [of |-> "damaged", it |-> bytes]
          /\ UNCHANGED door_vars

\* Proofs are tried with empty bodies and no proxy between.
InScene(name) ==
    IF name = "arrivals"
    THEN \A c \in Live : conn[c].kind \notin {"deposit", "rotation"}
    ELSE \A c \in Live : /\ conn[c].left = 0 /\ ~trusts(conn[c].peer)
                         /\ name = "deposits" => conn[c].kind # "rotation"
                         /\ name = "rotations" => conn[c].kind # "deposit"

mcNext == \/ \E name \in Scenes :
                /\ parcel = Scene(name) /\ UNCHANGED parcel
                /\ DoorNext /\ InScene(name)'
          \/ Damage

mcSpec == mcInit /\ [][mcNext]_mcvars /\ Fairness

\* What one end of the RPC writes the other reads back as it was, every
\* request, response and error of wire.rs, at the edges of its integer types.
\* Two kinds of message are refused and never read as another one: a request
\* with a list longer than its limit, wherever the list stands, and a message
\* with a negative number, which is written as a large one (encode_request,
\* decode_request, encode_response, decode_response).  Whatever frame the
\* airlock admits, whole or damaged, is the one encoding of what it is admitted
\* as, so that two different frames never pass for one artifact (q-airlock
\* parse, q-isolation admit_artifact).
CodecsAgree ==
    /\ parcel.of = "message" => faithful(parcel.it)
    /\ parcel.of \in {"frame", "damaged"} => canonical(parcel.it)
=============================================================================
