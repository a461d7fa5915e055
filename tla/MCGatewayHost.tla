--------------------------- MODULE MCGatewayHost ---------------------------
(***************************************************************************)
(* Small instances of GatewayHost for TLC.                                 *)
(***************************************************************************)
EXTENDS GatewayHost

CONSTANTS c1, c2, o1, o2, o3, o4, a1, r1, r2

Signed(ops) == [i \in DOMAIN ops |-> [operator_id |-> ops[i], good |-> TRUE]]

\* Of four operators three are needed.
Quorum == Signed(<<o1, o2, o3>>)
All == Signed(<<o1, o2, o3, o4>>)
Repeated == Signed(<<o1, o1, o2, o2>>)
Forged == <<[operator_id |-> o1, good |-> TRUE],
            [operator_id |-> o2, good |-> TRUE],
            [operator_id |-> o3, good |-> FALSE]>>
SigLists == {Quorum, All, Repeated, Forged}

Request(kind, targets, marks, lists) ==
    [kind: {kind}, target: targets, mark: marks, sigs: lists]

ExitOrders ==
    Request("EmergencyFreeze", {None},
            1..(MaxHeight + 1), {Quorum})
    \cup Request("LiftFreeze", {None},
                 1..(MaxHeight + 1), {Quorum})
    \cup Request("ResumeAll", {None}, 0..(MaxHeight + RESUME_SKEW), {Quorum})

CorridorOrders ==
    Request("AcceptBatch", {c1}, 0..MaxBatches, SigLists)
    \cup Request("ReportReorg", Chains, 0..(MaxHeight + RESUME_SKEW), {Quorum})
    \cup Request("ResumeSource", Chains, 0..(MaxHeight + RESUME_SKEW), {Quorum})

Fact(route, r, amount, sigs) ==
    [route |-> route, source_chain |-> c1, source_ref |-> r, asset_id |-> a1,
     amount |-> amount, valid |-> TRUE, independent |-> TRUE,
     expiry_height |-> 3, finality_depth |-> 1, sigs |-> sigs]

ExitDeposits == {Fact("proof", r1, 2, <<>>), Fact("quorum", r2, 2, Quorum)}

AttestedDeposits ==
    {Fact("quorum", r1, 1, sigs) : sigs \in {Quorum, Repeated, Forged}}

\* One host works with exits and freezes, the other with corridors.
TwoHosts ==
    [exits |->
        [orders |-> ExitOrders, deposits |-> ExitDeposits, policy |-> <<>>,
         calls |-> {"pause_all", "set_escrow"}, amounts |-> 0..2, epochs |-> {1}],
     corridors |->
        [orders |-> CorridorOrders, deposits |-> AttestedDeposits,
         policy |-> [c \in Chains |-> 1],
         calls |-> {"set_corridor_active", "set_corridor_quorum"},
         amounts |-> {}, epochs |-> {}]]

OneDeep == [c \in Corridors |-> 1]
CapOfThree == [a \in Assets |-> 3]
EpochCapOfTwo == [a \in Assets |-> 2]
NoneOf == None
=============================================================================
