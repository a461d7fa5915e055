-------------------------- MODULE MCGuardedBridge --------------------------
(***************************************************************************)
(* Small instances of GuardedBridge for TLC.  Each configuration picks the *)
(* orders, deposits and reports its question needs.                        *)
(***************************************************************************)
EXTENDS GuardedBridge

CONSTANTS c1, c2, o1, o2, a1, r1, r2

Signed(ops) == [i \in DOMAIN ops |-> [operator_id |-> ops[i], good |-> TRUE]]

\* With two operators both have to sign; the second list repeats one.
Quorum == Signed(<<o1, o2>>)
Repeated == Signed(<<o1, o1>>)
SigLists == {Quorum, Repeated}

Request(kind, targets, marks, lists) ==
    [kind: {kind}, target: targets, mark: marks, sigs: lists]

Stamps == 0..(MaxHeight + RESUME_SKEW)

HaltOrders ==
    Request("ReportReorg", Chains, 1..2, SigLists)
    \cup Request("ResumeSource", Chains, 1..3, SigLists)
    \cup Request("WatchdogFreeze", {None}, 2..4,
                 {Signed(<<o1>>), Signed(<<o2>>)})
    \cup Request("EmergencyFreeze", {None}, {3}, SigLists)
    \cup Request("SetCorridorTier", Chains, {2}, SigLists)

MintOrders ==
    Request("ReportReorg", Corridors, {1}, {Quorum})
    \cup Request("ResumeSource", Corridors, {2}, {Quorum})
    \cup Request("EmergencyFreeze", {None}, {2}, {Quorum})

ReserveOrders == Request("ResumeAll", {None}, Stamps, SigLists)

Fact(route, c, r, amount) ==
    [route |-> route, source_chain |-> c, source_ref |-> r, asset_id |-> a1,
     amount |-> amount, valid |-> TRUE, independent |-> TRUE,
     expiry_height |-> 2, finality_depth |-> 1, sigs |-> Quorum]

\* A proof, an attested fact, and a second attested fact that gives the
\* same reference another amount.
MintDeposits ==
    {Fact("proof", c1, r1, 2), Fact("quorum", c1, r2, 2),
     Fact("quorum", c1, r2, 1)}

ReserveDeposits == {Fact("proof", c1, r1, 1), Fact("proof", c1, r2, 1)}

ReserveReports ==
    [asset_id: Assets, escrowed: {0, 2}, at_height: Stamps, sigs: {Quorum}]

NoRequests == {}

OneDeep == [c \in Corridors |-> 1]
AssetCapOfThree == [a \in Assets |-> 3]
AssetCapOfTwo == [a \in Assets |-> 2]
NoEpochCap == [a \in Assets |-> None]
EscrowOfFour == [a \in Assets |-> 4]
EscrowOfThree == [a \in Assets |-> 3]
EscrowOfOne == [a \in Assets |-> 1]
NoneOf == None
=============================================================================
