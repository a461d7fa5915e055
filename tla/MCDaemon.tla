------------------------------ MODULE MCDaemon ------------------------------
(***************************************************************************)
(* Small instances for TLC of the clock, the audit log and the startup of  *)
(* the daemon.                                                             *)
(***************************************************************************)
EXTENDS Daemon

AnyHead == {0, 2, 5, 100}
AnyEpoch == {None, 0, 1, 2, 3}
Expected == {4, None}

-----------------------------------------------------------------------------
(* The environments of a startup: a good one, and others that differ in    *)
(* one setting.                                                            *)

Key(k) == <<"hex", k, 4>>
Member(id, k) == <<<<"num", id>>, Key(k)>>

Figures(assets) == <<"list", [i \in DOMAIN assets |-> <<<<"hex", assets[i], 16>>, <<"num", i>>>>]>>

KeyFile == [is |-> "file", mode |-> "private", owner |-> "oracle", bytes |-> 32, key |-> "k"]

Good ==
    [SNAPSHOT |-> TRUE, STATE_KEY_FILE |-> KeyFile, STATE_DIR_OWNER |-> "oracle",
     INIT_SNAPSHOT |-> <<"num", 1>>,
     OPERATORS |-> <<"list", <<Member(1, "a"), Member(2, "b"), Member(3, "c")>>>>,
     QUORUM |-> <<"num", 3>>, DEST_CHAIN_ID |-> <<"num", 7>>, ERA |-> <<"hex", "e", 32>>,
     SOURCES |-> <<"list", <<<<<<"num", 1>>, <<"num", 2>>, <<"hex", "s", 32>>>>>>>>,
     GOVERNANCE |-> <<"absent">>, GOVERNANCE_QUORUM |-> <<"absent">>,
     RESERVES |-> Figures(<<"A">>), ANCHORS |-> [is |-> "read", proof_corridors |-> TRUE,
                                                 committee |-> TRUE],
     RESERVE_REPORTS |-> "read", CHAIN_RPC |-> <<"list", <<<<"text">>, <<"num", 80>>>>>>,
     MAINNET |-> TRUE, UNSIGNED_HEAD |-> <<"absent">>, EXITS_ENABLED |-> FALSE,
     EXITS_START |-> FALSE]

Bare == [Good EXCEPT !.ANCHORS = [is |-> "none", proof_corridors |-> FALSE, committee |-> FALSE],
                     !.RESERVE_REPORTS = "none", !.MAINNET = FALSE,
                     !.UNSIGNED_HEAD = <<"num", 1>>, !.SOURCES = <<"absent">>]

Environments ==
    {Good, Bare,
     [Good EXCEPT !.INIT_SNAPSHOT = <<"absent">>],
     [Good EXCEPT !.EXITS_ENABLED = TRUE, !.EXITS_START = TRUE],
     [Good EXCEPT !.SNAPSHOT = FALSE],
     [Good EXCEPT !.STATE_KEY_FILE.mode = "shared"],
     [Good EXCEPT !.STATE_KEY_FILE.key = "another"],
     [Good EXCEPT !.OPERATORS = <<"list", <<Member(1, "a"), Member(2, "a"), Member(3, "c")>>>>],
     [Good EXCEPT !.QUORUM = <<"num", 2>>],
     [Good EXCEPT !.ERA = <<"hex", "0", 32>>],
     [Good EXCEPT !.GOVERNANCE_QUORUM = <<"num", 3>>],
     [Good EXCEPT !.RESERVES = Figures(<<"A", "B">>)],
     [Good EXCEPT !.RESERVES = <<"absent">>],
     [Good EXCEPT !.RESERVE_REPORTS = "none"],
     [Good EXCEPT !.CHAIN_RPC = <<"absent">>],
     [Good EXCEPT !.EXITS_ENABLED = TRUE],
     [Bare EXCEPT !.MAINNET = TRUE]}
=============================================================================
