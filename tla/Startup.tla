------------------------------ MODULE Startup ------------------------------
(***************************************************************************)
(* How the oracle daemon comes up on its guard snapshot (q-runtime boot.rs *)
(* run, persist.rs GuardStore), with every reason it has not to.  Several  *)
(* daemons may be pointed at one snapshot, in environments that differ;    *)
(* each one goes through run step by step, and may die at any step.        *)
(*                                                                         *)
(* A setting is <<"absent">>, <<"num", n>>, <<"hex", value, bytes>>,       *)
(* <<"list", entries>> or <<"text">>, which is none of these.  Of the      *)
(* guard the replay set and the foreign reserves are kept.  The files of   *)
(* anchors and of reserve reports are given by what reading them finds:    *)
(* ProofCorridors has the anchor file, GuardedBridge the reports and       *)
(* AuditTrail the audit log that a restore opens.                          *)
(***************************************************************************)
EXTENDS Integers, FiniteSets, SequencesExt

CONSTANTS
    Daemons, Envs,
    Deposits, Pools,        \* registered_assets of the seeded registry
    PUBLIC_KEY_BYTES, MIN_STATE_KEY_BYTES, MAX_U16, MAX_U32, MAX_U64, MAX_U128,
    MaxReports              \* bound on the reserve reports

VARIABLES
    at,             \* of a daemon: how far it has come
    env,            \* of a daemon: the environment it was started in
    first_boot,     \* of a daemon
    guard,          \* of a daemon: [used, reserve]
    snapshot,       \* nothing, or <<[key, guard]>>
    holder,         \* daemons that hold the lock file
    minted          \* history: of a deposit, how often it was acknowledged

vars == <<at, env, first_boot, guard, snapshot, holder, minted>>

Q == INSTANCE QuorumRules

-----------------------------------------------------------------------------
(* Settings *)

is_number(v, largest) == v[1] = "num" /\ v[2] \in 0 .. largest

is_hex(v, bytes) == v[1] = "hex" /\ v[3] = bytes

NoneTwice(list, field) == \A i, k \in DOMAIN list : list[i][field] = list[k][field] => i = k

\* Entries id:key.  No id twice, a quorum between the supermajority and the
\* whole set, and register takes no key twice.
reads_operator_set(members, quorum) ==
    /\ members[1] = "list" /\ members[2] # <<>>
    /\ \A i \in DOMAIN members[2] : /\ Len(members[2][i]) = 2
                                    /\ is_number(members[2][i][1], MAX_U32)
                                    /\ is_hex(members[2][i][2], PUBLIC_KEY_BYTES)
    /\ NoneTwice(members[2], 1) /\ NoneTwice(members[2], 2)
    /\ quorum[1] = "num"
    /\ quorum[2] \in Q!supermajority_floor(Len(members[2])) .. Len(members[2])

boots_from_config(e) ==
    /\ reads_operator_set(e.OPERATORS, e.QUORUM)
    /\ is_number(e.DEST_CHAIN_ID, MAX_U64)
    /\ is_hex(e.ERA, 32) /\ e.ERA[2] # "0"

\* Entries corridor:operator:endpoint.
declares_sources(v) ==
    v[1] # "absent" =>
        /\ v[1] = "list"
        /\ \A i \in DOMAIN v[2] : /\ Len(v[2][i]) >= 3
                                  /\ is_number(v[2][i][1], MAX_U32)
                                  /\ is_number(v[2][i][2], MAX_U32)
                                  /\ is_hex(v[2][i][3], 32)

\* A quorum of nobody is refused.
reads_governance(members, quorum) ==
    IF members[1] = "absent" THEN quorum[1] = "absent"
    ELSE reads_operator_set(members, quorum)

boots_from_env(e) ==
    /\ boots_from_config(e)
    /\ declares_sources(e.SOURCES)
    /\ reads_governance(e.GOVERNANCE, e.GOVERNANCE_QUORUM)

\* The key file is there, only its owner can read it, its owner is the state
\* directory's, and it is long enough.
state_key_file_problem(e) ==
    ~(/\ e.STATE_KEY_FILE.is = "file"
      /\ e.STATE_KEY_FILE.mode = "private"
      /\ e.STATE_KEY_FILE.owner = e.STATE_DIR_OWNER
      /\ e.STATE_KEY_FILE.bytes >= MIN_STATE_KEY_BYTES)

\* state_tag is keyed: a snapshot reads back under the key it was saved with.
state_key(e) == e.STATE_KEY_FILE.key

reads_reserves(v) ==
    v[1] # "absent" =>
        /\ v[1] = "list" /\ NoneTwice(v[2], 1)
        /\ \A i \in DOMAIN v[2] : v[2][i][1][1] = "hex" /\ is_number(v[2][i][2], MAX_U128)

configured(v) == IF v[1] = "list" THEN v[2] ELSE <<>>

\* A figure for every registered pool, and for nothing else.
reserves_cover(v) == {entry[1][2] : entry \in Range(configured(v))} = Pools

\* There is a source, or nothing that needs one.
reserve_watch_for(source, proof_corridors, exits_enabled) ==
    \/ source = "read"
    \/ source = "none" /\ ~proof_corridors /\ ~exits_enabled

\* host:port
parses_chain_rpc(v) ==
    v[1] = "list" /\ v[2][1][1] # "absent" /\ is_number(v[2][2], MAX_U16) /\ v[2][2][2] # 0

\* The head is signed by the pinned committee, or this is a test deployment.
head_is_trusted(e) ==
    \/ e.ANCHORS.committee
    \/ ~e.MAINNET /\ e.UNSIGNED_HEAD = <<"num", 1>>

-----------------------------------------------------------------------------
(* The steps of run *)

Fresh == [used |-> {}, reserve |-> [p \in Pools |-> [figure |-> <<"none">>, reported |-> 0]]]

\* The process ends; its lock goes with it.
Down(d) ==
    /\ at' = [at EXCEPT ![d] = "down"]
    /\ env' = [env EXCEPT ![d] = <<>>]
    /\ first_boot' = [first_boot EXCEPT ![d] = FALSE]
    /\ guard' = [guard EXCEPT ![d] = Fresh]
    /\ holder' = holder \ {d}

Refuse(d) == Down(d) /\ UNCHANGED <<snapshot, minted>>

\* snapshot_is_first_boot
knows_its_past(e) == snapshot # <<>> \/ e.INIT_SNAPSHOT = <<"num", 1>>

may_open(e) == e.SNAPSHOT /\ ~state_key_file_problem(e) /\ knows_its_past(e)

Launch(d) ==
    /\ at[d] = "down"
    /\ \E e \in Envs :
          /\ may_open(e)
          /\ at' = [at EXCEPT ![d] = "opened"]
          /\ env' = [env EXCEPT ![d] = e]
          /\ first_boot' = [first_boot EXCEPT ![d] = snapshot = <<>>]
    /\ UNCHANGED <<guard, snapshot, holder, minted>>

\* Fault: the lock of another process is not looked at.
claims_anyway(d) == TRUE

claims(d) == holder \subseteq {d}

Claim(d) ==
    /\ at[d] = "opened"
    /\ \/ /\ claims(d)
          /\ holder' = holder \cup {d}
          /\ at' = [at EXCEPT ![d] = "claimed"]
          /\ UNCHANGED <<env, first_boot, guard, snapshot, minted>>
       \/ ~claims(d) /\ Refuse(d)

\* load: no file is no snapshot; one under another key is refused.
loads(e) == snapshot # <<>> => snapshot[1].key = state_key(e)

Restore(d) ==
    /\ at[d] = "claimed"
    /\ \/ /\ boots_from_env(env[d]) /\ loads(env[d])
          /\ guard' = [guard EXCEPT ![d] = IF snapshot = <<>> THEN Fresh ELSE snapshot[1].guard]
          /\ at' = [at EXCEPT ![d] = "restored"]
          /\ UNCHANGED <<env, first_boot, snapshot, holder, minted>>
       \/ ~(boots_from_env(env[d]) /\ loads(env[d])) /\ Refuse(d)

\* GuardStore::save renames a whole file into place.
saved(d, g) == <<[key |-> state_key(env[d]), guard |-> g]>>

\* On a first boot an empty guard is saved before anything is served.
FirstSave(d) ==
    /\ at[d] = "restored"
    /\ at' = [at EXCEPT ![d] = "saved"]
    /\ snapshot' = IF first_boot[d] THEN saved(d, guard[d]) ELSE snapshot
    /\ UNCHANGED <<env, first_boot, guard, holder, minted>>

\* Only where no report has been taken yet.
apply_reserves(g, v) ==
    [g EXCEPT !.reserve = [p \in Pools |->
        IF g.reserve[p].reported # 0 THEN g.reserve[p]
        ELSE [figure |-> <<"configured", CHOOSE n \in 0 .. MAX_U128 :
                              \E entry \in Range(configured(v)) :
                                  entry[1][2] = p /\ entry[2][2] = n>>,
              reported |-> 0]]]

may_prepare(e) ==
    /\ reads_reserves(e.RESERVES) /\ reserves_cover(e.RESERVES)
    /\ e.ANCHORS.is # "bad"
    /\ reserve_watch_for(e.RESERVE_REPORTS, e.ANCHORS.proof_corridors, e.EXITS_ENABLED)
    /\ parses_chain_rpc(e.CHAIN_RPC)
    /\ head_is_trusted(e)

Prepare(d) ==
    /\ at[d] = "saved"
    /\ \/ /\ may_prepare(env[d])
          /\ guard' = [guard EXCEPT ![d] = apply_reserves(guard[d], env[d].RESERVES)]
          /\ at' = [at EXCEPT ![d] = "prepared"]
          /\ UNCHANGED <<env, first_boot, snapshot, holder, minted>>
       \/ ~may_prepare(env[d]) /\ Refuse(d)

\* The watches run; start_exits_for and the listener may still refuse.
Serve(d) ==
    /\ at[d] = "prepared"
    /\ \/ /\ env[d].EXITS_ENABLED => env[d].EXITS_START
          /\ at' = [at EXCEPT ![d] = "serving"]
          /\ UNCHANGED <<env, first_boot, guard, snapshot, holder, minted>>
       \/ env[d].EXITS_ENABLED /\ ~env[d].EXITS_START /\ Refuse(d)

-----------------------------------------------------------------------------
(* Once it serves *)

taken(g, x) == [g EXCEPT !.used = @ \cup {x}]

\* A deposit whose save fails, before the rename or after it, is taken back
\* and not acknowledged.
Mint(d, x) ==
    /\ at[d] = "serving"
    /\ x \notin guard[d].used
    /\ \/ /\ guard' = [guard EXCEPT ![d] = taken(guard[d], x)]
          /\ snapshot' = saved(d, taken(guard[d], x))
          /\ minted' = [minted EXCEPT ![x] = @ + 1]
       \/ /\ snapshot' = saved(d, taken(guard[d], x))
          /\ UNCHANGED <<guard, minted>>
       \/ UNCHANGED <<guard, snapshot, minted>>
    /\ UNCHANGED <<at, env, first_boot, holder>>

\* A signed reserve report is taken; the next save has it.
Report(d, p) ==
    /\ at[d] \in {"prepared", "serving"}
    /\ env[d].RESERVE_REPORTS = "read"
    /\ guard[d].reserve[p].reported < MaxReports
    /\ guard' = [guard EXCEPT ![d].reserve[p] =
                    [figure |-> <<"reported", @.reported + 1>>, reported |-> @.reported + 1]]
    /\ UNCHANGED <<at, env, first_boot, snapshot, holder, minted>>

\* At any step: a crash, an order to stop, a save that fails.
Crash(d) == at[d] # "down" /\ Refuse(d)

Init ==
    /\ at = [d \in Daemons |-> "down"]
    /\ env = [d \in Daemons |-> <<>>]
    /\ first_boot = [d \in Daemons |-> FALSE]
    /\ guard = [d \in Daemons |-> Fresh]
    /\ snapshot = <<>>
    /\ holder = {}
    /\ minted = [x \in Deposits |-> 0]

Next ==
    \E d \in Daemons :
        \/ Launch(d) \/ Claim(d) \/ Restore(d) \/ FirstSave(d) \/ Prepare(d) \/ Serve(d)
        \/ \E x \in Deposits : Mint(d, x)
        \/ \E p \in Pools : Report(d, p)
        \/ Crash(d)

Spec == Init /\ [][Next]_vars

-----------------------------------------------------------------------------
(* Properties *)

(***************************************************************************)
(* However many daemons are pointed at one snapshot, in whatever           *)
(* environments, and wherever they die: a deposit is acknowledged once, a  *)
(* daemon that serves knows every deposit that was, and no configured      *)
(* reserve figure takes the place of a report that was saved (run,         *)
(* GuardStore::claim, apply_reserves).                                     *)
(***************************************************************************)
ReplaySetSurvives ==
    /\ \A x \in Deposits : minted[x] <= 1
    /\ \A d \in Daemons : at[d] = "serving" =>
          /\ \A x \in Deposits : minted[x] > 0 => x \in guard[d].used
          /\ \A p \in Pools :
                /\ snapshot[1].guard.reserve[p].reported <= guard[d].reserve[p].reported
                /\ guard[d].reserve[p].reported > 0 =>
                       guard[d].reserve[p].figure = <<"reported", guard[d].reserve[p].reported>>
=============================================================================
