# Q-Oracle: a TLA+ verification of the bridge oracle

Q-Oracle is the oracle daemon of a bridge. It mints bridged assets against
deposits that are proven by light clients or attested by a quorum of operators,
halts on signed orders, reorganisations and reserve shortfalls, and (in a service
that is built but not yet switched on) pays burns out again against vault
collateral. This directory models the system from the bytes of a request to the
acknowledgement of a payout, checks it with TLC on small instances, and proves
the safety of the gateway, the daemon, the front door, the attestors, the light
clients with their corridors and the exit service with TLAPS for every value of
the constants.

## The system

The repository is a Rust workspace; the parts that matter here are the following.

| Part | State | Operations | Modules |
|---|---|---|---|
| Gateway (`q-gateway/src/gateway.rs`) | the *guard*: height, epoch, minted amounts, used references, pauses with dates, freeze horizons, corridors, pending exits, reserve reports | mints by proof and by quorum, batches, exits, reorg reports, resumes, freezes, lifts, tiers, reserve attestations; `encode_guard`, `rehydrate_guard` | `Gateway`, `GatewayHost` |
| Operator sets (`operators.rs`) | keys and threshold | `verified_quorum` | `QuorumRules` |
| Daemon (`q-runtime` `http.rs`, `watch.rs`, `boot.rs`; `q-qbridge/src/endpoints.rs`) | one gateway behind a read-write lock, the snapshot on disk, requests in flight | one handler per request; `prepare_deposit`, `commit_deposit`; save, roll-back, restore | `GuardedBridge` |
| Startup (`boot.rs` `run`, `persist.rs` `GuardStore`) | the lock file, the snapshot, the environment | every step of `run` and every refusal | `Startup`, `ExitConfig` |
| HTTP front door (`http.rs`) | open connections, windows, bytes in memory, proof budgets and verifiers, the rotation store | accept, read, admit, verify, install, answer, time out | `FrontDoor` |
| Messages and frames (`wire.rs`, `json.rs`; `q-codec`, `q-airlock`, `q-isolation`) | none | writers and readers of every message, error and frame | `Wire`, `WireErrors`, `Frames` |
| Snapshot and audit log (`persist.rs`) | guard file, log of entries (a hash chain), the anchor in the guard | `record_admin`, `save`, `load_audit` | `AuditTrail` |
| Chain clock (`clock.rs`) | origin of the height, time of the last epoch move | `tick` | `ChainClock` |
| Reserve watch, watchtower (`reserve.rs`, `q-watchtower`) | none of their own | reports, breaker; `observe`, `enforce` | `GuardedBridge`, `GatewayHost` |
| Attestor and federated admission (`q-attestor`, `q-federated`) | signing journal and its anchor file, observed facts, aggregated envelopes | observe, sign, save, restart; aggregate, admit | `Attestor` |
| Light clients (`qlc-bitcoin`, `qlc-ethereum`, `qlc-cosmos`) | a checkpoint, a committee store, a trusted header | verify a deposit; follow the chain; the arithmetic, encodings and trees below | `Bitcoin`, `Ethereum`, `Cosmos`, `Numbers`, `Merkle`, `Tries`, `Hashing`, `HashTrees` |
| Proof corridors (`pools.rs`, `corridors.rs`, `trustless.rs`, `anchors.rs`, `endpoints.rs`) | pools, armed anchors, mints | configure, arm, rotate, mint on a proof | `ProofCorridors` |
| Exit desk, feed, service (`q-exits`, `boot.rs`) | exits, vaults, replay ledger, dead letters, journal; cursor, pending proofs; the gate with its queue | open, settle, slash, dead letter, replay; `drive`, `poll`; `step`, the sweeps, `submit_release` | `ExitDesk`, `ExitPromise` |
| Burn and payout proofs, decisions (`rpc.rs`, `burn_proof.rs`, `anchor.rs`, `payout.rs`, `outbound.rs`) | exits with their statements, signatures | fetch and verify burns, verify payouts, sign and count decisions | `BurnSource`, `Payouts` |

How they interact. HTTP threads, the clock thread and the reserve thread share
the gateway through the lock. A handler that changed the guard writes the audit
entry and then the snapshot before it answers; if one of the two fails it puts
the gateway back with `rehydrate_guard` and answers with an error. The clock
changes height and epoch without saving them. The proof of a deposit, or of a
committee rotation, is verified with no lock held, between a check under the
read lock and a commit under the write lock. An operator signs only what its
journal already holds on disk. The exit service has a thread of its own that
owns the desk; HTTP threads reach it only through the release gate.

What is hard here, and what the properties are for:

- a request is judged in one critical section and takes effect in another
  (deposits, rotations; payout proofs against the deadline sweep);
- every write has several points of failure, and a failed write may be complete
  on disk (a rename whose directory sync fails, a header written before the
  error, a journal renamed and its anchor not);
- a restart takes the clock back, forgets what is not in the snapshot, and may
  find another environment, another daemon or another file;
- signed orders stay valid messages for ever: replay, reordering, dates ahead
  of the clock;
- the nodes that feed the clock, the attestors, the light clients and the burn
  feed are not trusted, and clients stall, hang up and race;
- limits are shared by threads that end in many ways;
- some things must eventually happen: a shortfall ends as a saved pause, a
  connection ends, the committee store follows its chain.

`PROJECT.json` lists these hazards with the lines where they bite and the
properties that cover them.

## The modules

### The gateway and the daemon

`QuorumRules` — the counting rules: the two-thirds floor, the quorum of the
operator set and that of a corridor, and `verified_quorum` (repeated and bad
signatures do not count).

`Gateway` — the guard as a record and every method as an operator on it. A
method that can refuse is a pair: `can_m` is the conjunction of its checks, `m`
the new record. `encode_guard` keeps what the snapshot keeps (no
`paused_since`), `rehydrate_guard` is what a load or a roll-back makes of a
snapshot, dates of pauses rebuilt and tiers merged included. `touched` stands
for the guard's revision counter, of which the daemon only asks whether it moved.

`GuardedBridge` (extends `Gateway`) — the daemon. An action is one critical
section with the write it makes. `persist_if_advanced` and `RollBack` are the
end of every handler: success with the snapshot written, or a failure before or
after the rename. `Restart` may come at any time. Requests are members of
`Orders`, `Deposits` and `Reports`, and can be sent any number of times.
`granted`, `regranted`, `ledger` and `began` are history variables for the
properties.

`GatewayHost` (extends `Gateway`) — any program that calls the public methods
of the crate in any order, with the methods the daemon does not serve: exits,
batches, lifts, corridor settings, `pause_all`, and a store and reload. `Hosts`
describes the programs (which calls they make, with which orders, deposits and
fork policy); a behaviour is of one of them.

`ChainClock` — `ChainClock::tick` with a node that answers anything, time,
saves by other requests and restarts. `GuardedBridge` has the clock as "any
step forward", so it covers what this one allows.

`AuditTrail` — the log, the guard file and the anchor between them. The hash
chain makes an anchor equivalent to a prefix of the log, and a prefix is what
it is in the model.

`Startup` — `run` step by step, for several daemons on one snapshot: taking the
lock, reading the operator sets, chain, clock, reserves and service addresses,
loading the snapshot or starting empty, the checks across settings, minting and
saving, dying at any step. An environment gives each variable as absent, a
number, hex, a list or text; every parse that can refuse is there.

`Daemon` — puts the clock, the audit log and the startup side by side, since
they share only the snapshot, and names their promises for the run and the
theorems.

### The front door

`FrontDoor` — the accept loop, one thread per connection and what they share:
connections in all and per address, arrivals per window, request bytes, and for
each class of proof a budget per window, per address and per prefix and a number
of verifiers. A thread waits for its request, for a verifier or a lock, times
out, or panics while it verifies; the guards (`SlotGuard`, `BodyGuard`,
`ProofSlot`) give back what it holds. A rotation is verified against the store
it read and installed under the write lock if that store is still there.
Clients may come through trusted proxies.

`Wire`, `WireErrors` — for every message and error a table of its members in
the order the code writes them, with the type of each, and a second table of
the readers in the code. `faithful` compares writer and reader. A JSON text is
its tree; depth and node limits are kept.

`Frames` — the byte frames: the fact of `q-codec`, the envelopes of `q-airlock`
and `admit_artifact` of `q-isolation`, over bytes of a small base. `canonical`
says that a frame, whole or damaged at any place, is refused or is *the*
encoding of what it is admitted as.

### The deposits

`Attestor` — operators with a signing journal. A save writes the journal and
then the anchor file beside it, each through a rename, and can stop between
them; `load` repairs one step of difference. Signing follows saving. Endpoints
may lie and operators may share one; the operator's device may fail to sign.
`aggregate` collects signatures and `admit` asks for independent sources.

`Numbers` — 256-bit arithmetic in limbs, compact targets, retargeting and
varints at any width, each beside what it should compute. `Tries` — RLP and
Merkle Patricia proofs with a reference trie. `Hashing` — how a Cosmos
chain hashes leaves and nodes, over an ideal hash; `HashTrees` — its trees, their
inclusion proofs, and every existence proof that can be read out of a root, which
is what is presented to the client.

`Bitcoin` — headers from a pinned checkpoint, retargets, work, median time,
confirmation depth by value, Merkle branches (with the 64-byte transaction that
looks like an inner node), deposits in outputs. `Ethereum` — bootstrap,
committee updates, finality with its two state layouts, ancestry through
parents and block roots, receipts and logs, `slots_are_consistent` and
`advance_period`. `Cosmos` — commits, validator sets, skipping and adjacent
transitions, the trusting period, and existence proofs through two stores.

`ProofCorridors` — pools, corridors, the anchor file and its checks, and the
mint on a proof: a claimed fact is matched with what the light client proved.
It composes the three clients: their chains move, anybody presents updates, and
its assumptions say what the chains are like and how few of those who sign or
work for them are dishonest. A deposit is one step (`GuardedBridge` and
`FrontDoor` have the steps it is made of).

### The exits

`ExitPromise` — the abstract promise of the exit desk: a burn is opened once and
then settled or slashed, once, and a payout settles one exit.

`ExitDesk` — the exit service: desk, vaults, ledger, journal, burn feed, both
sweeps and the gate. An action is one journal event with the change around it;
`submit_release` is two actions, because the proof is verified between the
check of `expected` and the push to the queue. A frame of the journal carries a
chained tag, so a frame is the sequence of events up to it. A sweep keeps the
set of exits it has yet to visit (`todo`) and visits the least id first, which
is the order of the map in the code; the burns of a poll come in any order that
agrees with their heights (`ByHeight`), for a node lists those of one block as
it likes. The node also chooses which heights it lists and serves (`Watched`);
`hidden` keeps the heights that the cursor passed without their block. It is
shown to implement `ExitPromise`.

`ExitConfig` — the exit service's settings from the environment. `BurnSource` —
what a node answers and how a burn is proven: certificate, committee, header,
event tree. `Payouts` (extends both, with an instance of `Bitcoin`) — the
statement of an exit, the proof that it was paid, the desk's comparison of the
two, and the decision that operators sign and count.

`MC*` are the instances for TLC, `*Proofs` the proofs and `Inductions` what they
share of finite sums and of trees. Operators marked *Fault* are deliberate errors,
each of a kind the code could have; they are not used by any specification, and `PROJECT.json` ("mutants") says which
definition each replaces to show that a property would notice.

Abstractions common to all: a signature is a flag or a record that only its
key's holder can make; a hash is ideal (it is what it hashes); heights, epochs
and amounts of the gateway are unbounded naturals, as the code uses checked or
saturating arithmetic there and the instances stay far below any limit, while
the arithmetic of the light clients and of the codecs has its width. Wording
and logging are left out.

## The runs

| Run | Instance | What it shows |
|---|---|---|
| `orders` | one source, two operators, heights to 3, reports, resumes, watchdog and emergency freezes, tiers; about 200 000 states | `OrdersTakeEffectOnce`, `NoLockout`, `PauseDateSurvives`, `WatchdogsLeaveGaps` over replay, failed saves and restarts |
| `mints` | three deposit requests for two references, two of each in flight, two epochs, halts; about 500 000 states | a reference is minted once and the mints stay within the cap (`SupplyWithinCap`) and the epoch budget, a mint is durable when acknowledged, and is never made by a halted gateway |
| `reserves` | reports of too little and enough, resumes, two deposits; about 34 000 states | never open while short, in memory and on disk; a lasting shortfall is eventually saved as a pause |
| `gateway` | two hosts: exits with freezes and lifts; four operators with corridors, batches and pauses; about a million states | units are conserved, with an open exit counted under the cap of its asset (`Conservation`), exit ids are not reused, a lifted freeze stays lifted, everything accepted has a two-thirds majority, no resume is older than its pause |
| `daemon` | three parts, one per behaviour: the clock (a lying node, three boots), the audit log (two orders, a report, four entries), the startup (two daemons, 17 environments) | height and epoch moves are paced; the log is ahead of the guard and the daemon starts unless an entry was cut off; no restart, other environment or second daemon forgets a mint |
| `exitdesk` | two burns, one payout, two vaults, ledger and feed at their limits, a node that leaves heights out; about 620 000 states | `RestartsUnlessTorn`, `VaultsBacked`, `NoBurnLost` (of what the node showed the watcher), `PaidNotSlashed`, and `KeepsPromise`: refinement of `ExitPromise` |
| `attestor` | two operators, two endpoints, one lying, heights to 2; one operator through six saves and heights to 4; about 820 000 states | `NeverEquivocates`: an operator signs one account of a reference, over restarts and expiries; `SurvivesOneCut`: one interrupted save never keeps it from starting; `OnlyRealLocks`: what is admitted is on the source chain |
| `frontdoor` | two connections, three scenes (arrivals, proofs, codecs) | `NothingLeaks`: every shared count is what live threads hold; `RotationBuildsOn`: a rotation is installed over the store it was verified against; `CodecsAgree`: what is written reads back, and a list past its limit or a negative number is refused; `ConnectionsEnd` |
| `lightclients` | three small chains with forks, and samples for the algorithms | `TrustsTheChain`, `OnlyRealDeposits` (a mint is of a real deposit, once, by whichever proof), `AlgorithmsRight` (against reference definitions), `FollowsTheChain` |
| `payouts` | a Quantova chain of three blocks, a Bitcoin chain with forks, lying nodes | `OnlyRealBurns`, `PaidMeansPaid`, `PaysInTime`, `OneVerdict` |

Violation runs. Each checks one sentence of the documentation or the tests and
shows the code does otherwise; `PROJECT.json` ("findings") quotes them.

- `reorg_replay`: a reorg report dated ahead of the clock can be replayed after
  the resume that followed it (`OrdersTakeEffectOnce` excepts exactly this case).
- `signer_forgets`: an operator that signs a fact again with a later expiry
  remembers the first one, so that the reference can be pruned while the second
  signature is live, and a conflicting fact is signed. (`NeverEquivocates` holds
  in `attestor` because there the expired references stay within
  `MAX_REMEMBERED_EXPIRED`.)

### Observations without a run

Where the documentation and the code read differently, or a reader may be
surprised:

- A restart takes the height back, so that a reserve report that had gone stale
  is fresh again without a new one (`gateway.rs:339`, README line 35).
- `accept_batch` looks at no pause and no freeze (`gateway.rs:948`), which
  `spec/q_gateway.spec:151` denies; the epoch is taken as reported over any
  distance (`clock.rs:183`), where README line 27 speaks of single steps.
- After a tier order whose save failed, memory keeps the higher tier and a
  restart lowers it. The first answer of a node is capped at the expected head
  and then raised by the clock slack in the same tick. An accepted reserve
  report alone is not saved by the tick that takes it (`reserve.rs:184`).
- Two interrupted saves in a row can leave an attestor's journal two ahead of
  its anchor, which is refused for ever (`operator.rs:288`, `334`). After a
  device that failed to sign, and a restart, the answer is `AlreadySigned` until
  the next window (`operator.rs:501`). One correlated signer too many spoils an
  envelope that had enough without it (`admission.rs:65`).
- `trusts` compares the peer's raw address where the limits use `client_key`
  (`http.rs:359`); a thread that cannot be spawned panics the accept loop
  (`http.rs:438`). The rotated committee store is not persisted.
- The Cosmos anchor is never advanced by the daemon, so its deposits stop after
  the trusting period (`light.rs:92`); the Ethereum store cannot go on past a
  period without finality (`engine.rs:308`). The `PINNED_*` lists are empty, so
  the proof corridors are not armed in a release build. Header times are compared with
  each other and never with a clock (`chain.rs:146`).
- Signed numbers are written `as u64` and read by `as_i64` and `as_i32`, so that a
  negative one is refused (`wire.rs:117`, `852`): the absent vote of a Cosmos
  block has a time before 1970 and makes the request with its deposit unreadable,
  although the test at `wire.rs:2600` is named
  `a_cosmos_deposit_round_trips_its_raw_material_and_fact`. `CodecsAgree` says
  which messages are refused and checks that none is read as another one. A
  256-bit number with its top bit set has no compact form that
  reads back; no target is that large.
- The watcher asks the node which heights have burns, and its cursor passes every
  other one, at once to the head when none is listed (`q-exits/src/watch.rs:103`,
  `108`, `130`): a node that leaves a height out hides its burns until a restart
  scans the chain again. That holds of a height that was listed and could not be
  served, too, if a later list is without it; the tests say that the cursor "never
  passes the failing height" (`tests/burn_watcher_cap.rs:215`) of sources that list
  every height. `NoBurnLost` is about the burns whose blocks the watcher was
  given: `hidden` has the heights it passed without their block.
- `mainnet_configured`
  looks only at `Q_ORACLE_EXITS_CHAIN_ID` (`exits.rs:29`). The floor on the
  work is what stops a payout proof from a fork of low difficulty
  (`payout.rs:160`).

### Bounds

Windows, skews and cooldowns of the gateway are 1 to 3 blocks and the height
goes to 3, so that every comparison is met from below, at equality and from
above, and a restart can take the clock back across each. Two operators with a
threshold of two (or four with three) are the least for which a repeated
signature, a single operator and a proper quorum differ. One source and one
asset suffice where the code keeps them apart by key; the second host of
`gateway` has a second chain for the calls that are not about the corridor. Two
identical deposits in flight are the least for which prepare and commit race.

In `exitdesk` the node shows or hides any of the heights with burns. Two burns
are the least for which a sweep visits an exit with and
one without a payout; the ledger is full after two entries, so both opening and
settling meet it; the dead-letter list and the feed hold one; the clock goes to 1
with window and grace 0, which is one deadline on either side. What it does not
reach is a vault too thin because of *another* open exit; the desk answers
`ThinVault` as it answers `LedgerFull`, which is reached. `MAX_PENDING_RELEASES`
is not exceeded, which `PaidNotSlashed` needs (see the hazard on eviction).

`daemon`: time to 4 with three boots is a move of the epoch before, at and after
its spacing, and a boot between any two. Two daemons are the least that compete
for a lock; each of the 17 environments is good or has one setting that `run`
must refuse or treat specially.

`attestor`: one reference with two contents, one lying endpoint of two and three
ways to share them out, heights to 2 and three saves for the crew of two: what is
admitted depends on who signed, not on how often an operator was restarted. The
operator on its own has six saves, any of which may be cut short (a start, a
signature, a restart and another signature take four), and heights to 4 with a
lifetime of one block, so that a fact is signed, expires, and its reference is
offered again with other contents, before and after a restart.
`signer_forgets` has two references, one operator, heights to 4.

`frontdoor`: two connections with room for two in all, one arrival per address
and window, bodies of 2 in a memory of 3 (two do not fit), one verifier; updates
for consecutive periods and a rival. Codec samples take every message and every
error at the edges of its integers, -1 and the least value of the signed ones
included, every list at and past its limit, every
frame damaged at every byte. Frame bytes have base 3 and the widths are scaled.

`lightclients`: a beacon chain of three committee periods with two missed slots,
a fork and a change of layout, two of four members dishonest; ten Bitcoin
blocks with a retarget every four and four forks (stronger in blocks, weaker in
work, and the like); a Cosmos chain with a changing validator set, forged
headers and one corrupt validator; anchor files with each mistake; three mints.
Numbers have two limbs of two bytes of two values, with every value of them
tried; tries hold every set of a few keys with common prefixes; a Merkle tree
has up to six leaves.

`payouts`: three blocks with one false and one foreign block, one dishonest of
four members, a window of 4 and time to 5 (before, at and after the deadline),
payout proofs from the main chain, from forks, for other burns and with wrong
outputs, and two sets of four operators with at most three honest keys, one of
which has a dishonest key under two names.

### Fairness and deadlock

`BreakerIsSaved` is checked under weak fairness of a reserve tick whose record
and save both succeed: `ReserveWatch::spawn` loops for as long as the process
lives, and a disk that fails for ever saves nothing. `ConnectionsEnd` is checked
under weak fairness of each connection's thread: the operating system runs it,
reads and writes have time-outs, and no thread waits for another but at a lock.
`FollowsTheChain` is about the beacon chain going on and someone delivering the
updates it signs, which the client cannot bring about; what it says of the code
is that some signed update is always accepted. Nothing is assumed of clients,
of the clock or of restarts.

Deadlock is checked in `orders`, `mints`, `reserves`, `gateway` and `exitdesk`.
Elsewhere the system may stop: a daemon that refuses its log or its environment
stays down (`daemon`), an operator whose journal is refused stays down and
heights are bounded (`attestor`, `signer_forgets`), all clients may have left or
a codec sample is done (`frontdoor`), the chain and the mints come to their
bounds (`lightclients`), and the time is over (`payouts`).

## The proofs

Eight modules hold theorems. All are proved from the assumptions of the modules
they are about, which say that the configuration is well formed (numbers are
naturals, the sets of operators, connections, endpoints, vaults and burns are
finite, a transaction id names one payout). Where a theorem needs more, it says
so as a hypothesis, which is named below. No bound of an instance enters.

### The daemon: `GuardedBridgeProofs`

- `TypeCorrect`: `Spec => []TypeOK`;
- `AcknowledgedIsDurable`: what was answered with success is known to memory
  and disk for ever;
- `TakesEffectOnce`: no order or deposit takes effect twice (reorg reports dated
  ahead of the clock excepted);
- `NobodyLockedOut`: no stored height is further ahead of the clock than the
  window of the order that set it;
- `PauseDatesSurvive`: a paused source has a date, never earlier than the pause;
- `HaltsStopMints`: the action property `NoMintWhileHalted`;
- `WatchdogsCannotChain`: operators acting alone leave gaps.

The inductive invariant is `IInv`: the state is typed; the gateway in memory and
the one on disk are both `Sound` (stored heights within their windows, dates
where there are pauses); both *hold* every granted order; no order was regranted;
and pauses are dated at or after they began. `AckedIsDurable` is not inductive:
that an order is remembered says too little about *how*, and a later resume or a
roll-back could undo it. `Holds` strengthens it: it dates the pause an order
caused and ties a watchdog's freeze to `watchdog_last`. The invariant has to
speak of the disk as much as of memory because a restart makes the one the
other. The argument: every method makes a gateway that `Grows` from the old one,
`Grows` implies that what was held is kept (`Keeps`), the encoding and the merge
of a roll-back keep it too, and each handler ends in `persist_if_advanced` or
`RollBack`, which are treated once (`Persisted`, `RolledBack`). There is a lemma
for each method (`...Step`), one for each action (`...Inv`), and `Invariance`
puts them together.

### What is minted (also `GuardedBridgeProofs`)

`SupplyIsCapped`, `EpochsAreCapped` and `StaysSolventOrPaused` are
`SupplyWithinCap`, `EpochBudget` and `SolventOrPaused`, from
`FiguresAccountForMints` (`Spec => []SupplyInv`) and, for the part that no
reference is minted twice, `TakesEffectOnce`. The caps are held against
figures that the gateway keeps, so the invariant compares them, in memory *and*
on disk, with the history (`Covered`): the minted amount of an asset is at least
the sum of its mints, the count of the current epoch at least the sum of the
epoch's, and no mint is of a later epoch than either. The last is what makes the
budget survive a restart that takes the epoch back: a mint is saved with its
epoch, although a move of the epoch is not. A mint that is rolled back may leave
a snapshot that counts too much, hence "at least". For solvency the invariant
adds where an escrow figure comes from: without a report it is not above the
static figure, which is what a restart puts in its place.

### Any host of the crate: `GatewayHostProofs`

`UnitsAreConserved`, `ExitsCloseOnce`, `LiftsAreFinal`,
`QuorumsAreSupermajorities` and `ResumesFollowPauses` (an action property), from
`HostInv`, which follows each history separately: the ids of open and closed
exits are different and all given out, and units are where the sum of the open
exits says; what was minted is at most what was paid out and the cap (a mint is
held to it with the open exits counted); no lifted horizon is past the last one,
and the last is past them
all or lifted itself; a pause has a date not earlier than it began, or none, and
then the height is not earlier.

### Clock, log and startup: `DaemonProofs`

`LyingNodeIsBounded` and `EpochIsPaced` from `ClockInv`: heights in memory and
on disk are below a head the clock could expect plus the rate times the time and
one slack for each process, and every move of the epoch was paid for with a gap
or a process. `LogWrittenAhead` and `DaemonRestarts` from `TrailInv`: both
anchors are prefixes of the log, and what is in force is in it; the hypothesis
`Orders \cap Reports = {}` says that a reserve report is not an order.
`RestartsForgetNothing` from `BootInv`: a daemon past the lock is the only
holder, one that is past its first save has a snapshot, and the snapshot and
every guard that was read know every mint.

### The front door (also `DaemonProofs`)

`GuardsGiveBack` (`NothingLeaks`) and `RotationsBuildOn` (an action property),
from `DoorInv`: every shared count is the number of threads, or the sum over the
threads, that hold a part of it; a thread that verifies does so for the class of
its request; a rotation under way was checked against the store it copied. Each
step moves one thread into or out of the sets that are counted, so the lemmas
are about functions that differ at one thread.

### Attestors: `AttestorProofs`

`OneCutIsSurvived`, `OperatorsDoNotEquivocate` and `LiarsCannotMint`, from
`JournalInv` (after no interrupted save journal and anchor are both missing or
both the operator's head, after one they still load), `RecallInv` (the memory of
a running operator and the journal on disk recall every signature that left it)
and `GatherInv`. Hypotheses: `NoneIsApart` (the absent value is none of the
records), `RemembersAll` for the second (the references fit in
`MAX_REMEMBERED_EXPIRED`; `signer_forgets` shows what happens otherwise) and
`DeclareWhatTheyWatch` for the third (admission compares declared sources, and
no code can check that they are the ones used).

### The exit service: `ExitDeskProofs`

- `DeskKept`: `Spec => []DeskInv`;
- `DeskRestarts`, `CollateralIsKept`, `BurnsAreNotLost`: `RestartsUnlessTorn`,
  `VaultsBacked`, `NoBurnLost`, for a node that lists and serves what it likes;
- `PromiseIsKept`: the service implements `ExitPromise`, every step a step or a
  stutter. Hypothesis: no burn reference is a payout's hash. `ledger.rs` keeps
  both in one set, and a payout whose hash were a burn's would count as replayed;
- `PaidIsNotSlashed`: the action property `PaidNotSlashed`, under the same
  hypothesis and `WithinLimits`: no more proofs than `MAX_PENDING_RELEASES` and
  `MAX_SEEN_RELEASES`. Beyond it the gate drops the oldest, and the property
  fails (see the hazard on eviction).

`DeskInv` ties the desk to its journal: replaying the events in memory gives the
desk, without a refusal, and the file holds these events, or, when the journal
is poisoned, perhaps a part of one more *that the desk could have taken*. This
last clause is what `RestartsUnlessTorn` misses to be inductive: a restart may
adopt an event whose append had failed. The rest says that the desk is a good
one: one exit for a burn, each in the ledger, vaults that back the pending
exits, and a settled exit behind every consumed payout. Every step takes at most
one event that replay accepts (`Moved`), so the properties are shown of `replay`,
once for each kind of event. `GateInv` adds for `PaidIsNotSlashed` where the
proofs are: one that the gate has taken for an open exit is with the thread or
in the queue, and with the thread if it was taken before the last sweep.

### Burns, payouts and verdicts: `PayoutsProofs`

- `PayoutsInvariant`: `Spec => []PayInv`;
- `ExitsAreBurns` (`OnlyRealBurns`): every exit is a finalized burn, and no burn
  has two, whatever the node answers;
- `SettledIsPaid` (`PaidMeansPaid`): a settled exit was paid on the main chain;
- `ExitsHaveTime` (`PaysInTime`): the window covers every exit that is opened;
- `VerdictsAgree` (`OneVerdict`): no operator set acknowledges both outcomes.

`PayInv` says of every exit of the desk (`DeskOK`, `GoodExits`) that it stands
for a finalized burn of the configured chain, that the burn is consumed and no
other exit has it, that its deadline is its opening plus the window, and that it
is paid if it is settled; and that this operator has signed only the verdict its
desk has (`SignedOwn`). The last is inductive only because verdicts are final,
which is why each step is shown to make a desk that `Grows` from the old one. The
three loops of the service (`poll_burns`, `sweep_settle`, `sweep_slash`) are
recursive functions over the list they go through, and the invariant is carried
along each of them.

What the desk cannot see is stated as an assumption about the constants, in
`Payouts`, where TLC evaluates it on the instance:

- `CommitteeAssumption`: the configured committee has fewer members that sign
  anything than `tau`, and the others sign what their chain has finalized. So a
  certificate that verifies has a signer who tells the truth about the block;
- `WorkAssumption`: a run of headers with the work asked for above a pinned
  checkpoint has its confirmed part on the main chain. That is Bitcoin's own
  assumption; all else about the headers is the code's check;
- `CoinbaseAssumption`: a block has a first transaction and it is not one of 64
  bytes, which can be read as a pair of hashes. `BitcoinReleaseProof::verify` asks
  for the coinbase's branch to be as long as the payout's; from this `LeafOpened`
  (in `Inductions`) shows that what the branch opens is a leaf of the tree and not
  an inner node. Without the second branch the lemma is false: a transaction of
  64 bytes would let a branch go on below it;
- `OperatorAssumption`: no more than a third of the operators of a set is
  dishonest, and this one is honest. A quorum has two thirds of the *keys*, so two
  quorums share an honest key, and an honest key signs one outcome of a burn in an
  era;
- `NumberAssumption`: numbers are naturals, lists are lists.

### Light clients and mints: `CorridorsProofs`

- `ClientsTrustTheChain` (`TrustsTheChain`): the committees of the Ethereum store
  are the ones its chain elected and the trusted Cosmos header is one of its
  chain, whoever moves them;
- `MintsAreReal` (`OnlyRealDeposits`): a mint is of a deposit its chain holds, for
  its amount, recipient and asset, and no deposit is minted twice.

The first is from `BeaconInv` (`StoreInv`: the current committee is that of the
store's period, the next is absent or that of the period after, and the finalized
header is one of the chain, in one of the two) and `CosmosInv` (the trusted state
is what `adopt` makes of a header of the chain, with that header's validators).
The property names the header alone, which is not enough for a step: the next
header is judged by the validators and the time that the state holds beside it, and
a rotation by committees that must exist. A header that is not the chain's has only
dishonest signatures, and `CountedIsCorrupt` shows that
what `tally_signed_power_until` counts for it, signature by signature and with its
early stop, is at most the power of the corrupt. For a skipping transition this is
the trusted set, whose stake is still bonded within the trusting period; for an
adjacent one it is the next set.

`MintsAreReal` adds `MintsInv`: each mint is real, its reference is used up, and no
other mint has the reference. What has to be shown is that what a client proves is
its chain's (`BitcoinDepositIsReal`, `EthereumDepositIsReal`,
`CosmosDepositIsReal`). For Bitcoin that is `LeafOpened`, as for the payouts. For
Ethereum the deposit's block is on the chain along parents or a block root, and
the receipts are those of that block. For Cosmos a path of hashes is followed down
from the app hash (`TreeDescends`): every step is hashed after something that is
not a zero, so no step can be read as a leaf and no leaf as a step; and a leaf is
read in one way only (`CanonicalOpens`), because its prefix is three varints in
their only encoding (`CanonicalLen`), so that no canonical prefix begins another.
Without `canonical_leaf_prefix` a part of a key could be moved into the prefix.

The assumptions are in `ProofCorridors`, where TLC evaluates them on the instance:

- `BeaconAssumption`: pinned roots are the chain's, every slot has a head that is
  no later, every period in reach has a committee;
- `MembersAssumption`: the dishonest members of a committee are no supermajority;
- `WorkAssumption`: as for the payouts, for checkpoint and depth of a deposit;
- `ValidatorsAssumption`: the corrupt of a header's validators have less power
  than `trusting_reach` asks for, those of its next validators less than two
  thirds; the next validators have a block at stake; the client trusts for no
  longer than a stake is bonded; the anchor is a header of the chain;
- `StoresAssumption`: an app hash of the chain is the root of a tree of stores and
  the bridge's root that of a tree of records, the leaves of which are hashed after
  a zero and the inner nodes after something else, as the two tree formats are.

### Sums, lists and trees: `Inductions`

Sums, `reconstruct`, `naming`, the sweeps and the Merkle trees are recursive
functions over finite sets and lists, and what they compute is proved by
induction all the same: `Inductions` derives from `WFMin` that a set of naturals
has a least element, and refutes the least counterexample of a set that is written
down, instead of an induction rule with a predicate as its parameter. It shows
that a `SumFunction` exists, does not depend on the order, and what adding, taking
away or changing one number does, and that fewer numbers have no larger sum; that
the levels of a tree exist and end in a root, and that a branch which folds to the root and is as long as the tree is high
starts at a leaf. To use it, the specifications write their sums as `SumFunction`
of a function and their loops as recursive functions.

### Only model-checked

- `BreakerIsSaved`, `ConnectionsEnd` and `FollowsTheChain`: liveness under
  fairness is out of the prover's reach.
- `CodecsAgree` and `AlgorithmsRight`, which compare recursive operators with
  reference definitions: the prover has no backend for `RECURSIVE` operators
  (tries, RLP, hash trees, messages of any depth) and cannot unfold the folds that
  the arithmetic is written with.

## Not modelled

- Cryptography (`q-bls`, SHA-256, Keccak, Ed25519, the provers and
  `q-prover-bridge`): field and bit arithmetic on fixed widths, taken as ideal.
- The text of JSON and HTTP, hex and the layout of SSZ containers; what reading
  them finds is modelled.
- `q-assets`: static tables, which are constants here.
- `unpause_all`, `unpause_source`, `advance_epoch` of the gateway,
  `take_seized_reserve` of the desk and the persistent ledger, which only tests
  call; the sessions of a hardware signer, of which only success matters; the
  EVM payout watcher, which the code disables; the report the watchtower prints.
- The exit service in the running daemon: `EXIT_ACK_PATH_WIRED` is false, so the
  daemon refuses to start it. It is modelled as `ExitService` builds it, and
  `payouts` takes the flag as true. The wall clock does not go back.

## Plan

Done: the gateway, the daemon with its disk, startup, clock, audit log and front
door; codecs; attestors; the light clients and the corridors on top of them; the
exits from burn to acknowledgement; and the proofs of every safety property but
those of the codecs and of the arithmetic. Left:

1. Liveness of the exit desk: every overdue exit is decided, under fairness of
   appends that succeed, and the eviction of pending releases.
2. The arithmetic of `Numbers` limb by limb with recursive functions in the place
   of folds, so that its reference definitions can be proved for every width.
