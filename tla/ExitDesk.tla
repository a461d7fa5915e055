------------------------------ MODULE ExitDesk ------------------------------
(***************************************************************************)
(* The exit service: the desk, its vaults and its journal (q-exits         *)
(* exits.rs, vault.rs, ledger.rs, journal.rs, store.rs), the burn feed     *)
(* (feed.rs, watch.rs) and the service around them with its gate for       *)
(* payout proofs (q-runtime boot.rs).                                      *)
(*                                                                         *)
(* One thread owns the desk and repeats ExitService::step: it polls burns, *)
(* settles what it has payout proofs for and closes what is overdue.       *)
(* HTTP threads hand in payout proofs through the gate meanwhile.  An      *)
(* action is one event of the journal with the change of the desk around   *)
(* it, so the process can stop between any two of them; stopping inside    *)
(* an append is an append that fails followed by Restart.                  *)
(*                                                                         *)
(* The journal is a chain of tags: the tag of a frame stands for all the   *)
(* events up to it, and that sequence is what a frame, and the header, are *)
(* here.  A payout proof that does not verify is refused by the gate and   *)
(* is left out.  The daemon does not start this service yet                *)
(* (EXIT_ACK_PATH_WIRED in boot.rs); it is modelled as it is built there.  *)
(***************************************************************************)
EXTENDS Integers, FiniteSets, SequencesExt

CONSTANTS
    Burns,           \* [ref, height, amount]
    Releases,        \* [tx, ref]: payouts with a proof, ref the burn they name
    Collateral,      \* [vault ids -> Nat]
    SECURE_BPS, BPS_DEN,
    Window, Grace,
    MAX_UNFINALIZED_ATTEMPTS,
    MAX_PENDING_BURNS, MAX_DEAD_LETTERS, MAX_LEDGER_ENTRIES,
    MAX_PENDING_RELEASES, MAX_SEEN_RELEASES,
    MaxTime          \* bound on the clock

Vaults == DOMAIN Collateral
Heights == {b.height : b \in Burns}

ASSUME DeskAssumption ==
    /\ Collateral \in [Vaults -> Nat] /\ Vaults \subseteq Nat
    /\ IsFiniteSet(Vaults) /\ IsFiniteSet(Burns)
    /\ \A b \in Burns : b.height \in Nat \ {0} /\ b.amount \in Nat \ {0}
    /\ \A b, c \in Burns : b.ref = c.ref => b = c
    /\ \A r, s \in Releases : r.tx = s.tx => r = s
    /\ BPS_DEN \in Nat \ {0} /\ SECURE_BPS \in Nat /\ SECURE_BPS > BPS_DEN
    /\ Window \in Nat /\ Grace \in Nat /\ MaxTime \in Nat
    /\ MAX_PENDING_RELEASES \in Nat /\ MAX_SEEN_RELEASES \in Nat

VARIABLES
    file,        \* the journal on disk: [header, torn, frames]
    known,       \* PersistentJournal: the events it has in memory
    poisoned,    \* PersistentJournal: no further event is taken
    desk,        \* ExitDesk: [exits, free, locked, consumed, seized, dead]
    scanned,     \* BurnWatcher: height the feed has read up to
    pending,     \* BurnFeed: <<proof, attempts>> that wait for the next poll
    work,        \* those of the poll under way
    hidden,      \* history: heights that the watcher passed without their block
    phase, todo, \* what the thread does, and the exits it has yet to visit,
                 \* which it does in the order of their ids
    now,         \* the time this step was given
    clock,       \* the wall clock
    expected,    \* ReleaseGate: burns with an open exit
    seen, queue, \* ReleaseGate: payouts taken, and those not yet picked up
    held,        \* SettleInputs: payout proofs the thread has picked up
    submitting,  \* requests between the two halves of submit_release
    swept        \* history: payouts taken before the thread last picked up

journal == <<file, known, poisoned>>
watcher == <<scanned, hidden>>
feed == <<watcher, pending, work>>
gate == <<expected, seen, queue, held, submitting, swept>>
thread == <<phase, todo, now>>
vars == <<journal, desk, feed, thread, clock, gate>>

-----------------------------------------------------------------------------
(* The journal *)

\* The file that compact writes.
Compacted(events) ==
    [header |-> events, torn |-> FALSE,
     frames |-> [i \in DOMAIN events |-> SubSeq(events, 1, i)]]

\* How far an append of next to f can have come: nothing that counts (a part
\* of a frame is passed over by load_frames and cut away by append_frame),
\* the frame, and the header, all of it or cut off.
Written(f, next) ==
    LET framed == [f EXCEPT !.frames = Append(@, next)] IN
    {f, framed, [framed EXCEPT !.header = next], [framed EXCEPT !.torn = TRUE]}

Appended(event) ==
    LET next == Append(known, event) IN
    /\ ~poisoned
    /\ file' = [file EXCEPT !.header = next, !.frames = Append(@, next)]
    /\ known' = next
    /\ UNCHANGED poisoned

\* Fault: a file that could not be put right is written to again.
append_fails_unpoisoned(event) ==
    /\ file' \in {Compacted(known)} \cup Written(file, Append(known, event))
    /\ UNCHANGED <<known, poisoned>>

\* An append that fails is undone by compact; when that fails as well, the
\* file stays as it is and the journal is poisoned.
AppendFails(event) ==
    /\ \/ poisoned /\ UNCHANGED <<file, poisoned>>
       \/ ~poisoned /\ file' = Compacted(known) /\ UNCHANGED poisoned
       \/ /\ ~poisoned
          /\ file' \in Written(file, Append(known, event))
          /\ poisoned' = TRUE
    /\ UNCHANGED known

\* load_frames accepts the file.
loads(f) ==
    /\ ~f.torn
    /\ Len(f.header) <= Len(f.frames)
    /\ \A i \in DOMAIN f.header : f.frames[i] = SubSeq(f.header, 1, i)

-----------------------------------------------------------------------------
(* The desk *)

NewDesk ==
    [exits |-> <<>>, free |-> Collateral, locked |-> [v \in Vaults |-> 0],
     consumed |-> {}, seized |-> 0, dead |-> <<>>]

required_collateral(amount) == (amount * SECURE_BPS) \div BPS_DEN

\* VaultBook::lock_any: of the vaults that can take it the one with the
\* least to spare, and of those the first.
fitting(d, amount) == {v \in Vaults : d.free[v] >= amount}

lock_any(d, amount) ==
    CHOOSE v \in fitting(d, amount) :
        \A w \in fitting(d, amount) :
            d.free[v] < d.free[w] \/ (d.free[v] = d.free[w] /\ v <= w)

lock(d, v, amount) ==
    [d EXCEPT !.free[v] = @ - amount, !.locked[v] = @ + amount]

release(d, v, amount) ==
    [d EXCEPT !.free[v] = @ + amount, !.locked[v] = @ - amount]

\* Fault: what is seized stays locked as well.
seize_only(d, v, amount) == [d EXCEPT !.seized = @ + amount]

seize(d, v, amount) ==
    [d EXCEPT !.locked[v] = @ - amount, !.seized = @ + amount]

ledger_full(d) == Cardinality(d.consumed) >= MAX_LEDGER_ENTRIES

\* What open_exit finds of a proof before it looks at its own state: it is
\* good, its certificate is too weak, or it is refused (the certificate is of
\* another block, the leaf is malformed, the asset is not served, the amount
\* is above the ceiling).
Verdicts == {"good", "weak", "refused"}

\* Why open_exit refuses the proof p of a burn; "none" when it does not.
open_error(d, p) ==
    CASE p.verdict = "weak" -> "NotFinalized"
      [] p.verdict = "refused" -> "Refused"
      [] p.verdict = "good" ->
             IF p.burn.ref \in d.consumed THEN "ReplayedExit"
             ELSE IF fitting(d, required_collateral(p.burn.amount)) = {}
             THEN "ThinVault"
             ELSE IF ledger_full(d) THEN "LedgerFull" ELSE "none"

OpenEvent(d, p, at) ==
    LET required == required_collateral(p.burn.amount) IN
    [kind |-> "Open", index |-> Len(d.exits) + 1, ref |-> p.burn.ref,
     vault |-> lock_any(d, required), locked |-> required,
     deadline |-> at + Window]

Opened(d, e) ==
    LET exit == [ref |-> e.ref, vault |-> e.vault, locked |-> e.locked,
                 deadline |-> e.deadline, state |-> "Pending"]
    IN [lock(d, e.vault, e.locked) EXCEPT
            !.consumed = @ \cup {e.ref}, !.exits = Append(@, exit)]

SettleEvent(i, tx) == [kind |-> "Settle", index |-> i, foreign_ref |-> tx]

Settled(d, i, tx) ==
    [release(d, d.exits[i].vault, d.exits[i].locked) EXCEPT
        !.consumed = @ \cup {tx}, !.exits[i].state = "Settled"]

SlashEvent(i) == [kind |-> "Slash", index |-> i]

Slashed(d, i) ==
    [seize(d, d.exits[i].vault, d.exits[i].locked) EXCEPT
        !.exits[i].state = "Slashed"]

DeadEvent(d, b) ==
    [kind |-> "DeadLetter", index |-> Len(d.dead) + 1, ref |-> b.ref]

settleable(d) == {i \in DOMAIN d.exits : d.exits[i].state = "Pending"}

slashable(d, at) ==
    {i \in settleable(d) : at > d.exits[i].deadline + Grace}

\* reconstruct, one event: what it checks and what it makes of the desk.
replays(d, e) ==
    CASE e.kind = "Open" ->
             /\ e.index = Len(d.exits) + 1
             /\ e.ref \notin d.consumed
             /\ d.free[e.vault] >= e.locked
             /\ ~ledger_full(d)
      [] e.kind = "Settle" ->
             /\ e.foreign_ref \notin d.consumed
             /\ e.index \in settleable(d)
             /\ ~ledger_full(d)
      [] e.kind = "Slash" -> e.index \in settleable(d)
      [] e.kind = "DeadLetter" -> e.index = Len(d.dead) + 1

replay(d, e) ==
    CASE e.kind = "Open" -> Opened(d, e)
      [] e.kind = "Settle" -> Settled(d, e.index, e.foreign_ref)
      [] e.kind = "Slash" -> Slashed(d, e.index)
      [] e.kind = "DeadLetter" -> [d EXCEPT !.dead = Append(@, e.ref)]

\* The desk that the events give, and whether it took them all.
reconstruct(events) ==
    LET upto[n \in 0 .. Len(events)] ==
            IF n = 0 THEN [ok |-> TRUE, desk |-> NewDesk]
            ELSE LET r == upto[n - 1] IN
                 IF r.ok /\ replays(r.desk, events[n])
                 THEN [ok |-> TRUE, desk |-> replay(r.desk, events[n])]
                 ELSE [r EXCEPT !.ok = FALSE]
    IN upto[Len(events)]

-----------------------------------------------------------------------------
(* The burn feed *)

Idle == phase = "slash" /\ todo = {}

\* The burns in the order of their blocks.
ByHeight(burns) ==
    {s \in Bijection(1 .. Cardinality(burns), burns) :
        \A i, j \in DOMAIN s : i < j => s[i].height <= s[j].height}

\* The heights with burns that lie after one height and up to another.
Between(from, to) == {k \in Heights : k > from /\ k <= to}
Above(from) == {k \in Heights : k > from}

(***************************************************************************)
(* BurnWatcher::poll ends with its cursor at h, having been given the      *)
(* blocks of the heights in served.  It visits the heights that the node   *)
(* lists and no others, so the cursor passes a height that the node leaves *)
(* out, at the latest when it jumps to the head because nothing is listed; *)
(* and it takes any block whose header has that height, for the            *)
(* certificate is looked at by open_exit.  It stops before the first       *)
(* listed height that is not served; but a height is only retried while    *)
(* the node goes on listing it.  Blocks without burns move the cursor and  *)
(* nothing else.                                                           *)
(***************************************************************************)
Watched(h, served) ==
    /\ scanned' = h
    /\ hidden' = hidden \cup (Between(scanned, h) \ served)

\* BurnFeed::drive takes what was pending and, unless that is too much
\* already, what the watcher finds.
Poll ==
    /\ Idle
    /\ phase' = "drive"
    /\ now' = clock
    /\ IF Len(pending) >= MAX_PENDING_BURNS
       THEN work' = pending /\ UNCHANGED watcher
       ELSE \E h \in Above(scanned) \cup {scanned} :
            \E served \in SUBSET Between(scanned, h) :
            \E fresh \in ByHeight({b \in Burns : b.height \in served}) :
            \E verdict \in [DOMAIN fresh -> Verdicts] :
                /\ Watched(h, served)
                /\ work' = pending \o
                       [i \in DOMAIN fresh |->
                          <<[burn |-> fresh[i], verdict |-> verdict[i]], 0>>]
    /\ pending' = <<>>
    /\ UNCHANGED <<journal, desk, todo, clock, gate>>

\* The source fails before it has shown a burn: the blocks without burns that
\* it served may have moved the cursor, and pending is as it was.
PollFails ==
    /\ Idle
    /\ Len(pending) < MAX_PENDING_BURNS
    /\ phase' = "drive"
    /\ now' = clock
    /\ \E h \in Above(scanned) \cup {scanned} : Watched(h, {})
    /\ UNCHANGED <<journal, desk, pending, work, todo, clock, gate>>

retryable == {"ThinVault", "LedgerFull", "NotFinalized"}

more(attempts) ==
    IF attempts < MAX_UNFINALIZED_ATTEMPTS THEN attempts + 1 ELSE attempts

\* Fault: a letter that cannot be written is dropped with its burn.
dead_letter_dropped(p, attempts) ==
    /\ UNCHANGED pending
    /\ \/ /\ p.burn.ref \notin Range(desk.dead)
          /\ Len(desk.dead) < MAX_DEAD_LETTERS
          /\ Appended(DeadEvent(desk, p.burn))
          /\ desk' = [desk EXCEPT !.dead = Append(@, p.burn.ref)]
       \/ AppendFails(DeadEvent(desk, p.burn)) /\ UNCHANGED desk

\* A burn that is already a dead letter is not written again; one that
\* cannot be written waits in the feed.
dead_letter(p, attempts) ==
    LET again == pending' = Append(pending, <<p, attempts>>)
        event == DeadEvent(desk, p.burn)
    IN \/ /\ p.burn.ref \in Range(desk.dead)
          /\ UNCHANGED <<journal, desk, pending>>
       \/ /\ p.burn.ref \notin Range(desk.dead)
          /\ Len(desk.dead) >= MAX_DEAD_LETTERS
          /\ again /\ UNCHANGED <<journal, desk>>
       \/ /\ p.burn.ref \notin Range(desk.dead)
          /\ Len(desk.dead) < MAX_DEAD_LETTERS
          /\ \/ /\ Appended(event)
                /\ desk' = [desk EXCEPT !.dead = Append(@, p.burn.ref)]
                /\ UNCHANGED pending
             \/ AppendFails(event) /\ again /\ UNCHANGED desk

\* open_exit on the next proof, and what drive makes of its answer.
OpenExit ==
    /\ phase = "drive" /\ work # <<>>
    /\ work' = Tail(work)
    /\ LET p == Head(work)[1]
           attempts == Head(work)[2]
           error == open_error(desk, p)
           event == OpenEvent(desk, p, now)
           again == pending' = Append(pending, <<p, more(attempts)>>)
       IN \/ /\ error = "none"
             /\ \/ /\ Appended(event)
                   /\ desk' = Opened(desk, event)
                   /\ UNCHANGED pending
                \/ AppendFails(event) /\ again /\ UNCHANGED desk
          \/ error = "ReplayedExit" /\ UNCHANGED <<journal, desk, pending>>
          \/ /\ error \in retryable
             /\ error = "NotFinalized" =>
                    attempts + 1 < MAX_UNFINALIZED_ATTEMPTS
             /\ again /\ UNCHANGED <<journal, desk>>
          \/ /\ \/ error = "Refused"
                \/ error = "NotFinalized"
                   /\ attempts + 1 >= MAX_UNFINALIZED_ATTEMPTS
             /\ dead_letter(p, attempts)
    /\ UNCHANGED <<watcher, thread, clock, gate>>

\* retry_dead_letters, one letter: the block is read again.
RetryDeadLetter(b, verdict) ==
    LET p == [burn |-> b, verdict |-> verdict]
        error == open_error(desk, p)
        event == OpenEvent(desk, p, clock)
        again == pending' = IF Len(pending) < MAX_PENDING_BURNS
                            THEN Append(pending, <<p, 0>>) ELSE pending
    IN /\ Idle
       /\ b.ref \in Range(desk.dead) \ desk.consumed
       /\ \/ /\ error = "none"
             /\ \/ /\ Appended(event)
                   /\ desk' = Opened(desk, event)
                   /\ UNCHANGED pending
                \/ AppendFails(event) /\ again /\ UNCHANGED desk
          \/ error \in retryable /\ again /\ UNCHANGED <<journal, desk>>
       /\ UNCHANGED <<watcher, work, thread, clock, gate>>


-----------------------------------------------------------------------------
(* The sweeps *)

open_refs == {desk.exits[i].ref : i \in settleable(desk)}

\* Fault: only the proofs that are new since the last sweep are kept.
known_payouts_new_only ==
    /\ held' = SelectSeq(queue, LAMBDA r : r.ref \in open_refs)
    /\ queue' = <<>>
    /\ expected' = open_refs
    /\ swept' = Range(seen)
    /\ UNCHANGED <<seen, submitting>>

\* The releases of a list that name one of these burns.
naming(refs, releases) ==
    LET upto[n \in 0 .. Len(releases)] ==
            IF n = 0 THEN <<>>
            ELSE IF releases[n].ref \in refs THEN Append(upto[n - 1], releases[n])
            ELSE upto[n - 1]
    IN upto[Len(releases)]

\* The queue is taken over, what names no open exit is dropped, and then the
\* oldest if there are too many; the gate learns which exits are open.
known_payouts ==
    LET kept == naming(open_refs, held \o queue)
        excess == IF Len(kept) > MAX_PENDING_RELEASES
                  THEN Len(kept) - MAX_PENDING_RELEASES ELSE 0
    IN /\ held' = SubSeq(kept, excess + 1, Len(kept))
       /\ queue' = <<>>
       /\ expected' = open_refs
       /\ swept' = Range(seen)
       /\ UNCHANGED <<seen, submitting>>

payouts(i) == {k \in DOMAIN held : held[k].ref = desk.exits[i].ref}

\* The proof that the watcher finds for exit i: the first one held for it.
confirm(i) == held[Min(payouts(i))]

\* settle finds no payout that could still settle exit i.
unproven(i) == payouts(i) # {} => confirm(i).tx \in desk.consumed

\* settle on exit i: a full ledger or a failed append leave it pending.
settle(i) ==
    LET tx == confirm(i).tx IN
    /\ ~unproven(i)
    /\ \/ ledger_full(desk) /\ UNCHANGED <<journal, desk>>
       \/ /\ ~ledger_full(desk)
          /\ Appended(SettleEvent(i, tx))
          /\ desk' = Settled(desk, i, tx)
       \/ /\ ~ledger_full(desk)
          /\ AppendFails(SettleEvent(i, tx))
          /\ UNCHANGED desk

\* close_overdue on exit i: slashed only if no payout is proven.
close_overdue(i) ==
    \/ settle(i)
    \/ /\ unproven(i)
       /\ \/ Appended(SlashEvent(i)) /\ desk' = Slashed(desk, i)
          \/ AppendFails(SlashEvent(i)) /\ UNCHANGED desk

SweepSettle ==
    /\ phase = "drive" /\ work = <<>>
    /\ known_payouts
    /\ phase' = "settle"
    /\ todo' = IF held' = <<>> THEN {} ELSE settleable(desk)
    /\ UNCHANGED <<journal, desk, feed, now, clock>>

SettleOne ==
    /\ phase = "settle" /\ todo # {}
    /\ todo' = todo \ {Min(todo)}
    /\ \/ settle(Min(todo))
       \/ unproven(Min(todo)) /\ UNCHANGED <<journal, desk>>
    /\ UNCHANGED <<feed, phase, now, clock, gate>>

SweepSlash ==
    /\ phase = "settle" /\ todo = {}
    /\ known_payouts
    /\ phase' = "slash"
    /\ todo' = slashable(desk, now)
    /\ UNCHANGED <<journal, desk, feed, now, clock>>

CloseOne ==
    /\ phase = "slash" /\ todo # {}
    /\ todo' = todo \ {Min(todo)}
    /\ close_overdue(Min(todo))
    /\ UNCHANGED <<feed, phase, now, clock, gate>>

-----------------------------------------------------------------------------
(* The gate *)

\* submit_release up to the verification of the proof.
SubmitBegin(r) ==
    /\ r.ref \in expected
    /\ r \notin submitting
    /\ submitting' = submitting \cup {r}
    /\ UNCHANGED <<journal, desk, feed, thread, clock,
                   expected, seen, queue, held, swept>>

\* s with x at its end, and without its head if it was full.
Pushed(s, x, limit) ==
    Append(IF Len(s) >= limit THEN Tail(s) ELSE s, x)

\* The rest of it: a payout that was taken before is refused.
SubmitEnd(r) ==
    /\ r \in submitting
    /\ submitting' = submitting \ {r}
    /\ IF r.tx \in Range(seen)
       THEN UNCHANGED <<seen, queue>>
       ELSE /\ queue' = Pushed(queue, r, MAX_PENDING_RELEASES)
            /\ seen' = Pushed(seen, r.tx, MAX_SEEN_RELEASES)
    /\ UNCHANGED <<journal, desk, feed, thread, clock, expected, held, swept>>

-----------------------------------------------------------------------------
(* Time, stops and starts *)

Tick ==
    /\ clock < MaxTime
    /\ clock' = clock + 1
    /\ UNCHANGED <<journal, desk, feed, thread, gate>>

\* What a new process starts with, next to the journal and the desk.
Fresh ==
    [scanned |-> 0, hidden |-> {}, pending |-> <<>>, work |-> <<>>,
     phase |-> "slash", todo |-> {},
     expected |-> {}, seen |-> <<>>, queue |-> <<>>, held |-> <<>>,
     submitting |-> {}, swept |-> {}]

\* ExitService::build on these events.
StartsOn(events) ==
    /\ file' = Compacted(events)
    /\ known' = events
    /\ poisoned' = FALSE
    /\ desk' = reconstruct(events).desk
    /\ now' = clock
    /\ scanned' = Fresh.scanned /\ hidden' = Fresh.hidden
    /\ pending' = Fresh.pending
    /\ work' = Fresh.work /\ phase' = Fresh.phase /\ todo' = Fresh.todo
    /\ expected' = Fresh.expected /\ seen' = Fresh.seen
    /\ queue' = Fresh.queue /\ held' = Fresh.held
    /\ submitting' = Fresh.submitting /\ swept' = Fresh.swept
    /\ UNCHANGED clock

\* Fault: when there are frames past the header's count, the last one that
\* the header counts is given up as well.
RestartOneShort ==
    LET count == IF Len(file.frames) > Len(file.header)
                 THEN Len(file.header) - 1 ELSE Len(file.header)
    IN /\ loads(file) /\ reconstruct(file.header).ok
       /\ StartsOn(SubSeq(file.header, 1, count))

\* The process has stopped, and the next one starts on the file it left.
Restart ==
    /\ loads(file) /\ reconstruct(file.header).ok
    /\ StartsOn(file.header)

Init ==
    /\ file = Compacted(<<>>) /\ known = <<>> /\ poisoned = FALSE
    /\ desk = NewDesk
    /\ now = 0 /\ clock = 0
    /\ scanned = Fresh.scanned /\ hidden = Fresh.hidden
    /\ pending = Fresh.pending
    /\ work = Fresh.work /\ phase = Fresh.phase /\ todo = Fresh.todo
    /\ expected = Fresh.expected /\ seen = Fresh.seen
    /\ queue = Fresh.queue /\ held = Fresh.held
    /\ submitting = Fresh.submitting /\ swept = Fresh.swept

Next ==
    \/ Poll \/ PollFails \/ OpenExit
    \/ SweepSettle \/ SettleOne \/ SweepSlash \/ CloseOne
    \/ \E r \in Releases : SubmitBegin(r) \/ SubmitEnd(r)
    \/ \E b \in Burns, verdict \in Verdicts : RetryDeadLetter(b, verdict)
    \/ Tick \/ Restart

Spec == Init /\ [][Next]_vars

-----------------------------------------------------------------------------
(* Properties *)

Total(f) == SumFunction([v \in Vaults |-> f[v]])

LockedFor(v) ==
    SumFunction([i \in {i \in settleable(desk) : desk.exits[i].vault = v} |->
                    desk.exits[i].locked])

Proofs == [burn : Burns, verdict : Verdicts]

\* The next process can start on the file that this one leaves, at whatever
\* point and after whatever failures it stops, unless a header was cut off.
RestartsUnlessTorn ==
    ~file.torn => loads(file) /\ reconstruct(file.header).ok

\* Collateral is moved and never made or lost: each vault has locked what
\* its pending exits need, and what is free, locked and seized adds up to
\* what was registered (vault.rs and the callers that undo a lock).
VaultsBacked ==
    /\ Total(desk.free) + Total(desk.locked) + desk.seized = Total(Collateral)
    /\ \A v \in Vaults : desk.locked[v] = LockedFor(v)

\* A burn at a height that the watcher has gone past is opened, waits in the
\* feed or is a dead letter, unless the node hid its block: poll never returns
\* to a height it has passed, so nothing after it may drop a burn, neither a
\* failed append nor a full queue, ledger or list of letters.
NoBurnLost ==
    \A b \in Burns : b.height <= scanned /\ b.height \notin hidden =>
        \/ b.ref \in desk.consumed \cup Range(desk.dead)
        \/ \E w \in Range(pending) \cup Range(work) : w[1].burn = b

\* An exit is not slashed if the gate had taken a proof of its payout before
\* the sweep began, whatever appends failed in between: sweep_slash looks at
\* the proofs once more and close_overdue settles instead.  (For a number of
\* proofs within MAX_PENDING_RELEASES; beyond it the oldest are dropped.)
PaidNotSlashed ==
    [][\A i \in settleable(desk) :
          ~poisoned /\ known' = Append(known, SlashEvent(i)) =>
              \A r \in Releases : r.ref = desk.exits[i].ref => r.tx \notin swept
      ]_vars

Word == [Pending |-> "open", Settled |-> "settled", Slashed |-> "slashed"]

StatusOf(ref) ==
    LET ids == {i \in DOMAIN desk.exits : desk.exits[i].ref = ref}
    IN IF ids = {} THEN "none" ELSE Word[desk.exits[Max(ids)].state]

Promise ==
    INSTANCE ExitPromise WITH
        Burns <- {b.ref : b \in Burns},
        Payouts <- {r.tx : r \in Releases},
        status <- [ref \in {b.ref : b \in Burns} |-> StatusOf(ref)],
        spent <- desk.consumed \cap {r.tx : r \in Releases}

\* The desk keeps the promise of ExitPromise over failed appends, stops at
\* any point and rescans of the chain: one exit for a burn, closed once, by
\* a payout that closes no other, and nothing of it forgotten by a restart.
KeepsPromise == Promise!Spec
=============================================================================
