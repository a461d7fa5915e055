------------------------------ MODULE Attestor ------------------------------
(***************************************************************************)
(* The federated path: operators that watch a source chain, sign what they *)
(* see once it is final, and remember what they signed in a journal        *)
(* (q-attestor); the aggregation of their signatures and the admission of  *)
(* the envelope (q-federated watch.rs, admission.rs, sources.rs).          *)
(*                                                                         *)
(* A lock is [ref, content, final]: content stands for everything that     *)
(* divergence_digest hashes.  A journal image carries the hash of the one  *)
(* before it, so an image is its own hash and prev is an image.            *)
(***************************************************************************)
EXTENDS QuorumRules

CONSTANTS Operators, Refs, Contents,
          Endpoints, Liars,         \* Liars: endpoints that report anything
          Setups,                   \* who watches, and has declared, what
          Shaky,                    \* operators whose disk or device may fail
          Real,                     \* what the source chain holds, per ref
          Threshold,
          MESSAGE_TTL_BLOCKS, MAX_REMEMBERED_EXPIRED,
          MaxHeight, MaxSeq,   \* bounds of the instance
          None

ASSUME AttestorAssumption ==
    /\ IsFiniteSet(Operators) /\ Operators = 1 .. Cardinality(Operators)
    /\ IsFiniteSet(Endpoints)
    /\ Liars \subseteq Endpoints /\ Shaky \subseteq Operators
    /\ Setups \subseteq [feed : [Operators -> Endpoints],
                         declared : [Operators -> Endpoints \cup {None}]]
    /\ Real \in [Refs -> Contents]
    /\ MESSAGE_TTL_BLOCKS \in Nat \ {0}
    /\ {MAX_REMEMBERED_EXPIRED, Threshold, MaxHeight, MaxSeq}
           \subseteq Nat
    /\ None \notin Contents \cup Endpoints

VARIABLES op,        \* what each operator has in memory, None when it is down
          disk,      \* its two files: journal and head anchor
          feed,      \* endpoint each operator watches
          declared,  \* endpoint it has declared, or None
          turn,      \* the operator whose feed is polled next
          gathered,  \* signatures of this round
          height,    \* the gateway's height
          minted,    \* facts the gateway has minted
          released,  \* history: every signature an operator made
          cuts    \* history: saves that stopped half way since the last
                     \* that did not, counted up to 2

vars == <<op, disk, feed, declared, turn, gathered, height, minted, released, cuts>>

Locks == [ref : Refs, content : Contents, final : BOOLEAN]

-----------------------------------------------------------------------------
(* The divergence journal *)

Genesis == [seq |-> 0]

export_divergence(m) ==
    [r \in Refs |-> IF m.seen[r] = None THEN None
                    ELSE [digest        |-> m.seen[r].digest,
                          expiry_height |-> m.seen[r].expiry,
                          signed_expiry |-> m.signed[r]]]

\* Fault: a restart brings back the windows and not the facts.
restore_windows(image) ==
    [halted |-> FALSE,
     seen   |-> [r \in Refs |-> None],
     signed |-> [r \in Refs |-> IF image.records[r] = None THEN 0
                                ELSE image.records[r].signed_expiry],
     head   |-> IF image.seq = 0 THEN Genesis ELSE image]

\* A signed_expiry of 0 means "not signed".
restore_divergence(image) ==
    [halted |-> FALSE,
     seen   |-> [r \in Refs |-> IF image.records[r] = None THEN None
                                ELSE [digest |-> image.records[r].digest,
                                      expiry |-> image.records[r].expiry_height]],
     signed |-> [r \in Refs |-> IF image.records[r] = None THEN 0
                                ELSE image.records[r].signed_expiry],
     head   |-> IF image.seq = 0 THEN Genesis ELSE image]

NoJournal == [seq |-> 0, records |-> [r \in Refs |-> None]]

\* The journal is the one the anchor names, or the one written right after it.
\* A missing anchor file reads as Genesis.
loadable(d) ==
    \/ d.journal = None /\ d.anchor = Genesis
    \/ /\ d.journal # None
       /\ \/ d.journal = d.anchor
          \/ /\ d.journal.seq = d.anchor.seq + 1
             /\ d.journal.prev = d.anchor

load(d) == IF d.journal = None THEN NoJournal ELSE d.journal

next_image(m) ==
    [seq |-> m.head.seq + 1, prev |-> m.head, records |-> export_divergence(m)]

(***************************************************************************)
(* save writes the journal and then its anchor, each by a rename and a     *)
(* sync of the directory.  How far it comes: "lost" and "journal" and      *)
(* "anchor" are failures before the first rename, between the two and      *)
(* after the second.                                                       *)
(***************************************************************************)
Writes == {"done", "lost", "journal", "anchor"}

\* Fault: the anchor first.
saved_anchor_first(m, d, write) ==
    CASE write = "lost"    -> d
      [] write = "journal" -> [d EXCEPT !.anchor = next_image(m)]
      [] OTHER             -> [journal |-> next_image(m), anchor |-> next_image(m)]

saved(m, d, write) ==
    CASE write = "lost"    -> d
      [] write = "journal" -> [d EXCEPT !.journal = next_image(m)]
      [] OTHER             -> [journal |-> next_image(m), anchor |-> next_image(m)]

cut_short(write, n) ==
    CASE write = "done"                -> 0
      [] write \in {"journal", "anchor"} -> IF n < 2 THEN n + 1 ELSE n
      [] OTHER                         -> n

-----------------------------------------------------------------------------
(* The operator *)

expiry_deadline(h) == (h \div MESSAGE_TTL_BLOCKS + 2) * MESSAGE_TTL_BLOCKS

translate(lock, h) ==
    [ref |-> lock.ref, content |-> lock.content, expiry |-> expiry_deadline(h)]

\* Facts whose expiry has passed are forgotten, oldest first, beyond a limit.
prune_expired(m, h) ==
    LET expired == {r \in Refs : m.seen[r] # None /\ m.seen[r].expiry < h}
        excess  == Cardinality(expired) - MAX_REMEMBERED_EXPIRED
        oldest  == {S \in SUBSET expired :
                        /\ Cardinality(S) = excess
                        /\ \A r \in S, q \in expired \ S :
                               m.seen[r].expiry <= m.seen[q].expiry}
        dropped == IF excess > 0 THEN CHOOSE S \in oldest : TRUE ELSE {}
    IN [m EXCEPT !.signed = [r \in Refs |-> IF @[r] >= h THEN @[r] ELSE 0],
                 !.seen   = [r \in Refs |-> IF r \in dropped THEN None ELSE @[r]]]

diverges(m, lock) ==
    m.seen[lock.ref] # None /\ m.seen[lock.ref].digest # lock.content

\* The lock is final, does not contradict what is remembered, and was not yet
\* signed with this expiry.
wants(m, lock, h) ==
    /\ lock.final
    /\ ~diverges(m, lock)
    /\ m.signed[lock.ref] # expiry_deadline(h)

remember(m, lock, h) ==
    [m EXCEPT !.seen[lock.ref] =
                  IF @ = None THEN [digest |-> lock.content,
                                    expiry |-> expiry_deadline(h)] ELSE @,
              !.signed[lock.ref] = expiry_deadline(h)]

(***************************************************************************)
(* observe_and_sign on operator state m0 and files d: the new state, the   *)
(* new files, how the save went and the facts signed.  fate.write is how   *)
(* far a save comes, fate.signs whether the signing device answers.        *)
(***************************************************************************)
observe_and_sign(m0, d, lock, h, fate) ==
    LET m      == prune_expired(m0, h)
        m1     == remember(m, lock, h)
        m2     == [m1 EXCEPT !.head = next_image(m1)]
        unsaved(mem) == [mem |-> mem, files |-> d, write |-> "none", facts |-> {}]
        wrote(mem, facts) == [mem |-> mem, files |-> saved(m1, d, fate.write),
                              write |-> fate.write, facts |-> facts]
    IN CASE m0.halted               -> unsaved(m0)
         [] ~m0.halted /\ ~wants(m, lock, h) ->
                unsaved([m EXCEPT !.halted = lock.final /\ diverges(m, lock)])
         [] OTHER ->
                CASE fate.write # "done" -> wrote(m, {})
                  [] fate.write = "done" /\ fate.signs ->
                         wrote(m2, {translate(lock, h)})
                  [] OTHER ->
                         wrote([m2 EXCEPT !.signed[lock.ref] = m.signed[lock.ref]], {})

Fine     == [write |-> "done", signs |-> TRUE]
Fates(o) == IF o \in Shaky THEN [write : Writes, signs : BOOLEAN] ELSE {Fine}

\* An operator starts on the files of the last one, and saves them again
\* before it does anything else.
Start(o) ==
    /\ turn = 1
    /\ op[o] = None
    /\ loadable(disk[o])
    /\ \E write \in {f.write : f \in Fates(o)} :
           LET m == restore_divergence(load(disk[o])) IN
           /\ write # "lost" => m.head.seq < MaxSeq
           /\ disk' = [disk EXCEPT ![o] = saved(m, @, write)]
           /\ op' = [op EXCEPT ![o] = IF write = "done"
                                      THEN [m EXCEPT !.head = next_image(m)]
                                      ELSE None]
           /\ cuts' = [cuts EXCEPT ![o] = cut_short(write, @)]
    /\ UNCHANGED <<feed, declared, turn, gathered, height, minted, released>>

\* halt_manual, and note_load past its budget: only a restart ends either.
Halt(o) ==
    /\ turn = 1
    /\ op[o] # None
    /\ op' = [op EXCEPT ![o].halted = TRUE]
    /\ UNCHANGED <<disk, feed, declared, turn, gathered, height, minted, released, cuts>>

-----------------------------------------------------------------------------
(* Aggregation and admission *)

need == corridor_need(Cardinality(Operators), Threshold, 0)

\* encode sorts the signatures; parse refuses an empty list and a repeated
\* operator.  The aggregator keeps one signature per operator.
admit_artifact(signers) == signers # {}

\* Fault: signers with the same source count as independent.
independent_unchecked(signers) == \A o \in signers : declared[o] # None

independent(signers) ==
    /\ \A o \in signers : declared[o] # None
    /\ Cardinality({declared[o] : o \in signers}) = Cardinality(signers)

admits(fact, signers) ==
    /\ admit_artifact(signers)
    /\ independent(signers)
    /\ height <= fact.expiry
    /\ Cardinality(signers) >= need
    /\ \A f \in minted : f.ref # fact.ref

\* An aggregator is ready at the threshold its caller gave.
try_finalize(signers) == Cardinality(signers) >= Threshold

\* What an endpoint can answer: an honest one reports final locks as they are,
\* and locks that are not final as they may still turn out.
Answers(e) ==
    {l \in Locks : e \in Liars \/ ~l.final \/ l.content = Real[l.ref]}

(***************************************************************************)
(* watch_and_admit is a loop over the feeds and then one over the          *)
(* references: turn is the feed that is polled next.  Observe is one       *)
(* iteration of the first loop; a feed whose source gives nothing, or      *)
(* whose operator is down, is passed over.                                 *)
(***************************************************************************)
Observe(o) ==
    /\ turn = o
    /\ turn' = o + 1
    /\ \/ /\ op[o] # None
          /\ \E lock \in Answers(feed[o]), fate \in Fates(o) :
                 LET out == observe_and_sign(op[o], disk[o], lock, height, fate) IN
                 /\ out.write = "none" => fate = Fine
                 /\ out.write # "none" => op[o].head.seq < MaxSeq
                 /\ op' = [op EXCEPT ![o] = out.mem]
                 /\ disk' = [disk EXCEPT ![o] = out.files]
                 /\ cuts' = [cuts EXCEPT ![o] = cut_short(out.write, @)]
                 /\ gathered' = gathered \cup {[op |-> o, fact |-> f] : f \in out.facts}
                 /\ released' = released \cup
                        {[op |-> o, fact |-> f, at |-> height] : f \in out.facts}
       \/ UNCHANGED <<op, disk, cuts, gathered, released>>
    /\ UNCHANGED <<feed, declared, height, minted>>

\* The signatures are gathered by reference and fact, and for each reference the
\* first fact that is ready is offered to the gateway.
Admit ==
    LET facts      == {g.fact : g \in gathered}
        signers(f) == {g.op : g \in {x \in gathered : x.fact = f}}
        ready(r)   == {f \in facts : f.ref = r /\ try_finalize(signers(f))}
        offered    == {(CHOOSE f \in ready(r) : TRUE) :
                          r \in {q \in Refs : ready(q) # {}}}
    IN /\ turn = Cardinality(Operators) + 1
       /\ turn' = 1
       /\ gathered' = {}
       /\ minted' = minted \cup {f \in offered : admits(f, signers(f))}
       /\ UNCHANGED <<op, disk, feed, declared, height, released, cuts>>

\* The process that runs the operators and the gateway dies, in or between
\* rounds.
Crash ==
    /\ op' = [o \in Operators |-> None]
    /\ turn' = 1
    /\ gathered' = {}
    /\ UNCHANGED <<disk, feed, declared, height, minted, released, cuts>>

Advance ==
    /\ turn = 1
    /\ height < MaxHeight
    /\ height' = height + 1
    /\ UNCHANGED <<op, disk, feed, declared, turn, gathered, minted, released, cuts>>

Init ==
    /\ op = [o \in Operators |-> None]
    /\ disk = [o \in Operators |-> [journal |-> None, anchor |-> Genesis]]
    /\ \E s \in Setups : feed = s.feed /\ declared = s.declared
    /\ turn = 1 /\ gathered = {}
    /\ height = 0
    /\ minted = {} /\ released = {}
    /\ cuts = [o \in Operators |-> 0]

Next ==
    \/ \E o \in Operators : Start(o) \/ Halt(o) \/ Observe(o)
    \/ Admit
    \/ Crash
    \/ Advance

Spec == Init /\ [][Next]_vars

-----------------------------------------------------------------------------
(* Properties *)

TypeOK ==
    /\ \A o \in Operators :
           /\ op[o] # None => /\ op[o].halted \in BOOLEAN
                              /\ op[o].signed \in [Refs -> Nat]
                              /\ op[o].head.seq \in 0 .. MaxSeq
           /\ disk[o].journal # None => disk[o].journal.seq \in 1 .. MaxSeq
           /\ disk[o].anchor.seq \in 0 .. MaxSeq
    /\ feed \in [Operators -> Endpoints]
    /\ height \in 0 .. MaxHeight
    /\ cuts \in [Operators -> 0 .. 2]

\* An operator never signs two different accounts of one reference, whatever
\* its source tells it, its disk or its signing device does, and however often
\* it is restarted (seen_facts and the journal save before the signature in
\* observe_and_sign).  Holds as long as MAX_REMEMBERED_EXPIRED is not exceeded.
NeverEquivocates ==
    \A x, y \in released :
        x.op = y.op /\ x.fact.ref = y.fact.ref => x.fact.content = y.fact.content

\* A signature that is still good never contradicts another one that is, by the
\* same operator: "refusing to sign from a journal that may have forgotten what
\* this operator signed" (operator.rs).
NoLiveConflict ==
    \A x, y \in released :
        (/\ x.op = y.op /\ x.fact.ref = y.fact.ref
         /\ x.at <= y.at /\ y.at <= x.fact.expiry)
            => x.fact.content = y.fact.content

\* One save that stopped between or after its two renames never keeps the next
\* process of an operator from starting (DivergenceJournal save and load).
SurvivesOneCut ==
    \A o \in Operators : cuts[o] <= 1 => loadable(disk[o])

\* With fewer lying endpoints than signatures needed, everything minted is on
\* the source chain, though operators may share an endpoint (admit refuses
\* correlated sources).
OnlyRealLocks ==
    Cardinality(Liars) < need => \A f \in minted : f.content = Real[f.ref]
=============================================================================
