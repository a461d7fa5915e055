----------------------------- MODULE AuditTrail -----------------------------
(***************************************************************************)
(* The administrative audit log beside the guard snapshot (q-runtime       *)
(* persist.rs, with the callers in http.rs, watch.rs and reserve.rs and    *)
(* log_admin, settle_admin_records and rehydrate_guard of gateway.rs).     *)
(*                                                                         *)
(* An order is appended to the log before the guard that contains it is    *)
(* saved, and the guard carries an anchor: how far the log went when it    *)
(* was saved, and the hash of the entry there.  The hash chain makes an    *)
(* anchor equivalent to the whole prefix of the log, and that is what an   *)
(* anchor is here.  Of the guard only the set of orders and reserve        *)
(* reports that are in force is kept.                                      *)
(***************************************************************************)
EXTENDS Naturals, SequencesExt

CONSTANTS
    Orders,      \* signed orders that arrive over HTTP
    Reports,     \* signed reserve reports
    MaxLog       \* bound on the entries of the log

VARIABLES
    up,          \* the daemon runs
    log, torn,   \* the file: its whole entries; it ends inside another one
    known,       \* AuditLog: the log as this process last left or read it
    records,     \* gateway.admin_records
    anchor,      \* audit_seq and audit_head of the gateway
    inforce,     \* orders and reports in force in the gateway
    snapshot,    \* [anchor, inforce] of the guard on disk
    acked        \* history: orders answered with success

file == <<log, torn>>
memory == <<known, records, anchor, inforce>>
vars == <<up, log, torn, known, records, anchor, inforce, snapshot, acked>>

Init ==
    /\ up = TRUE
    /\ log = <<>> /\ torn = FALSE
    /\ known = <<>> /\ records = <<>> /\ anchor = <<>>
    /\ inforce = {}
    /\ snapshot = [anchor |-> <<>>, inforce |-> {}]
    /\ acked = {}

-----------------------------------------------------------------------------
(* Writing *)

\* record_admin appends all waiting records and makes them durable.
Recorded(recs) ==
    /\ ~torn /\ log = known
    /\ Len(log \o recs) <= MaxLog
    /\ log' = log \o recs
    /\ known' = log \o recs
    /\ UNCHANGED torn

(***************************************************************************)
(* record_admin fails: the length of the file is not the one it knows; or  *)
(* the append fails and is cut off again; or cutting it off fails too and  *)
(* some of the append stays; or the file was just created, the append is   *)
(* whole, and its directory cannot be synced.                              *)
(***************************************************************************)
NotRecorded(recs) ==
    \/ UNCHANGED <<log, torn, known>>
    \/ /\ ~torn /\ log = known
       /\ \E k \in 0..Len(recs) :
             /\ Len(log) + k <= MaxLog
             /\ log' = log \o SubSeq(recs, 1, k)
             /\ torn' \in (IF k < Len(recs) THEN BOOLEAN ELSE {FALSE})
       /\ UNCHANGED known
    \/ known = <<>> /\ Recorded(recs)

Guard(at, orders) == [anchor |-> at, inforce |-> orders]

\* A save that fails may have failed after its rename.
MaybeSaved(guard) == snapshot' \in {snapshot, guard}

-----------------------------------------------------------------------------
(* Requests *)

\* An order that takes effect: the log first, then the guard.
OrderAccepted(o) ==
    /\ up /\ o \notin inforce
    /\ Recorded(Append(records, o))
    /\ records' = <<>>
    /\ anchor' = log'
    /\ inforce' = inforce \cup {o}
    /\ snapshot' = Guard(log', inforce')
    /\ acked' = acked \cup {o}
    /\ UNCHANGED up

\* The log is written and the guard is not: rehydrate_guard takes back the
\* order, the anchor and the records, and the entry stays in the log.
OrderNotSaved(o) ==
    /\ up /\ o \notin inforce
    /\ Recorded(Append(records, o))
    /\ records' = <<>>
    /\ MaybeSaved(Guard(log', inforce \cup {o}))
    /\ UNCHANGED <<up, anchor, inforce, acked>>

\* Fault: the log's failure is reported and the request goes on.
OrderGoesOn(o) ==
    /\ up /\ o \notin inforce
    /\ NotRecorded(Append(records, o))
    /\ records' = <<>>
    /\ inforce' = inforce \cup {o}
    /\ snapshot' = Guard(anchor, inforce')
    /\ acked' = acked \cup {o}
    /\ UNCHANGED <<up, anchor>>

\* Fault: the guard is saved before the log is written.
OrderSavedFirst(o) ==
    /\ up /\ o \notin inforce
    /\ NotRecorded(Append(records, o))
    /\ records' = <<>>
    /\ MaybeSaved(Guard(Append(log, o), inforce))
    /\ UNCHANGED <<up, anchor, inforce, acked>>

OrderNotRecorded(o) ==
    /\ up /\ o \notin inforce
    /\ NotRecorded(Append(records, o))
    /\ records' = <<>>
    /\ UNCHANGED <<up, anchor, inforce, snapshot, acked>>

\* persist_or_rollback saves the guard of a deposit without looking at the
\* records; when it fails, rehydrate_guard drops them.
DepositSaved ==
    /\ up
    /\ snapshot' = Guard(anchor, inforce)
    /\ UNCHANGED <<up, file, memory, acked>>

DepositNotSaved ==
    /\ up
    /\ records' = <<>>
    /\ MaybeSaved(Guard(anchor, inforce))
    /\ UNCHANGED <<up, file, known, anchor, inforce, acked>>

-----------------------------------------------------------------------------
(* The reserve watch *)

ReserveReport(r) ==
    /\ up /\ r \notin inforce
    /\ inforce' = inforce \cup {r}
    /\ records' = Append(records, r)
    /\ UNCHANGED <<up, file, known, anchor, snapshot, acked>>

\* The records are written and, right or wrong, the guard is saved once.
TickRecorded ==
    /\ up /\ records # <<>>
    /\ Recorded(records)
    /\ records' = <<>>
    /\ anchor' = log'
    /\ MaybeSaved(Guard(log', inforce))
    /\ UNCHANGED <<up, inforce, acked>>

\* The records stay for the next tick; a breach saves the guard regardless.
TickNotRecorded ==
    /\ up /\ records # <<>>
    /\ NotRecorded(records)
    /\ MaybeSaved(Guard(anchor, inforce))
    /\ UNCHANGED <<up, records, anchor, inforce, acked>>

-----------------------------------------------------------------------------
(* Crash and restart *)

Crash ==
    /\ up
    /\ up' = FALSE
    /\ known' = <<>> /\ records' = <<>> /\ anchor' = <<>> /\ inforce' = {}
    /\ UNCHANGED <<file, snapshot, acked>>

\* verify_audit: the log is whole and has the anchored entry in its place.
verify_audit == ~torn /\ IsPrefix(snapshot.anchor, log)

Start ==
    /\ ~up
    /\ verify_audit
    /\ up' = TRUE
    /\ known' = log
    /\ records' = <<>>
    /\ anchor' = snapshot.anchor
    /\ inforce' = snapshot.inforce
    /\ UNCHANGED <<file, snapshot, acked>>

Next ==
    \/ \E o \in Orders :
           OrderAccepted(o) \/ OrderNotSaved(o) \/ OrderNotRecorded(o)
    \/ DepositSaved
    \/ DepositNotSaved
    \/ \E r \in Reports : ReserveReport(r)
    \/ TickRecorded
    \/ TickNotRecorded
    \/ Crash
    \/ Start

Spec == Init /\ [][Next]_vars

-----------------------------------------------------------------------------
(* Properties *)

(***************************************************************************)
(* The log is written ahead of the guard: an order that the guard on disk  *)
(* holds, and so one that can come back into force after a restart, has    *)
(* its entry in the log, and every order that was answered with success is *)
(* in both, whichever writes failed (http.rs persist_if_advanced).         *)
(***************************************************************************)
LoggedBeforeSaved ==
    /\ snapshot.inforce \cap Orders \subseteq Range(log)
    /\ acked \subseteq snapshot.inforce

(***************************************************************************)
(* The daemon can always come up again on what it left behind, unless a    *)
(* write was cut short inside an entry: rolled back orders, saves that     *)
(* failed after the rename and reports whose record was dropped never      *)
(* leave a guard whose anchor the log does not have (persist.rs            *)
(* verify_audit, record_admin).                                            *)
(***************************************************************************)
StartsUnlessTorn == torn \/ verify_audit
=============================================================================
