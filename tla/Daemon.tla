------------------------------- MODULE Daemon -------------------------------
(***************************************************************************)
(* Three parts of the daemon that share only the snapshot: its clock, its  *)
(* audit log and its startup.  A behaviour shows one of them, and the      *)
(* others stand still.                                                     *)
(***************************************************************************)
EXTENDS ChainClock, Sequences

CONSTANTS
    Orders, Reports, MaxLog,
    Daemons, Envs, Deposits, Pools, PUBLIC_KEY_BYTES, MIN_STATE_KEY_BYTES,
    MAX_U16, MAX_U32, MAX_U64, MAX_U128, MaxReports

VARIABLES
    part,       \* "clock", "audit" or "startup"
    up, log, torn, known, records, anchor, inforce, guard_file, acked,
    at, env, first, guard, snapshot, holder, minted

Trail == INSTANCE AuditTrail WITH snapshot <- guard_file
Boot == INSTANCE Startup WITH first_boot <- first

-----------------------------------------------------------------------------

trail == <<up, log, torn, known, records, anchor, inforce, guard_file, acked>>
boot == <<at, env, first, guard, snapshot, holder, minted>>

DaemonInit ==
    /\ part \in {"clock", "audit", "startup"}
    /\ Init /\ Trail!Init /\ Boot!Init
    /\ part # "clock" => first_boot = None

DaemonNext ==
    /\ UNCHANGED part
    /\ \/ part = "clock" /\ Next /\ UNCHANGED <<trail, boot>>
       \/ part = "audit" /\ Trail!Next /\ UNCHANGED <<vars, boot>>
       \/ part = "startup" /\ Boot!Next /\ UNCHANGED <<vars, trail>>

DaemonSpec == DaemonInit /\ [][DaemonNext]_<<part, vars, trail, boot>>

\* What the audit log and the startup promise, by the names of their modules.
LoggedBeforeSaved == Trail!LoggedBeforeSaved
StartsUnlessTorn == Trail!StartsUnlessTorn
ReplaySetSurvives == Boot!ReplaySetSurvives
=============================================================================
