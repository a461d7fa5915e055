----------------------------- MODULE FrontDoor -----------------------------
(***************************************************************************)
(* The HTTP service of q-runtime (http.rs): the accept loop, one thread    *)
(* per connection, and the limits they share -- open connections, arrivals *)
(* per window, request bytes in memory, and for each class of proof a      *)
(* budget per window and a number of verifiers -- together with the way a  *)
(* committee rotation goes through q-qbridge without holding the lock.     *)
(*                                                                         *)
(* What an order or a deposit does to the guard and the disk once it holds *)
(* the write lock is the subject of GuardedBridge; here such a request     *)
(* ends in one step, whatever the answer.                                  *)
(***************************************************************************)
EXTENDS Naturals, Sequences, FiniteSets, FiniteSetsExt, SequencesExt

CONSTANTS Conns,          \* connection threads
          Addrs,          \* addresses that connect or are named by a proxy
          Proxies,        \* the trusted ones among them
          Kinds,          \* what may be asked
          Updates,        \* rotations on offer: the period each builds on
          MAX_CONNECTIONS, MAX_CONNECTIONS_PER_IP,
          MAX_ADMITS_PER_WINDOW, MAX_ADMITS_PER_IP_PER_WINDOW,
          MAX_BODY, MAX_INFLIGHT_BODY,
          Verifiers,      \* per class: the verifiers,
          PerWindow, PerIp, PerPrefix   \* and the caps of its budget

Requests == {"health", "malformed", "release", "read", "order", "federated",
             "deposit", "rotation"}

ASSUME DoorAssumption ==
    /\ IsFiniteSet(Conns)
    /\ Proxies \subseteq Addrs /\ Kinds \subseteq Requests
    /\ {MAX_CONNECTIONS, MAX_CONNECTIONS_PER_IP, MAX_ADMITS_PER_WINDOW,
        MAX_ADMITS_PER_IP_PER_WINDOW, MAX_BODY, MAX_INFLIGHT_BODY} \subseteq Nat

VARIABLES conn,       \* what each thread is at, or None
          limiter,    \* open connections
          rate,       \* arrivals in this window
          inflight,   \* INFLIGHT_BODY
          budget,     \* per class of proof: charges in this window
          busy,       \* per class of proof: verifiers in use
          store       \* ethereum_store: the updates it has taken

door_vars == <<conn, limiter, rate, inflight, budget, busy, store>>

NoConn == [pc |-> "none"]

-----------------------------------------------------------------------------
(* Addresses.  site is the /24 of a v4 and the /48 of a v6 address, sub the *)
(* rest of the /64; a v4 address may come mapped into v6.                   *)

client_key(ip) == CASE ip.fam = "v4"     -> ip
                    [] ip.fam = "mapped" -> [ip EXCEPT !.fam = "v4"]
                    [] ip.fam = "v6"     -> [ip EXCEPT !.host = 0]

prefix_key(ip) == LET key == client_key(ip)
                  IN IF key.fam = "v4" THEN [key EXCEPT !.host = 0]
                     ELSE [key EXCEPT !.sub = 0]

Keys == {client_key(a) : a \in Addrs}
Sites == {prefix_key(a) : a \in Addrs}
Classes == {"Deposit", "Rotation"}

trusts(ip) == ip \in Proxies

\* A federated deposit carries signatures, not a proof.
proof_class(kind) == CASE kind = "deposit"  -> {"Deposit"}
                       [] kind = "rotation" -> {"Rotation"}
                       [] OTHER -> {}

-----------------------------------------------------------------------------
(* The shared limits, each behind its own lock *)

Zero(S) == [s \in S |-> 0]
Empty == [total |-> 0, per_ip |-> Zero(Keys)]
NoCharge == [total |-> 0, per_ip |-> Zero(Keys), per_prefix |-> Zero(Sites)]

counted(counts, ip) == [counts EXCEPT !.total = @ + 1,
                                      !.per_ip[client_key(ip)] = @ + 1]

can_admit(ip) ==
    /\ limiter.total < MAX_CONNECTIONS
    /\ limiter.per_ip[client_key(ip)] <
          IF trusts(ip) THEN MAX_CONNECTIONS ELSE MAX_CONNECTIONS_PER_IP

release(ip) == [limiter EXCEPT !.total = @ - 1, !.per_ip[client_key(ip)] = @ - 1]

allows(ip) == /\ rate.total < MAX_ADMITS_PER_WINDOW
              /\ rate.per_ip[client_key(ip)] < MAX_ADMITS_PER_IP_PER_WINDOW

can_charge_client(class, ip) ==
    /\ budget[class].per_ip[client_key(ip)] < PerIp[class]
    /\ budget[class].per_prefix[prefix_key(ip)] < PerPrefix[class]

charge_client(class, ip) ==
    [budget EXCEPT ![class].per_ip[client_key(ip)] = @ + 1,
                   ![class].per_prefix[prefix_key(ip)] = @ + 1]

\* The charge on a verifier: the window's total first, then a free slot; the
\* total stays charged when no slot is free.
can_charge_global(class) == budget[class].total < PerWindow[class]
charge_global(class) == [budget EXCEPT ![class].total = @ + 1]
try_acquire(class) == busy[class] < Verifiers[class]

-----------------------------------------------------------------------------
(* Leaving: SlotGuard, BodyGuard and ProofSlot give back what the thread    *)
(* holds, on a return, an early return and an unwinding alike.              *)

slot_of(c) == IF conn[c].pc = "verify" THEN conn[c].class ELSE {}

SlotGuard(c) == limiter' = release(conn[c].peer)
BodyGuard(c) == inflight' = inflight - conn[c].held
ProofSlot(c) == busy' = [k \in Classes |-> IF k \in slot_of(c) THEN busy[k] - 1
                                           ELSE busy[k]]

Leave(c) == /\ conn' = [conn EXCEPT ![c] = NoConn]
            /\ SlotGuard(c) /\ BodyGuard(c) /\ ProofSlot(c)

is_at(c, pc) == conn[c].pc = pc

-----------------------------------------------------------------------------
(* The accept loop *)

\* A proxy is counted when it names its client, not here; an arrival beyond
\* the connection limits has already been counted as an arrival.
Accept(c, ip) ==
    /\ is_at(c, "none")
    /\ trusts(ip) \/ allows(ip)
    /\ rate' = IF trusts(ip) THEN rate ELSE counted(rate, ip)
    /\ IF can_admit(ip)
       THEN /\ limiter' = counted(limiter, ip)
            /\ conn' = [conn EXCEPT ![c] =
                          [pc |-> "head", peer |-> ip, client |-> ip, left |-> 0,
                           held |-> 0, class |-> {}, kind |-> "unknown",
                           before |-> <<>>, update |-> 0]]
       ELSE UNCHANGED <<limiter, conn>>
    /\ UNCHANGED <<inflight, budget, busy, store>>

-----------------------------------------------------------------------------
(* handle_connection *)

\* A head that ends early, is too long, repeats its length or asks for a
\* transfer encoding; from a proxy also one that names no client.
BadHead(c) ==
    /\ is_at(c, "head")
    /\ Leave(c)
    /\ UNCHANGED <<rate, budget, store>>

\* Fault: the body is read without a timeout.
missing_head(c) == is_at(c, "head")

missing(c) == is_at(c, "head") \/ (is_at(c, "body") /\ conn[c].left > 0)

\* The deadline passes, or a single read waits too long.
TimesOut(c) ==
    /\ missing(c)
    /\ Leave(c)
    /\ UNCHANGED <<rate, budget, store>>

\* client is the last one the proxy's header names; anyone else's header is
\* not read.  Its arrival is counted before the verb and the length are
\* looked at.
ReadHead(c, client, length, post) ==
    /\ is_at(c, "head")
    /\ ~trusts(conn[c].peer) => client = conn[c].peer
    /\ IF trusts(conn[c].peer) /\ ~allows(client)
       THEN Leave(c) /\ UNCHANGED rate
       ELSE /\ rate' = IF trusts(conn[c].peer) THEN counted(rate, client) ELSE rate
            /\ IF post /\ length <= MAX_BODY
               THEN /\ conn' = [conn EXCEPT ![c].pc = "body", ![c].client = client,
                                            ![c].left = length]
                    /\ UNCHANGED <<limiter, inflight, busy>>
               ELSE Leave(c)
    /\ UNCHANGED <<budget, store>>

\* The next n bytes of the body, taken from the bytes all bodies share.
ReadBody(c, n) ==
    /\ is_at(c, "body") /\ n \in 1 .. conn[c].left
    /\ IF inflight + n > MAX_INFLIGHT_BODY
       THEN Leave(c)
       ELSE /\ inflight' = inflight + n
            /\ conn' = [conn EXCEPT ![c].left = @ - n, ![c].held = @ + n]
            /\ UNCHANGED <<limiter, busy>>
    /\ UNCHANGED <<rate, budget, store>>

\* The peer hangs up with part of the body missing.
HangsUp(c) ==
    /\ is_at(c, "body") /\ conn[c].left > 0
    /\ Leave(c)
    /\ UNCHANGED <<rate, budget, store>>

\* The path and the body together name the request.  health, create_pool and
\* submit_release are answered here, and so is anything that cannot be read.
Dispatch(c, kind) ==
    /\ is_at(c, "body") /\ conn[c].left = 0 /\ kind \in Kinds
    /\ LET class == proof_class(kind)
           charged == \A k \in class : can_charge_client(k, conn[c].client)
       IN IF kind \in {"health", "malformed", "release"} \/ ~charged
          THEN Leave(c) /\ UNCHANGED budget
          ELSE /\ conn' = [conn EXCEPT ![c].pc = "route", ![c].kind = kind,
                                       ![c].class = class]
               /\ budget' = IF class = {} THEN budget
                            ELSE charge_client(CHOOSE k \in class : TRUE,
                                               conn[c].client)
               /\ UNCHANGED <<limiter, inflight, busy>>
    /\ UNCHANGED <<rate, store>>

-----------------------------------------------------------------------------
(* route *)

precheck_ethereum_rotation(held, u) == u.period = Len(held)
rotate_ethereum_store(held, u) == Append(held, u)

\* Whatever is answered under the read lock: handle_read; a deposit that
\* prepare_deposit refuses; an order the precheck refuses; a rotation with
\* nothing to rotate.  A panic there is caught and answered too.
AnswerAtOnce(c) ==
    /\ is_at(c, "route")
    /\ Leave(c)
    /\ UNCHANGED <<rate, budget, store>>

\* A deposit that carries no proof, and an order, go on to the write lock.
Prepare(c) ==
    /\ is_at(c, "route") /\ conn[c].kind \in {"order", "federated"}
    /\ conn' = [conn EXCEPT ![c].pc = "commit"]
    /\ UNCHANGED <<limiter, rate, inflight, budget, busy, store>>

\* Both classes end up here, a rotation with the store it has copied.
TakeVerifier(c, copy, u) ==
    LET class == CHOOSE k \in conn[c].class : TRUE
    IN IF ~can_charge_global(class)
       THEN Leave(c) /\ UNCHANGED <<rate, budget, store>>
       ELSE /\ budget' = charge_global(class)
            /\ IF try_acquire(class)
               THEN /\ busy' = [busy EXCEPT ![class] = @ + 1]
                    /\ conn' = [conn EXCEPT ![c].pc = "verify",
                                            ![c].before = copy, ![c].update = u]
                    /\ UNCHANGED <<limiter, inflight>>
               ELSE Leave(c)
            /\ UNCHANGED <<rate, store>>

PrepareDeposit(c) ==
    /\ is_at(c, "route") /\ conn[c].kind = "deposit"
    /\ TakeVerifier(c, <<>>, 0)

PrepareRotation(c, u) ==
    /\ is_at(c, "route") /\ conn[c].kind = "rotation"
    /\ precheck_ethereum_rotation(store, u)
    /\ TakeVerifier(c, store, u)

\* Off the lock, with a verifier: verify_prepared or rotate_ethereum_store.
Verify(c) ==
    /\ is_at(c, "verify")
    /\ ProofSlot(c)
    /\ conn' = [conn EXCEPT ![c].pc = IF "Rotation" \in conn[c].class
                                      THEN "install" ELSE "commit"]
    /\ UNCHANGED <<limiter, rate, inflight, budget, store>>

\* Fault: the verifier is given back by hand, and not on the way out.
VerifyFailsHolding(c) ==
    /\ is_at(c, "verify")
    /\ conn' = [conn EXCEPT ![c] = NoConn]
    /\ SlotGuard(c) /\ BodyGuard(c)
    /\ UNCHANGED <<busy, rate, budget, store>>

\* The proof is refused, or its verification panics.
VerifyFails(c) ==
    /\ is_at(c, "verify")
    /\ Leave(c)
    /\ UNCHANGED <<rate, budget, store>>

\* commit_deposit or handle under the write lock, saved or rolled back.
Commit(c) ==
    /\ is_at(c, "commit")
    /\ Leave(c)
    /\ UNCHANGED <<rate, budget, store>>

\* Fault: installed over whatever the store has become.
install_unchecked(held, before, u) == rotate_ethereum_store(before, u)

install_ethereum_rotation(held, before, u) ==
    IF held = before THEN rotate_ethereum_store(before, u) ELSE held

Install(c) ==
    /\ is_at(c, "install")
    /\ store' = install_ethereum_rotation(store, conn[c].before, conn[c].update)
    /\ Leave(c)
    /\ UNCHANGED <<rate, budget>>

-----------------------------------------------------------------------------
(* A window of RATE_WINDOW ends.  The code empties the counts at the first  *)
(* use after that; no one reads them in between.                            *)

RollRate == /\ rate # Empty /\ rate' = Empty
            /\ UNCHANGED <<conn, limiter, inflight, budget, busy, store>>

Roll(class) == /\ budget[class] # NoCharge
               /\ budget' = [budget EXCEPT ![class] = NoCharge]
               /\ UNCHANGED <<conn, limiter, rate, inflight, busy, store>>

DoorInit ==
    /\ conn = [c \in Conns |-> NoConn]
    /\ limiter = Empty /\ rate = Empty /\ inflight = 0
    /\ budget = [k \in Classes |-> NoCharge]
    /\ busy = Zero(Classes)
    /\ store = <<>>

\* What the peer decides: how a request arrives.
Arrives(c) ==
    \/ BadHead(c) \/ HangsUp(c)
    \/ \E client \in Addrs, length \in 0 .. MAX_BODY + 1, post \in BOOLEAN :
          ReadHead(c, client, length, post)
    \/ \E n \in 1 .. MAX_BODY : ReadBody(c, n)

\* What the thread does by itself.
Step(c) ==
    \/ TimesOut(c) \/ AnswerAtOnce(c) \/ Prepare(c) \/ PrepareDeposit(c)
    \/ Verify(c) \/ VerifyFails(c) \/ Commit(c) \/ Install(c)
    \/ \E kind \in Kinds : Dispatch(c, kind)
    \/ \E u \in Updates : PrepareRotation(c, u)

DoorNext ==
    \/ \E c \in Conns : Step(c) \/ Arrives(c)
    \/ \E c \in Conns, ip \in Addrs : Accept(c, ip)
    \/ RollRate
    \/ \E class \in Classes : Roll(class)

\* IO_TIMEOUT and REQUEST_DEADLINE bound every read, and no thread waits for
\* another but at a lock, so each thread keeps moving.
Fairness == \A c \in Conns : WF_door_vars(Step(c))
DoorSpec == DoorInit /\ [][DoorNext]_door_vars /\ Fairness

-----------------------------------------------------------------------------
(* Properties *)

Live == {c \in Conns : conn[c].pc # "none"}

\* Every shared count is exactly what the live threads hold: no early return,
\* refusal, timeout or panic of any of them leaves a connection slot, a body
\* byte or a verifier taken (http.rs Drop of SlotGuard, BodyGuard, ProofSlot).
NothingLeaks ==
    /\ limiter.total = Cardinality(Live)
    /\ \A k \in Keys : limiter.per_ip[k] =
          Cardinality({c \in Live : client_key(conn[c].peer) = k})
    /\ inflight = SumFunction([c \in Live |-> conn[c].held])
    /\ \A k \in Classes : busy[k] =
          Cardinality({c \in Live : conn[c].pc = "verify" /\ k \in conn[c].class})

\* However rotations overlap, the committee store only grows by one update at
\* a time, each verified against the very store it is installed over
\* (install_ethereum_rotation).
RotationBuildsOn ==
    [][store' # store => /\ store' = Append(store, Last(store'))
                         /\ Last(store').period = Len(store)]_store

\* Every connection ends: its slot is free again for another.
ConnectionsEnd == \A c \in Conns : (conn[c].pc # "none") ~> (conn[c].pc = "none")
=============================================================================
