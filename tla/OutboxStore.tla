---------------------------- MODULE OutboxStore ----------------------------
(***************************************************************************)
(* middleware_outbox as app/storage.py (PostgresOutboxStore),              *)
(* app/platform/persistence.py (PostgresReconciliationSource) and the      *)
(* mutations of app/commands.py use it.  Each operator is one transaction. *)
(*                                                                         *)
(* Time is left out: a lease is live until LeaseExpires says its           *)
(* lease_until has passed, and next_attempt_at only delays a claim.        *)
(***************************************************************************)
EXTENDS Naturals, Sequences

CONSTANTS
    Workers,        \* OutboxWorker processes
    Reconcilers,    \* Reconciler processes
    Nobody,         \* lease_owner IS NULL
    MaxClaims,      \* max_attempts of the outbox
    Budget          \* reconciliation budget; claims are counted up to it

ASSUME OutboxAssumption ==
    /\ MaxClaims \in Nat \ {0}
    /\ Budget \in Nat \ {0}
    /\ Nobody \notin Workers \cup Reconcilers
    /\ Workers \cap Reconcilers = {}

VARIABLES
    outbox,         \* the rows in id order
    tick            \* orders the values of reconciliation_required_at

outboxVars == <<outbox, tick>>

Closing == {"completed", "dead_lettered", "cancelled"}

\* closed : which of completed_at, dead_lettered_at, cancelled_at are set
\* since  : reconciliation_required_at, 0 for NULL
\* live   : lease_until > now();  claims : audited reconciler claims
OutboxRow(commands) ==
    [cmd: commands, closed: SUBSET Closing, since: Nat,
     owner: Workers \cup Reconcilers \cup {Nobody}, live: BOOLEAN,
     count: Nat, token: Nat, claims: Nat]

NewRow(c) ==
    [cmd |-> c, closed |-> {}, since |-> 0, owner |-> Nobody, live |-> FALSE,
     count |-> 0, token |-> 0, claims |-> 0]

OutboxInit == outbox = <<>> /\ tick = 0

RowIds == DOMAIN outbox

Quarantined(i) == outbox[i].since # 0

InsertRow(c) ==
    /\ outbox' = Append(outbox, NewRow(c))
    /\ UNCHANGED tick

----------------------------------------------------------------------------
(* PostgresOutboxStore.claim: first dead-letters every open row that has   *)
(* used up its attempts, then leases a claimable one.  SKIP LOCKED passes  *)
(* over a row another transaction holds, so any claimable row may be the   *)
(* one that is taken.                                                      *)
Exhausted(row) ==
    /\ row.closed = {} /\ row.since = 0
    /\ row.count >= MaxClaims /\ ~row.live

\* Mutant: the sweep forgets to clear lease_owner.
SweepKeepsOwner(row) ==
    IF Exhausted(row) THEN [row EXCEPT !.closed = {"dead_lettered"}] ELSE row

Sweep(row) ==
    IF Exhausted(row)
    THEN [row EXCEPT !.closed = {"dead_lettered"}, !.owner = Nobody]
    ELSE row

Claimable(row) ==
    /\ row.closed = {} /\ row.since = 0
    /\ row.count < MaxClaims /\ ~row.live

Claimed(row, w) ==
    [row EXCEPT !.owner = w, !.live = TRUE, !.count = @ + 1, !.token = @ + 1]

Claim(w, i) ==
    /\ Claimable(outbox[i])
    /\ outbox' = [j \in RowIds |-> IF j = i THEN Claimed(outbox[j], w) ELSE Sweep(outbox[j])]
    /\ UNCHANGED tick

\* A claim that finds nothing to lease still commits its sweep.
ClaimNothing ==
    /\ \A i \in RowIds : ~Claimable(outbox[i])
    /\ outbox' = [j \in RowIds |-> Sweep(outbox[j])]
    /\ UNCHANGED tick

\* quarantine_unknown_outcome, the last transaction before provider code.
CanQuarantine(w, i, t) ==
    /\ outbox[i].owner = w /\ outbox[i].live /\ outbox[i].token = t
    /\ outbox[i].closed \subseteq {"cancelled"} /\ ~Quarantined(i)

\* Mutant: the lease is checked but the quarantine is not written.
QuarantineOnlyChecks(w, i, t) ==
    /\ CanQuarantine(w, i, t)
    /\ UNCHANGED outboxVars

Quarantine(w, i, t) ==
    /\ CanQuarantine(w, i, t)
    /\ tick' = tick + 1
    /\ outbox' = [outbox EXCEPT ![i].since = tick + 1]

\* renew_active_dispatch: no check that the old deadline still lies ahead.
RenewActiveDispatch(w, i, t) ==
    /\ outbox[i].owner = w /\ outbox[i].token = t
    /\ Quarantined(i) /\ outbox[i].closed \subseteq {"cancelled"}
    /\ outbox' = [outbox EXCEPT ![i].live = TRUE]
    /\ UNCHANGED tick

\* resolve_reconciliation called by the worker that holds the lease.
CanResolve(w, i, t, action) ==
    /\ outbox[i].closed \subseteq {"cancelled"} /\ Quarantined(i)
    /\ outbox[i].live /\ outbox[i].owner = w /\ outbox[i].token = t
    /\ action = "retry" => outbox[i].count < MaxClaims

\* Mutant: the resolved row keeps its lease_owner.
ResolutionKeepsOwner(row, action) ==
    [row EXCEPT !.since = 0, !.live = FALSE,
                !.closed = @ \cup (CASE action = "complete"    -> {"completed"}
                                     [] action = "dead_letter" -> {"dead_lettered"}
                                     [] OTHER                  -> {})]

Resolution(row, action) ==
    [row EXCEPT !.since = 0, !.owner = Nobody, !.live = FALSE,
                !.closed = @ \cup (CASE action = "complete"    -> {"completed"}
                                     [] action = "dead_letter" -> {"dead_lettered"}
                                     [] OTHER                  -> {})]

ResolveReconciliation(w, i, t, action) ==
    /\ CanResolve(w, i, t, action)
    /\ outbox' = [outbox EXCEPT ![i] = Resolution(@, action)]
    /\ UNCHANGED tick

\* fail: give the row back for a later attempt, or dead-letter it.
CanFail(w, i, t) ==
    outbox[i].owner = w /\ outbox[i].token = t /\ ~Quarantined(i)

Fail(w, i, t) ==
    /\ CanFail(w, i, t)
    /\ outbox' = [outbox EXCEPT ![i].owner = Nobody, ![i].live = FALSE,
                                ![i].closed = IF outbox[i].count >= MaxClaims
                                              THEN @ \cup {"dead_lettered"}
                                              ELSE @ \ {"dead_lettered"}]
    /\ UNCHANGED tick

----------------------------------------------------------------------------
(* PostgresReconciliationSource.  claim takes the row that has been        *)
(* quarantined longest; neither fencing_token nor                          *)
(* reconciliation_required_at changes.                                     *)
Parked(i) ==
    Quarantined(i) /\ outbox[i].closed = {} /\ ~outbox[i].live

Before(i, j) ==
    \/ outbox[i].since < outbox[j].since
    \/ outbox[i].since = outbox[j].since /\ i <= j

\* Mutant: the claim is not audited, so the budget is never used up.
ReconcilerClaimUncounted(r, i) ==
    /\ Parked(i)
    /\ \A j \in RowIds : Parked(j) => Before(i, j)
    /\ outbox' = [outbox EXCEPT ![i].owner = r, ![i].live = TRUE]
    /\ UNCHANGED tick

ReconcilerClaim(r, i) ==
    /\ Parked(i)
    /\ \A j \in RowIds : Parked(j) => Before(i, j)
    /\ outbox' = [outbox EXCEPT ![i].owner = r, ![i].live = TRUE,
                                ![i].claims = IF @ < Budget THEN @ + 1 ELSE @]
    /\ UNCHANGED tick

\* resolve: only the owner column is compared, and retry has no attempt limit.
CanReconcilerResolve(r, i) ==
    outbox[i].owner = r /\ outbox[i].closed \subseteq {"cancelled"}

ReconcilerResolve(r, i, action) ==
    /\ CanReconcilerResolve(r, i)
    /\ outbox' = [outbox EXCEPT ![i] = Resolution(@, action)]
    /\ UNCHANGED tick

ReconcilerRelease(r, i) ==
    /\ outbox[i].owner = r
    /\ outbox' = [outbox EXCEPT ![i].owner = Nobody, ![i].live = FALSE]
    /\ UNCHANGED tick

----------------------------------------------------------------------------
(* What the mutations of the command ledger do to its rows.                *)
ActiveLease(c) ==
    \E i \in RowIds :
        /\ outbox[i].cmd = c /\ outbox[i].owner # Nobody /\ outbox[i].live
        /\ "completed" \notin outbox[i].closed

CancelRows(c) ==
    /\ outbox' = [i \in RowIds |->
          IF /\ outbox[i].cmd = c /\ outbox[i].owner = Nobody
             /\ "completed" \notin outbox[i].closed
          THEN [outbox[i] EXCEPT !.closed = @ \cup {"cancelled"}, !.live = FALSE]
          ELSE outbox[i]]
    /\ UNCHANGED tick

ReconcileRows(c) ==
    /\ tick' = tick + 1
    /\ outbox' = [i \in RowIds |->
          IF outbox[i].cmd = c /\ outbox[i].closed = {}
          THEN [outbox[i] EXCEPT !.since = IF @ = 0 THEN tick + 1 ELSE @,
                                 !.owner = IF outbox[i].live THEN @ ELSE Nobody]
          ELSE outbox[i]]

\* now() passes lease_until.
LeaseExpires(i) ==
    /\ outbox[i].live
    /\ outbox' = [outbox EXCEPT ![i].live = FALSE]
    /\ UNCHANGED tick

============================================================================
