---------------------- MODULE TelephonyCommandsProofs ----------------------
(***************************************************************************)
(* Safety of TelephonyCommands for any commands, workers, faults, results  *)
(* and announcements.  The argument: a lease is named by the attempt that  *)
(* took it, no two workers have the same attempt of a command in hand, and *)
(* a command the adapter registered is never claimed again.                *)
(***************************************************************************)
EXTENDS TelephonyCommands, TLAPS

Cmd0 == [state: CmdState, attempts: Nat, owner: Nat, live: BOOLEAN, auth: BOOLEAN]
Op0 == [id: {"none", "ack", "derived", "registered"},
        state: OpState \cup {"none"}, seq: Nat, rows: SUBSET Nat, results: Nat]
Result == {"none", "ack", "derived", "match", "mismatch", "transient", "permanent"}
Worker0 == [pc: Pc, c: Commands \cup {0}, own: Nat, res: Result]
Active == {"AUTHORIZED", "SUBMITTING", "FAILED_TRANSIENT"}

(***************************************************************************)
(* The transitions journaled of operation o, when m was announced.         *)
(***************************************************************************)
Journaled(o, m) ==
    /\ o.rows = 1..o.seq /\ o.seq <= Len(m)
    /\ o.id = "registered" /\ o.seq > 0 /\ o.results = 0 => o.state = m[o.seq]

(***************************************************************************)
(* What is always true of a command, its operation o, what the adapter     *)
(* made of it (a) and announced (m).                                       *)
(***************************************************************************)
RowOK(row, o, a, m) ==
    /\ row.owner <= row.attempts
    /\ row.state \in Active => row.auth
    /\ row.state = "none" => ~row.auth
    /\ a # "no" => row.auth
    /\ row.state = "ODOO_RESULT_PENDING" => a = "applied" /\ o # NoOp
    /\ o.id = "none" <=> o = NoOp
    /\ o.id = "registered" => row.state \notin Active \cup {"none"}
    /\ Journaled(o, m)

(***************************************************************************)
(* What a worker t that is not idle relies on.                             *)
(***************************************************************************)
Holds(row, t) == row.state = "SUBMITTING" /\ row.owner = t.own

Relies(t, row, o, a) ==
    /\ 0 < t.own /\ t.own <= row.attempts /\ row.auth
    /\ t.pc = "dispatch" /\ Holds(row, t) => o = NoOp
    /\ t.pc \in {"readback", "finalize"} => o # NoOp
    /\ t.pc = "finalize" /\ t.res = "match" => a = "applied"
    /\ t.pc = "persist" => t.res \in {"ack", "derived"}

WorkerOK(t, cm, o, a) ==
    t.pc # "idle" => t.c \in Commands /\ Relies(t, cm[t.c], o[t.c], a[t.c])

Distinct(t, u) ==
    t.pc # "idle" /\ u.pc # "idle" /\ t.c = u.c => t.own # u.own

Typed ==
    /\ cmd \in [Commands -> Cmd0] /\ op \in [Commands -> Op0]
    /\ tel \in [TelWorkers -> Worker0]
    /\ adapter \in [Commands -> {"no", "inflight", "applied"}]
    /\ emitted \in [Commands -> Seq(OpState)]

TelInv ==
    /\ Typed
    /\ \A c \in Commands : RowOK(cmd[c], op[c], adapter[c], emitted[c])
    /\ \A w \in TelWorkers : WorkerOK(tel[w], cmd, op, adapter)
    /\ \A w, v \in TelWorkers : w # v => Distinct(tel[w], tel[v])

(***************************************************************************)
(* What a step may do to a command: the lease of an old attempt never      *)
(* comes back, and a settled command stays put.                            *)
(***************************************************************************)
Sound(row, row2) ==
    /\ row.attempts <= row2.attempts
    /\ row.auth => row2.auth
    /\ row2.state = "SUBMITTING" /\ row2.owner <= row.attempts
         => row.state = "SUBMITTING" /\ row2.owner = row.owner
    /\ row.state \in Settled =>
         /\ row2.attempts = row.attempts
         /\ row2.state \in {row.state, "CANCELLED", "OPERATION_REGISTERED"}

GoodStep == TelInv' /\ \A c \in Commands : Sound(cmd[c], cmd'[c])

(* A row that does not change changes soundly.                             *)
LEMMA SoundRefl == ASSUME NEW row \in Cmd0 PROVE Sound(row, row)
BY DEF Sound, Cmd0

(* An operation nothing was announced of yet.                              *)
LEMMA JournaledEmpty ==
    ASSUME NEW o, o.seq = 0, o.rows = {}, NEW m \in Seq(OpState) PROVE Journaled(o, m)
<1>1. Len(m) \in Nat /\ 1..0 = {}
  OBVIOUS
<1> QED
  BY <1>1 DEF Journaled

(* A worker that stands still goes on relying on what it did, when its     *)
(* command changes soundly and nobody else writes its operation.           *)
LEMMA ReliesStays ==
    ASSUME NEW t \in Worker0, NEW row \in Cmd0, NEW row2 \in Cmd0,
           NEW o, NEW o2, NEW a, NEW a2,
           Relies(t, row, o, a), Sound(row, row2),
           o # NoOp => o2 # NoOp, Holds(row2, t) /\ o = NoOp => o2 = NoOp,
           a = "applied" => a2 = "applied"
    PROVE  Relies(t, row2, o2, a2)
<1>1. t.own \in Nat /\ row.attempts \in Nat /\ row2.attempts \in Nat /\ row2.owner \in Nat
  BY DEF Worker0, Cmd0
<1>2. 0 < t.own /\ t.own <= row2.attempts /\ row2.auth
  BY <1>1 DEF Relies, Sound
<1>3. Holds(row2, t) => Holds(row, t)
  BY <1>1 DEF Relies, Sound, Holds
<1> QED
  BY <1>2, <1>3 DEF Relies

(* A step of worker w, which goes on with t, preserves the invariant if    *)
(* the rows stay sound, t relies on what is so, and its attempt is new or  *)
(* the one it had.                                                         *)
LEMMA WorkerStep ==
    ASSUME TelInv, NEW w \in TelWorkers, NEW t \in Worker0,
           cmd' \in [Commands -> Cmd0], op' \in [Commands -> Op0],
           adapter' \in [Commands -> {"no", "inflight", "applied"}],
           emitted' \in [Commands -> Seq(OpState)],
           tel' = [tel EXCEPT ![w] = t],
           \A c \in Commands :
              /\ RowOK(cmd'[c], op'[c], adapter'[c], emitted'[c])
              /\ Sound(cmd[c], cmd'[c])
              /\ op[c] # NoOp => op'[c] # NoOp
              /\ adapter[c] = "applied" => adapter'[c] = "applied"
              /\ op'[c] = NoOp \/ op[c] # NoOp \/ cmd'[c].state # "SUBMITTING"
                   \/ (tel[w].pc # "idle" /\ tel[w].c = c /\ cmd'[c].owner = tel[w].own),
           WorkerOK(t, cmd', op', adapter'),
           \/ t.pc = "idle"
           \/ tel[w].pc # "idle" /\ t.c = tel[w].c /\ t.own = tel[w].own
           \/ t.c \in Commands /\ t.own > cmd[t.c].attempts
    PROVE  GoodStep
<1>1. tel' \in [TelWorkers -> Worker0] /\ tel'[w] = t
      /\ \A v \in TelWorkers \ {w} : tel'[v] = tel[v] /\ tel[v] \in Worker0
  BY DEF TelInv, Typed
<1>2. ASSUME NEW v \in TelWorkers \ {w}
      PROVE  WorkerOK(tel'[v], cmd', op', adapter') /\ Distinct(tel'[v], t) /\ Distinct(t, tel'[v])
  <2> DEFINE u == tel[v]
             c == u.c
  <2>1. WorkerOK(u, cmd, op, adapter) /\ Distinct(u, tel[w]) /\ u \in Worker0 /\ tel'[v] = u
    BY <1>1 DEF TelInv
  <2>2. CASE u.pc = "idle"
    BY <2>1, <2>2 DEF WorkerOK, Distinct
  <2>3. CASE u.pc # "idle"
    <3>1. c \in Commands /\ Relies(u, cmd[c], op[c], adapter[c])
      BY <2>1, <2>3 DEF WorkerOK
    <3>2. cmd[c] \in Cmd0 /\ cmd'[c] \in Cmd0 /\ cmd[c].attempts \in Nat /\ u.own \in Nat
          /\ u.own <= cmd[c].attempts /\ t.own \in Nat
      BY <2>1, <3>1 DEF TelInv, Typed, Cmd0, Worker0, Relies
    <3>3. Holds(cmd'[c], u) /\ op[c] = NoOp => op'[c] = NoOp
      BY <2>1, <2>3, <3>1 DEF Holds, Distinct
    <3>4. Relies(u, cmd'[c], op'[c], adapter'[c])
      <4> HIDE DEF u, c
      <4>1. Sound(cmd[c], cmd'[c]) /\ (op[c] # NoOp => op'[c] # NoOp)
            /\ (adapter[c] = "applied" => adapter'[c] = "applied")
        BY <3>1
      <4> QED
        BY <2>1, <3>1, <3>2, <3>3, <4>1, ReliesStays
    <3>5. WorkerOK(u, cmd', op', adapter')
      BY <3>1, <3>4 DEF WorkerOK
    <3>6. Distinct(u, t)
      BY <2>1, <2>3, <3>2 DEF Distinct
    <3> QED
      BY <2>1, <3>5, <3>6 DEF Distinct
  <2> QED
    BY <2>2, <2>3
<1>3. \A v \in TelWorkers : WorkerOK(tel'[v], cmd', op', adapter')
  BY <1>1, <1>2
<1>4. \A v, u \in TelWorkers : v # u => Distinct(tel'[v], tel'[u])
  BY <1>1, <1>2 DEF TelInv
<1>5. TelInv'
  BY <1>1, <1>3, <1>4 DEF TelInv, Typed
<1> QED
  BY <1>5 DEF GoodStep

-----------------------------------------------------------------------------

(***************************************************************************)
(* Steps that touch one command, whose row becomes r, its operation o and  *)
(* what the adapter made of it and announced a and m.                      *)
(***************************************************************************)
Becomes(c, r, o, a, m) ==
    /\ cmd' = [cmd EXCEPT ![c] = r] /\ op' = [op EXCEPT ![c] = o]
    /\ adapter' = [adapter EXCEPT ![c] = a] /\ emitted' = [emitted EXCEPT ![c] = m]

Fits(c, r, o, a, m) ==
    /\ r \in Cmd0 /\ o \in Op0 /\ a \in {"no", "inflight", "applied"}
    /\ m \in Seq(OpState)
    /\ RowOK(r, o, a, m) /\ Sound(cmd[c], r)
    /\ op[c] # NoOp => o # NoOp
    /\ adapter[c] = "applied" => a = "applied"

(* The other commands are as they were.                                    *)
LEMMA OneCommand ==
    ASSUME TelInv, NEW c \in Commands, NEW r, NEW o, NEW a, NEW m,
           Becomes(c, r, o, a, m), Fits(c, r, o, a, m)
    PROVE  /\ cmd' \in [Commands -> Cmd0] /\ op' \in [Commands -> Op0]
           /\ adapter' \in [Commands -> {"no", "inflight", "applied"}]
           /\ emitted' \in [Commands -> Seq(OpState)]
           /\ cmd'[c] = r /\ op'[c] = o /\ adapter'[c] = a /\ emitted'[c] = m
           /\ \A d \in Commands \ {c} : op'[d] = op[d]
           /\ \A d \in Commands :
                /\ RowOK(cmd'[d], op'[d], adapter'[d], emitted'[d])
                /\ Sound(cmd[d], cmd'[d])
                /\ op[d] # NoOp => op'[d] # NoOp
                /\ adapter[d] = "applied" => adapter'[d] = "applied"
<1>1. /\ cmd' \in [Commands -> Cmd0] /\ op' \in [Commands -> Op0]
      /\ adapter' \in [Commands -> {"no", "inflight", "applied"}]
      /\ emitted' \in [Commands -> Seq(OpState)]
      /\ cmd'[c] = r /\ op'[c] = o /\ adapter'[c] = a /\ emitted'[c] = m
      /\ \A d \in Commands \ {c} : op'[d] = op[d] /\ cmd'[d] = cmd[d]
            /\ adapter'[d] = adapter[d] /\ emitted'[d] = emitted[d]
  BY DEF TelInv, Typed, Becomes, Fits
<1>2. \A d \in Commands : Sound(cmd[d], cmd[d]) /\ RowOK(cmd[d], op[d], adapter[d], emitted[d])
  BY SoundRefl DEF TelInv, Typed
<1> QED
  BY <1>1, <1>2 DEF Fits

(* A step that moves no worker.                                            *)
LEMMA JournalStep ==
    ASSUME TelInv, NEW c \in Commands, NEW r, NEW o, NEW a, NEW m,
           Becomes(c, r, o, a, m), Fits(c, r, o, a, m), UNCHANGED tel,
           o = NoOp \/ op[c] # NoOp \/ r.state # "SUBMITTING"
    PROVE  GoodStep
<1>1. ASSUME NEW w \in TelWorkers
      PROVE  WorkerOK(tel'[w], cmd', op', adapter')
  <2> DEFINE u == tel[w]
             d == u.c
  <2>1. u \in Worker0 /\ WorkerOK(u, cmd, op, adapter) /\ tel'[w] = u
    BY DEF TelInv, Typed
  <2>2. CASE u.pc # "idle"
    <3>1. d \in Commands /\ Relies(u, cmd[d], op[d], adapter[d])
      BY <2>1, <2>2 DEF WorkerOK
    <3> HIDE DEF u, d
    <3>2. /\ cmd[d] \in Cmd0 /\ cmd'[d] \in Cmd0 /\ Sound(cmd[d], cmd'[d])
          /\ op[d] # NoOp => op'[d] # NoOp
          /\ adapter[d] = "applied" => adapter'[d] = "applied"
          /\ Holds(cmd'[d], u) /\ op[d] = NoOp => op'[d] = NoOp
      BY <3>1, OneCommand DEF TelInv, Typed, Holds
    <3>3. Relies(u, cmd'[d], op'[d], adapter'[d])
      BY <2>1, <3>1, <3>2, ReliesStays
    <3> QED
      BY <2>1, <3>1, <3>3 DEF WorkerOK, d
  <2> QED
    BY <2>1, <2>2 DEF WorkerOK
<1>2. TelInv'
  BY <1>1, OneCommand DEF TelInv, Typed
<1> QED
  BY <1>2, OneCommand DEF GoodStep

(* A step of the worker w with command c in hand, which goes on with t.    *)
LEMMA MoveStep ==
    ASSUME TelInv, NEW w \in TelWorkers, tel[w].pc # "idle",
           NEW c, c = tel[w].c, NEW r, NEW o, NEW a, NEW m,
           Becomes(c, r, o, a, m), Fits(c, r, o, a, m),
           NEW t, Become(w, t),
           \/ t = Idle
           \/ t \in Worker0 /\ t.c = c /\ t.own = tel[w].own /\ Relies(t, r, o, a),
           o = NoOp \/ op[c] # NoOp \/ Holds(r, tel[w])
    PROVE  GoodStep
<1>1. c \in Commands
  BY DEF TelInv, WorkerOK
<1>2. t \in Worker0 /\ (t = Idle => t.pc = "idle")
  BY DEF Idle, Worker0, Pc, Result
<1>3. /\ cmd' \in [Commands -> Cmd0] /\ op' \in [Commands -> Op0]
      /\ adapter' \in [Commands -> {"no", "inflight", "applied"}]
      /\ emitted' \in [Commands -> Seq(OpState)]
      /\ cmd'[c] = r /\ op'[c] = o /\ adapter'[c] = a
      /\ \A d \in Commands \ {c} : op'[d] = op[d]
  BY <1>1, OneCommand
<1>4. \A d \in Commands :
                /\ RowOK(cmd'[d], op'[d], adapter'[d], emitted'[d])
                /\ Sound(cmd[d], cmd'[d])
                /\ op[d] # NoOp => op'[d] # NoOp
                /\ adapter[d] = "applied" => adapter'[d] = "applied"
  BY <1>1, OneCommand
<1>5. WorkerOK(t, cmd', op', adapter')
  BY <1>1, <1>2, <1>3 DEF WorkerOK
<1>6. ASSUME NEW d \in Commands
      PROVE  op'[d] = NoOp \/ op[d] # NoOp \/ cmd'[d].state # "SUBMITTING"
             \/ (tel[w].pc # "idle" /\ tel[w].c = d /\ cmd'[d].owner = tel[w].own)
  <2>1. CASE d = c
    BY <1>3, <2>1 DEF Holds
  <2>2. CASE d # c
    BY <1>3, <2>2
  <2> QED
    BY <2>1, <2>2
<1>7. tel' = [tel EXCEPT ![w] = t]
  BY DEF Become
<1>8. \A d \in Commands :
                /\ RowOK(cmd'[d], op'[d], adapter'[d], emitted'[d])
                /\ Sound(cmd[d], cmd'[d])
                /\ op[d] # NoOp => op'[d] # NoOp
                /\ adapter[d] = "applied" => adapter'[d] = "applied"
                /\ op'[d] = NoOp \/ op[d] # NoOp \/ cmd'[d].state # "SUBMITTING"
                     \/ (tel[w].pc # "idle" /\ tel[w].c = d /\ cmd'[d].owner = tel[w].own)
  BY <1>4, <1>6
<1>9. \/ t.pc = "idle"
      \/ tel[w].pc # "idle" /\ t.c = tel[w].c /\ t.own = tel[w].own
  BY <1>2
<1> QED
  BY <1>2, <1>3, <1>5, <1>7, <1>8, <1>9, WorkerStep

-----------------------------------------------------------------------------

(* What the invariant says of one command.                                 *)
LEMMA Here ==
    ASSUME TelInv, NEW c \in Commands
    PROVE  /\ cmd[c] \in Cmd0 /\ op[c] \in Op0 /\ emitted[c] \in Seq(OpState)
           /\ adapter[c] \in {"no", "inflight", "applied"}
           /\ RowOK(cmd[c], op[c], adapter[c], emitted[c])
           /\ Sound(cmd[c], cmd[c])
           /\ cmd = [cmd EXCEPT ![c] = cmd[c]] /\ op = [op EXCEPT ![c] = op[c]]
           /\ adapter = [adapter EXCEPT ![c] = adapter[c]]
           /\ emitted = [emitted EXCEPT ![c] = emitted[c]]
BY SoundRefl DEF TelInv, Typed

(* A row whose lease is dropped for another state than SUBMITTING.         *)
LEMMA Dropped ==
    ASSUME NEW row \in Cmd0, NEW r \in Cmd0, NEW o, NEW a, NEW m,
           RowOK(row, o, a, m), row.state # "none",
           r.owner = 0, r.attempts = row.attempts, r.auth = row.auth,
           r.state \notin {"none", "SUBMITTING"},
           r.state \in Active => row.auth /\ o.id # "registered",
           r.state = "ODOO_RESULT_PENDING" => a = "applied" /\ o # NoOp,
           row.state \in Settled => r.state = "CANCELLED"
    PROVE  RowOK(r, o, a, m) /\ Sound(row, r)
<1>1. row.attempts \in Nat
  BY DEF Cmd0
<1>2. RowOK(r, o, a, m)
  BY <1>1 DEF RowOK
<1>3. Sound(row, r)
  BY <1>1 DEF Sound
<1> QED
  BY <1>2, <1>3

(* A row of which only the expiry of the lease changes.                    *)
LEMMA Leased ==
    ASSUME NEW row \in Cmd0, NEW o, NEW a, NEW m, RowOK(row, o, a, m),
           NEW b \in BOOLEAN, NEW r, r = [row EXCEPT !.live = b]
    PROVE  /\ r \in Cmd0 /\ RowOK(r, o, a, m) /\ Sound(row, r)
           /\ r.state = row.state /\ r.owner = row.owner
           /\ r.attempts = row.attempts /\ r.auth = row.auth
<1>1. r \in Cmd0 /\ r.state = row.state /\ r.owner = row.owner
      /\ r.attempts = row.attempts /\ r.auth = row.auth /\ row.attempts \in Nat
  BY DEF Cmd0
<1> QED
  BY <1>1 DEF RowOK, Sound

(* create_command is for a version not in the journal yet.                 *)
LEMMA CreateStep ==
    ASSUME TelInv, Commands \subseteq Nat, NEW c \in Commands, Create(c)
    PROVE  GoodStep
<1>1. PICK allowed \in BOOLEAN :
         Store(c, [cmd[c] EXCEPT !.auth = allowed, !.state = Decided(allowed)])
  BY DEF Create
<1> DEFINE row == cmd[c]
           r == [row EXCEPT !.auth = allowed, !.state = Decided(allowed)]
<1>2. row.state = "none"
  <2>1. row.state # "none" => c < c
    BY DEF Create
  <2>2. ~(c < c)
    OBVIOUS
  <2> QED
    BY <2>1, <2>2
<1>3. Decided(allowed) \in CmdState /\ Decided(allowed) \in {"AUTHORIZED", "POLICY_DENIED"}
      /\ (Decided(allowed) = "AUTHORIZED" => allowed)
  BY DEF Decided, CmdState, Settled
<1>4. row \in Cmd0 /\ RowOK(row, op[c], adapter[c], emitted[c]) /\ op[c] \in Op0
  BY Here
<1>5. r \in Cmd0 /\ r.state = Decided(allowed) /\ r.owner = row.owner
      /\ r.attempts = row.attempts /\ r.auth = allowed /\ row.attempts \in Nat
  BY <1>3, <1>4 DEF Cmd0
<1>6. cmd' = [cmd EXCEPT ![c] = r]
  BY <1>1 DEF Store
<1> HIDE DEF r
<1>7. RowOK(r, op[c], adapter[c], emitted[c]) /\ Sound(row, r)
  BY <1>2, <1>3, <1>4, <1>5 DEF RowOK, Sound, Active, Settled
<1>8. r.state # "SUBMITTING"
  BY <1>3, <1>5
<1>9. Becomes(c, r, op[c], adapter[c], emitted[c]) /\ Fits(c, r, op[c], adapter[c], emitted[c])
  BY <1>5, <1>6, <1>7, Here DEF Becomes, Fits, Create
<1> QED
  BY <1>8, <1>9, JournalStep DEF Create

(* cancel_command drops the lease.                                         *)
LEMMA CancelStep ==
    ASSUME TelInv, NEW c \in Commands, Cancel(c) PROVE GoodStep
<1> DEFINE r == [cmd[c] EXCEPT !.state = "CANCELLED", !.owner = 0, !.live = FALSE]
<1>1. /\ cmd[c] \in Cmd0 /\ RowOK(cmd[c], op[c], adapter[c], emitted[c])
      /\ cmd[c].state # "none"
  BY Here DEF Cancel
<1>2. r \in Cmd0 /\ r.state = "CANCELLED" /\ r.owner = 0
      /\ r.attempts = cmd[c].attempts /\ r.auth = cmd[c].auth
  BY <1>1 DEF Cmd0, CmdState, Settled
<1>3. cmd' = [cmd EXCEPT ![c] = r]
  BY DEF Cancel, Store
<1> HIDE DEF r
<1>4. r.state \notin Active /\ r.state \notin {"none", "SUBMITTING", "ODOO_RESULT_PENDING"}
  BY <1>2 DEF Active
<1>5. RowOK(r, op[c], adapter[c], emitted[c]) /\ Sound(cmd[c], r)
  BY <1>1, <1>2, <1>4, Dropped
<1>6. Becomes(c, r, op[c], adapter[c], emitted[c]) /\ Fits(c, r, op[c], adapter[c], emitted[c])
  BY <1>2, <1>3, <1>5, Here DEF Becomes, Fits, Cancel
<1> QED
  BY <1>4, <1>6, JournalStep DEF Cancel

(* register_operation takes the command away from whoever dispatches it.   *)
LEMMA RegisterStep ==
    ASSUME TelInv, NEW c \in Commands, RegisterOperation(c) PROVE GoodStep
<1> DEFINE row == cmd[c]
           r == [row EXCEPT !.state = "OPERATION_REGISTERED"]
           o == [NoOp EXCEPT !.id = "registered", !.state = "REGISTERED"]
<1>1. row \in Cmd0 /\ RowOK(row, op[c], adapter[c], emitted[c]) /\ row.state # "none"
  BY Here DEF RegisterOperation
<1>2. r \in Cmd0 /\ r.state = "OPERATION_REGISTERED" /\ r.owner = row.owner
      /\ r.attempts = row.attempts /\ r.auth = row.auth /\ row.attempts \in Nat
  BY <1>1 DEF Cmd0, CmdState, Settled
<1>3. "REGISTERED" \in OpState
  BY DEF OpState, Transitions
<1>4. o \in Op0 /\ o # NoOp /\ o.id = "registered" /\ o.seq = 0 /\ o.rows = {}
  BY <1>3 DEF Op0, NoOp
<1>5. Becomes(c, r, o, adapter[c], emitted[c])
  BY Here DEF Becomes, RegisterOperation, Store
<1> HIDE DEF r, o
<1>j. Journaled(o, emitted[c])
  BY <1>4, Here, JournaledEmpty
<1>6. RowOK(r, o, adapter[c], emitted[c]) /\ Sound(row, r)
  BY <1>1, <1>2, <1>4, <1>j DEF RowOK, Sound, Active
<1>7. Fits(c, r, o, adapter[c], emitted[c])
  BY <1>2, <1>4, <1>6, Here DEF Fits
<1>8. r.state # "SUBMITTING"
  BY <1>2
<1> QED
  BY <1>5, <1>7, <1>8, JournalStep DEF RegisterOperation

(* The states of the transition table are operation states.                *)
LEMMA AfterTyped == \A s : After(s) \subseteq OpState
<1> SUFFICES ASSUME NEW s, NEW x \in After(s) PROVE x \in OpState
  OBVIOUS
<1>1. s \in DOMAIN Transitions
  BY DEF After
<1> QED
  BY <1>1 DEF OpState

(* The adapter's announcements only grow, so what the journal took stays.  *)
LEMMA AnnounceStep ==
    ASSUME TelInv, NEW c \in Commands, Announce(c) PROVE GoodStep
<1>1. PICK s \in After(AdapterState(c)) : emitted' = [emitted EXCEPT ![c] = Append(@, s)]
  BY DEF Announce
<1> DEFINE m == Append(emitted[c], s)
<1>2. s \in OpState
  BY AfterTyped
<1>3. /\ cmd[c] \in Cmd0 /\ op[c] \in Op0 /\ emitted[c] \in Seq(OpState)
      /\ RowOK(cmd[c], op[c], adapter[c], emitted[c]) /\ op[c].seq \in Nat
  BY Here DEF Op0
<1>4. m \in Seq(OpState) /\ Len(m) = Len(emitted[c]) + 1 /\ Len(emitted[c]) \in Nat
      /\ \A i \in 1..Len(emitted[c]) : m[i] = emitted[c][i]
  BY <1>2, <1>3
<1>5. emitted' = [emitted EXCEPT ![c] = m]
  BY <1>1
<1> HIDE DEF m
<1>j. Journaled(op[c], m)
  BY <1>3, <1>4 DEF RowOK, Journaled
<1>6. RowOK(cmd[c], op[c], adapter[c], m)
  BY <1>3, <1>j DEF RowOK
<1>7. Becomes(c, cmd[c], op[c], adapter[c], m) /\ Fits(c, cmd[c], op[c], adapter[c], m)
  BY <1>4, <1>5, <1>6, Here DEF Becomes, Fits, Announce
<1> QED
  BY <1>7, JournalStep DEF Announce

(* transition_operation takes the next announcement.                       *)
LEMMA TransitionStep ==
    ASSUME TelInv, NEW c \in Commands, Transition(c) PROVE GoodStep
<1>1. PICK n \in 1..Len(emitted[c]) :
          /\ InOrder(c, n) /\ emitted[c][n] \in After(op[c].state)
          /\ op' = [op EXCEPT ![c].state = emitted[c][n], ![c].seq = n, ![c].rows = @ \cup {n}]
  BY DEF Transition
<1> DEFINE o == [op[c] EXCEPT !.state = emitted[c][n], !.seq = n, !.rows = op[c].rows \cup {n}]
<1>2. /\ cmd[c] \in Cmd0 /\ op[c] \in Op0 /\ emitted[c] \in Seq(OpState)
      /\ RowOK(cmd[c], op[c], adapter[c], emitted[c]) /\ n \in Nat /\ n = op[c].seq + 1
      /\ n <= Len(emitted[c])
  BY <1>1, Here DEF InOrder
<1>3. emitted[c][n] \in OpState
  BY <1>1, AfterTyped
<1>4. o \in Op0 /\ o.id = op[c].id /\ o.seq = n /\ o.state = emitted[c][n]
      /\ o.results = op[c].results /\ o.rows = op[c].rows \cup {n}
  BY <1>2, <1>3 DEF Op0
<1>5. op' = [op EXCEPT ![c] = o]
  BY <1>1, <1>2 DEF TelInv, Typed
<1>6. op[c] # NoOp
  BY <1>1 DEF After, Transitions, NoOp
<1>7. op[c].id # "none"
  BY <1>2, <1>6 DEF RowOK
<1>8. o # NoOp
  BY <1>4, <1>7 DEF NoOp
<1> HIDE DEF o
<1>j. Journaled(o, emitted[c])
  <2>1. op[c].seq \in Nat /\ op[c].rows = 1..op[c].seq
    BY <1>2 DEF RowOK, Journaled, Op0
  <2>2. (1..op[c].seq) \cup {n} = 1..n
    BY <1>2, <2>1
  <2> QED
    BY <1>2, <1>4, <2>1, <2>2 DEF Journaled
<1>9. RowOK(cmd[c], o, adapter[c], emitted[c])
  BY <1>2, <1>4, <1>7, <1>8, <1>j DEF RowOK
<1>10. Becomes(c, cmd[c], o, adapter[c], emitted[c]) /\ Fits(c, cmd[c], o, adapter[c], emitted[c])
  BY <1>4, <1>5, <1>8, <1>9, Here DEF Becomes, Fits, Transition
<1> QED
  BY <1>6, <1>10, JournalStep DEF Transition

(* create_terminal_result needs an operation.                              *)
LEMMA ResultStep ==
    ASSUME TelInv, NEW c \in Commands, TerminalResult(c) PROVE GoodStep
<1>1. PICK s \in {"ODOO_RESULT_PENDING", "READBACK_MISMATCH"} :
          op' = [op EXCEPT ![c].state = s, ![c].results = @ + 1]
  BY DEF TerminalResult
<1>2. /\ cmd[c] \in Cmd0 /\ op[c] \in Op0 /\ op[c].results \in Nat
      /\ RowOK(cmd[c], op[c], adapter[c], emitted[c])
  BY Here DEF Op0
<1>3. s \in OpState
  BY DEF OpState, Transitions
<1>4. PICK n \in Nat : n = op[c].results + 1
  BY <1>2
<1> DEFINE o == [op[c] EXCEPT !.state = s, !.results = n]
<1>5. o \in Op0 /\ o.id = op[c].id /\ o.results = n /\ o.seq = op[c].seq /\ o.rows = op[c].rows
  BY <1>2, <1>3 DEF Op0
<1>n. n > 0
  BY <1>2, <1>4
<1>6. op' = [op EXCEPT ![c] = o]
  BY <1>1, <1>2, <1>4 DEF TelInv, Typed
<1>7. op[c].id # "none" /\ op[c] # NoOp
  BY <1>2 DEF RowOK, TerminalResult
<1>8. o # NoOp
  BY <1>5, <1>7 DEF NoOp
<1> HIDE DEF o
<1>j. Journaled(o, emitted[c])
  BY <1>2, <1>5, <1>n DEF RowOK, Journaled
<1>9. RowOK(cmd[c], o, adapter[c], emitted[c])
  BY <1>2, <1>5, <1>7, <1>8, <1>j DEF RowOK
<1>10. Becomes(c, cmd[c], o, adapter[c], emitted[c]) /\ Fits(c, cmd[c], o, adapter[c], emitted[c])
  BY <1>5, <1>6, <1>8, <1>9, Here DEF Becomes, Fits, TerminalResult
<1> QED
  BY <1>7, <1>10, JournalStep DEF TerminalResult

(* A request under way arrives.                                            *)
LEMMA ArriveStep ==
    ASSUME TelInv, NEW c \in Commands, Arrive(c) PROVE GoodStep
<1>1. RowOK(cmd[c], op[c], "applied", emitted[c])
  BY Here DEF RowOK, Arrive
<1>2. Becomes(c, cmd[c], op[c], "applied", emitted[c]) /\ Fits(c, cmd[c], op[c], "applied", emitted[c])
  BY <1>1, Here DEF Becomes, Fits, Arrive
<1> QED
  BY <1>2, JournalStep DEF Arrive

(* A lease runs out or is renewed: no state changes.                       *)
LEMMA LeaseStep ==
    ASSUME TelInv, NEW c \in Commands, NEW b \in BOOLEAN,
           Store(c, [cmd[c] EXCEPT !.live = b]),
           UNCHANGED <<op, tel, adapter, emitted>>
    PROVE  GoodStep
<1> DEFINE r == [cmd[c] EXCEPT !.live = b]
<1>1. r \in Cmd0 /\ RowOK(r, op[c], adapter[c], emitted[c]) /\ Sound(cmd[c], r)
  BY Here, Leased
<1>2. Becomes(c, r, op[c], adapter[c], emitted[c]) /\ Fits(c, r, op[c], adapter[c], emitted[c])
  BY <1>1, Here DEF Becomes, Fits, Store
<1> HIDE DEF r
<1> QED
  BY <1>2, JournalStep

-----------------------------------------------------------------------------

(* What the invariant says of a worker that is not idle.                   *)
LEMMA InHand ==
    ASSUME TelInv, NEW w \in TelWorkers, tel[w].pc # "idle"
    PROVE  /\ tel[w] \in Worker0 /\ tel[w].c \in Commands
           /\ Relies(tel[w], cmd[tel[w].c], op[tel[w].c], adapter[tel[w].c])
BY DEF TelInv, Typed, WorkerOK

(* claim_authorized names the lease by an attempt nobody else has in hand. *)
LEMMA ClaimStep ==
    ASSUME TelInv, NEW w \in TelWorkers, NEW c \in Commands, Claim(w, c)
    PROVE  GoodStep
<1> DEFINE row == cmd[c]
<1>1. /\ row \in Cmd0 /\ RowOK(row, op[c], adapter[c], emitted[c])
      /\ row.state \in Active /\ row.attempts \in Nat
  BY Here DEF Claim, Claimable, Active, Cmd0
<1>2. PICK n \in Nat : n = row.attempts + 1
  BY <1>1
<1> DEFINE r == [row EXCEPT !.state = "SUBMITTING", !.attempts = n,
                            !.owner = n, !.live = TRUE]
           t == [Idle EXCEPT !.pc = "load", !.c = c, !.own = n]
<1>3. cmd' = [cmd EXCEPT ![c] = r] /\ tel' = [tel EXCEPT ![w] = t]
  BY <1>2 DEF Claim, Store, Become
<1>4. r \in Cmd0 /\ r.state = "SUBMITTING" /\ r.owner = n /\ r.attempts = n
      /\ r.auth = row.auth
  BY <1>1 DEF Cmd0, CmdState
<1>5. t \in Worker0 /\ t.pc = "load" /\ t.c = c /\ t.own = n
  BY DEF Worker0, Idle, Pc, Result
<1> HIDE DEF r, t
<1>6. RowOK(r, op[c], adapter[c], emitted[c])
  BY <1>1, <1>2, <1>4 DEF RowOK, Active
<1>7. Sound(row, r)
  BY <1>1, <1>2, <1>4 DEF Sound, Active, Settled
<1>8. Becomes(c, r, op[c], adapter[c], emitted[c]) /\ Fits(c, r, op[c], adapter[c], emitted[c])
  BY <1>3, <1>4, <1>6, <1>7, Here DEF Becomes, Fits, Claim
<1>9. /\ cmd' \in [Commands -> Cmd0] /\ op' \in [Commands -> Op0]
      /\ adapter' \in [Commands -> {"no", "inflight", "applied"}]
      /\ emitted' \in [Commands -> Seq(OpState)] /\ cmd'[c] = r
      /\ op' = op /\ adapter' = adapter
  BY <1>8, OneCommand DEF Claim
<1>10. \A d \in Commands :
                /\ RowOK(cmd'[d], op'[d], adapter'[d], emitted'[d])
                /\ Sound(cmd[d], cmd'[d])
  BY <1>8, OneCommand
<1>11. Relies(t, r, op[c], adapter[c])
  BY <1>1, <1>2, <1>4, <1>5 DEF Relies, RowOK
<1>12. WorkerOK(t, cmd', op', adapter')
  BY <1>5, <1>9, <1>11 DEF WorkerOK
<1>13. t.c \in Commands /\ t.own > cmd[t.c].attempts
  BY <1>1, <1>2, <1>5
<1> QED
  BY <1>3, <1>5, <1>9, <1>10, <1>12, <1>13, WorkerStep

(* A step of a worker that writes nothing.                                 *)
LEMMA ReadStep ==
    ASSUME TelInv, NEW w \in TelWorkers, tel[w].pc # "idle",
           UNCHANGED <<cmd, op, adapter, emitted>>, NEW t, Become(w, t),
           \/ t = Idle
           \/ /\ t \in Worker0 /\ t.c = tel[w].c /\ t.own = tel[w].own
              /\ Relies(t, cmd[tel[w].c], op[tel[w].c], adapter[tel[w].c])
    PROVE  GoodStep
<1> DEFINE c == tel[w].c
<1>1. c \in Commands
  BY InHand
<1> HIDE DEF c
<1>2. Becomes(c, cmd[c], op[c], adapter[c], emitted[c])
      /\ Fits(c, cmd[c], op[c], adapter[c], emitted[c])
  BY <1>1, Here DEF Becomes, Fits
<1> QED
  BY <1>2, MoveStep DEF c

(* dispatch_one loads the command and its operation.                       *)
LEMMA LoadStep ==
    ASSUME TelInv, NEW w \in TelWorkers, Load(w) PROVE GoodStep
<1> DEFINE c == tel[w].c
<1>1. tel[w].pc = "load" /\ tel[w].pc # "idle"
  BY DEF Load
<1>2. /\ tel[w] \in Worker0 /\ c \in Commands
      /\ Relies(tel[w], cmd[c], op[c], adapter[c])
  BY <1>1, InHand
<1>3. PICK pc \in {"readback", "dispatch", "fail"}, res \in {"none", "permanent"} :
         /\ Outcome(w, pc, res)
         /\ pc = "readback" => op[c] # NoOp
         /\ pc = "dispatch" => op[c] = NoOp
  BY DEF Load
<1>4. PICK t : t = [tel[w] EXCEPT !.pc = pc, !.res = res]
  OBVIOUS
<1>r. pc \in Pc /\ res \in Result
  BY DEF Pc, Result
<1>5. t \in Worker0 /\ t.pc = pc /\ t.res = res /\ t.c = c /\ t.own = tel[w].own
  BY <1>2, <1>4, <1>r DEF Worker0
<1>6. Relies(t, cmd[c], op[c], adapter[c])
  BY <1>2, <1>3, <1>5 DEF Relies
<1>7. Become(w, t) /\ UNCHANGED <<cmd, op, adapter, emitted>>
  BY <1>3, <1>4 DEF Outcome, Load
<1> QED
  BY <1>1, <1>5, <1>6, <1>7, ReadStep

(* The request of client.dispatch: only an authorized command is in hand.  *)
LEMMA DispatchStep ==
    ASSUME TelInv, NEW w \in TelWorkers, Dispatch(w) PROVE GoodStep
<1> DEFINE c == tel[w].c
<1>1. tel[w].pc = "dispatch" /\ tel[w].pc # "idle"
  BY DEF Dispatch
<1>2. /\ tel[w] \in Worker0 /\ c \in Commands
      /\ Relies(tel[w], cmd[c], op[c], adapter[c])
  BY <1>1, InHand
<1>3. PICK pc \in {"persist", "fail"}, res \in {"ack", "derived", "transient", "permanent"} :
         Outcome(w, pc, res) /\ (pc = "persist" => res \in {"ack", "derived"})
  BY DEF Dispatch
<1>4. PICK t : t = [tel[w] EXCEPT !.pc = pc, !.res = res]
  OBVIOUS
<1>r. pc \in Pc /\ res \in Result
  BY DEF Pc, Result
<1>5. t \in Worker0 /\ t.pc = pc /\ t.res = res /\ t.c = c /\ t.own = tel[w].own
  BY <1>2, <1>4, <1>r DEF Worker0
<1>6. PICK a \in {adapter[c], "inflight", "applied"} :
         /\ adapter' = [adapter EXCEPT ![c] = a]
         /\ adapter[c] = "applied" => a = "applied"
  BY <1>2, Here DEF Dispatch
<1>7. Relies(t, cmd[c], op[c], a)
  BY <1>2, <1>3, <1>5 DEF Relies
<1>8. Become(w, t) /\ UNCHANGED <<cmd, op, emitted>>
  BY <1>3, <1>4 DEF Outcome, Dispatch
<1> HIDE DEF c
<1>9. RowOK(cmd[c], op[c], a, emitted[c])
  BY <1>2, <1>6, Here DEF RowOK, Relies
<1>10. Becomes(c, cmd[c], op[c], a, emitted[c]) /\ Fits(c, cmd[c], op[c], a, emitted[c])
  BY <1>2, <1>6, <1>8, <1>9, Here DEF Becomes, Fits
<1> QED
  BY <1>1, <1>5, <1>7, <1>8, <1>10, MoveStep DEF c

(* client.readback sees the desired state only of a command carried out.   *)
LEMMA ReadbackStep ==
    ASSUME TelInv, NEW w \in TelWorkers, Readback(w) PROVE GoodStep
<1> DEFINE c == tel[w].c
<1>1. tel[w].pc = "readback" /\ tel[w].pc # "idle"
  BY DEF Readback
<1>2. /\ tel[w] \in Worker0 /\ c \in Commands
      /\ Relies(tel[w], cmd[c], op[c], adapter[c])
  BY <1>1, InHand
<1>3. PICK pc \in {"finalize", "fail"}, res \in {"match", "mismatch", "transient", "permanent"} :
         Outcome(w, pc, res) /\ (res = "match" => adapter[c] = "applied")
  BY DEF Readback
<1>4. PICK t : t = [tel[w] EXCEPT !.pc = pc, !.res = res]
  OBVIOUS
<1>r. pc \in Pc /\ res \in Result
  BY DEF Pc, Result
<1>5. t \in Worker0 /\ t.pc = pc /\ t.res = res /\ t.c = c /\ t.own = tel[w].own
  BY <1>2, <1>4, <1>r DEF Worker0
<1>6. Relies(t, cmd[c], op[c], adapter[c])
  BY <1>1, <1>2, <1>3, <1>5 DEF Relies
<1>7. Become(w, t) /\ UNCHANGED <<cmd, op, adapter, emitted>>
  BY <1>3, <1>4 DEF Outcome, Readback
<1> QED
  BY <1>1, <1>5, <1>6, <1>7, ReadStep

(* _persist_submission: the worker that writes the operation holds the     *)
(* lease, so nobody else that does is about to dispatch.                   *)
LEMMA PersistStep ==
    ASSUME TelInv, NEW w \in TelWorkers, Persist(w) PROVE GoodStep
<1> DEFINE c == tel[w].c
<1>1. tel[w].pc = "persist" /\ tel[w].pc # "idle"
  BY DEF Persist
<1>2. /\ tel[w] \in Worker0 /\ c \in Commands
      /\ Relies(tel[w], cmd[c], op[c], adapter[c])
  BY <1>1, InHand
<1>3. CASE ~(Owned(w) /\ op[c].id \in {"none", tel[w].res})
  <2>1. PICK t : t = [tel[w] EXCEPT !.pc = "fail", !.res = "transient"]
    OBVIOUS
  <2>2. t \in Worker0 /\ t.pc = "fail" /\ t.c = c /\ t.own = tel[w].own
    BY <1>2, <2>1 DEF Worker0, Pc, Result
  <2>3. Relies(t, cmd[c], op[c], adapter[c])
    BY <1>2, <2>2 DEF Relies
  <2>4. Become(w, t) /\ UNCHANGED <<cmd, op, adapter, emitted>>
    BY <1>3, <2>1 DEF Outcome, Persist
  <2> QED
    BY <1>1, <2>2, <2>3, <2>4, ReadStep
<1>4. CASE Owned(w) /\ op[c].id \in {"none", tel[w].res}
  <2> DEFINE new == [NoOp EXCEPT !.id = tel[w].res,
                       !.state = IF tel[w].res = "ack" THEN "SUBMITTED" ELSE "AMBIGUOUS"]
             o == IF op[c] # NoOp THEN op[c] ELSE new
             r == [cmd[c] EXCEPT !.live = TRUE]
  <2>1. PICK t : t = [tel[w] EXCEPT !.pc = "readback", !.res = "none"]
    OBVIOUS
  <2>2. t \in Worker0 /\ t.pc = "readback" /\ t.c = c /\ t.own = tel[w].own
    BY <1>2, <2>1 DEF Worker0, Pc, Result
  <2>3. tel[w].res \in {"ack", "derived"} /\ Holds(cmd[c], tel[w])
    BY <1>1, <1>2, <1>4 DEF Relies, Owned, Holds
  <2>4. new \in Op0 /\ new.id \in {"ack", "derived"} /\ new # NoOp
        /\ new.seq = 0 /\ new.rows = {}
    <3>1. "SUBMITTED" \in OpState /\ "AMBIGUOUS" \in OpState
      BY DEF OpState
    <3> QED
      BY <2>3, <3>1 DEF Op0, NoOp
  <2>5. op[c] \in Op0 /\ cmd[c] \in Cmd0 /\ RowOK(cmd[c], op[c], adapter[c], emitted[c])
    BY <1>2, Here
  <2>6. o \in Op0 /\ o # NoOp /\ o.id # "none" /\ o.id # "registered"
    <3>1. CASE op[c] # NoOp
      BY <1>4, <2>3, <2>5, <3>1 DEF RowOK
    <3>2. CASE op[c] = NoOp
      BY <2>4, <3>2
    <3> QED
      BY <3>1, <3>2
  <2>j. Journaled(o, emitted[c])
    <3>1. CASE op[c] # NoOp
      BY <2>5, <3>1 DEF RowOK
    <3>2. CASE op[c] = NoOp
      BY <1>2, <2>4, <3>2, Here, JournaledEmpty
    <3> QED
      BY <3>1, <3>2
  <2>7. cmd' = [cmd EXCEPT ![c] = r] /\ op' = [op EXCEPT ![c] = o]
        /\ UNCHANGED <<adapter, emitted>> /\ Become(w, t)
    <3>1. op' = [op EXCEPT ![c] = o]
      <4>1. op' = IF op[c] # NoOp THEN op ELSE [op EXCEPT ![c] = new]
        BY <1>4 DEF Persist
      <4> QED
        BY <1>2, <4>1, Here
    <3> QED
      BY <1>4, <2>1, <3>1 DEF Persist, Store, Outcome
  <2> HIDE DEF new, o
  <2>8. /\ r \in Cmd0 /\ cmd[c].attempts \in Nat
        /\ r.state = cmd[c].state /\ r.owner = cmd[c].owner
        /\ r.attempts = cmd[c].attempts /\ r.auth = cmd[c].auth
    BY <2>5 DEF Cmd0
  <2> HIDE DEF r
  <2>9. RowOK(r, o, adapter[c], emitted[c]) /\ Sound(cmd[c], r)
    BY <2>3, <2>5, <2>6, <2>8, <2>j DEF RowOK, Holds, Sound
  <2>10. Relies(t, r, o, adapter[c])
    BY <1>2, <2>2, <2>6, <2>8 DEF Relies
  <2>11. Holds(r, tel[w])
    BY <2>3, <2>8 DEF Holds
  <2> HIDE DEF c
  <2>12. Becomes(c, r, o, adapter[c], emitted[c]) /\ Fits(c, r, o, adapter[c], emitted[c])
    BY <1>2, <2>6, <2>7, <2>8, <2>9, Here DEF Becomes, Fits
  <2> QED
    BY <1>1, <2>2, <2>7, <2>10, <2>11, <2>12, MoveStep DEF c
<1> QED
  BY <1>3, <1>4

(* The last transaction of dispatch_one, under the lease.                  *)
LEMMA FinalizeStep ==
    ASSUME TelInv, NEW w \in TelWorkers, Finalize(w) PROVE GoodStep
<1> DEFINE c == tel[w].c
           s == FinalState(tel[w].res)
<1>1. tel[w].pc = "finalize" /\ tel[w].pc # "idle" /\ Become(w, Idle)
      /\ UNCHANGED <<adapter, emitted>>
  BY DEF Finalize
<1>2. /\ tel[w] \in Worker0 /\ c \in Commands
      /\ Relies(tel[w], cmd[c], op[c], adapter[c])
  BY <1>1, InHand
<1>3. CASE ~Owned(w)
  BY <1>1, <1>3, ReadStep DEF Finalize
<1>4. CASE Owned(w)
  <2> DEFINE o == [op[c] EXCEPT !.state = s]
             r == [cmd[c] EXCEPT !.state = s, !.owner = 0, !.live = FALSE]
  <2>1. /\ op[c] \in Op0 /\ cmd[c] \in Cmd0 /\ RowOK(cmd[c], op[c], adapter[c], emitted[c])
        /\ cmd[c].state = "SUBMITTING" /\ op[c] # NoOp
    BY <1>1, <1>2, <1>4, Here DEF Owned, Relies
  <2>2. op[c].id # "none" /\ op[c].id # "registered"
    BY <2>1 DEF RowOK, Active
  <2>3. s \in {"ODOO_RESULT_PENDING", "RECONCILIATION_REQUIRED"}
        /\ (s = "ODOO_RESULT_PENDING" => adapter[c] = "applied")
    BY <1>1, <1>2 DEF FinalState, Relies
  <2>4. cmd' = [cmd EXCEPT ![c] = r] /\ op' = [op EXCEPT ![c] = o]
    BY <1>2, <1>4 DEF Finalize, Store, TelInv, Typed
  <2> HIDE DEF s
  <2>5. o \in Op0 /\ o.id = op[c].id /\ o.seq = op[c].seq /\ o.rows = op[c].rows
    BY <2>1, <2>3 DEF Op0, OpState
  <2>6. r \in Cmd0 /\ r.state = s /\ r.owner = 0 /\ r.attempts = cmd[c].attempts
        /\ r.auth = cmd[c].auth
    BY <2>1, <2>3 DEF Cmd0, CmdState, Settled
  <2>7. o # NoOp
    BY <2>2, <2>5 DEF NoOp
  <2> HIDE DEF o, r
  <2>8. RowOK(r, op[c], adapter[c], emitted[c]) /\ Sound(cmd[c], r)
    <3>1. r.state \notin Active /\ r.state \notin {"none", "SUBMITTING"}
          /\ cmd[c].state \notin Settled /\ cmd[c].state # "none"
          /\ (r.state = "ODOO_RESULT_PENDING" => adapter[c] = "applied" /\ op[c] # NoOp)
      BY <2>1, <2>3, <2>6 DEF Active, Settled
    <3> QED
      BY <2>1, <2>6, <3>1, Dropped
  <2>9. RowOK(r, o, adapter[c], emitted[c])
    <3>1. Journaled(o, emitted[c])
      BY <2>1, <2>2, <2>5 DEF RowOK, Journaled
    <3> QED
      BY <2>2, <2>5, <2>7, <2>8, <3>1 DEF RowOK
  <2> HIDE DEF c
  <2>10. Becomes(c, r, o, adapter[c], emitted[c]) /\ Fits(c, r, o, adapter[c], emitted[c])
    BY <1>1, <1>2, <2>4, <2>5, <2>6, <2>7, <2>8, <2>9, Here DEF Becomes, Fits
  <2> QED
    BY <1>1, <2>1, <2>10, MoveStep DEF c
<1> QED
  BY <1>3, <1>4

(* _record_failure, under the lease.                                       *)
LEMMA FailureStep ==
    ASSUME TelInv, NEW w \in TelWorkers, RecordFailure(w) PROVE GoodStep
<1> DEFINE c == tel[w].c
<1>1. tel[w].pc # "idle" /\ Become(w, Idle) /\ UNCHANGED <<op, adapter, emitted>>
  BY DEF RecordFailure
<1>2. /\ tel[w] \in Worker0 /\ c \in Commands
      /\ Relies(tel[w], cmd[c], op[c], adapter[c])
  BY <1>1, InHand
<1>3. CASE ~Owned(w)
  BY <1>1, <1>3, ReadStep DEF RecordFailure, Failed
<1>4. CASE Owned(w)
  <2>1. PICK s \in {"FAILED_PERMANENT", "FAILED_TRANSIENT"} :
           cmd' = [cmd EXCEPT ![c] = [cmd[c] EXCEPT !.owner = 0, !.live = FALSE, !.state = s]]
    BY <1>4 DEF RecordFailure, Failed, Store
  <2> DEFINE r == [cmd[c] EXCEPT !.owner = 0, !.live = FALSE, !.state = s]
  <2>2. /\ op[c] \in Op0 /\ cmd[c] \in Cmd0 /\ RowOK(cmd[c], op[c], adapter[c], emitted[c])
        /\ cmd[c].state = "SUBMITTING"
    BY <1>2, <1>4, Here DEF Owned
  <2>3. op[c].id # "registered" /\ cmd[c].auth
    BY <2>2 DEF RowOK, Active
  <2>a. s \in Active => cmd[c].auth /\ op[c].id # "registered"
    BY <2>3
  <2>4. r \in Cmd0 /\ r.state = s /\ r.owner = 0 /\ r.attempts = cmd[c].attempts
        /\ r.auth = cmd[c].auth
    BY <2>2 DEF Cmd0, CmdState, Settled
  <2>5. cmd' = [cmd EXCEPT ![c] = r]
    BY <2>1
  <2> HIDE DEF r
  <2>6. RowOK(r, op[c], adapter[c], emitted[c]) /\ Sound(cmd[c], r)
    <3>1. r.state \notin {"none", "SUBMITTING"} /\ r.state # "ODOO_RESULT_PENDING"
          /\ cmd[c].state \notin Settled /\ cmd[c].state # "none"
      BY <2>2, <2>4 DEF Settled
    <3>2. r.state \in Active => cmd[c].auth /\ op[c].id # "registered"
      BY <2>4, <2>a
    <3> QED
      BY <2>2, <2>4, <3>1, <3>2, Dropped
  <2> HIDE DEF c
  <2>7. Becomes(c, r, op[c], adapter[c], emitted[c]) /\ Fits(c, r, op[c], adapter[c], emitted[c])
    BY <1>1, <1>2, <2>4, <2>5, <2>6, Here DEF Becomes, Fits
  <2> QED
    BY <1>1, <2>7, MoveStep DEF c
<1> QED
  BY <1>3, <1>4

-----------------------------------------------------------------------------

(* The empty journal.                                                      *)
LEMMA TelInvInit == Init => TelInv
<1> SUFFICES ASSUME Init PROVE TelInv
  OBVIOUS
<1>1. NoOp \in Op0 /\ NoOp.id = "none" /\ Idle \in Worker0 /\ Idle.pc = "idle"
  BY DEF NoOp, Op0, Idle, Worker0, Pc, Result
<1>2. Typed
  <2>1. cmd \in [Commands -> Cmd0]
    BY DEF Init, Cmd0, CmdState
  <2>2. emitted \in [Commands -> Seq(OpState)]
    BY DEF Init
  <2>3. adapter \in [Commands -> {"no", "inflight", "applied"}]
    BY DEF Init
  <2> QED
    BY <1>1, <2>1, <2>2, <2>3 DEF Init, Typed
<1>3. \A c \in Commands : RowOK(cmd[c], op[c], adapter[c], emitted[c])
  <2> SUFFICES ASSUME NEW c \in Commands
               PROVE  RowOK(cmd[c], op[c], adapter[c], emitted[c])
    OBVIOUS
  <2>1. cmd[c].state = "none" /\ cmd[c].owner = 0 /\ cmd[c].attempts = 0
        /\ cmd[c].auth = FALSE /\ op[c] = NoOp /\ adapter[c] = "no"
    BY DEF Init
  <2>2. Journaled(NoOp, emitted[c])
    BY <1>2, JournaledEmpty DEF NoOp, Typed
  <2> QED
    BY <1>1, <2>1, <2>2 DEF RowOK, Active
<1>4. \A w \in TelWorkers : WorkerOK(tel[w], cmd, op, adapter)
  BY <1>1 DEF Init, WorkerOK
<1>5. \A w, v \in TelWorkers : w # v => Distinct(tel[w], tel[v])
  BY <1>1 DEF Init, Distinct
<1> QED
  BY <1>2, <1>3, <1>4, <1>5 DEF TelInv

(* Every step keeps the invariant and treats every command soundly.        *)
LEMMA TelStep ==
    ASSUME TelInv, Commands \subseteq Nat, [Next]_vars PROVE GoodStep
<1>1. CASE UNCHANGED vars
  BY <1>1, SoundRefl DEF vars, GoodStep, TelInv, Typed, RowOK, Journaled, WorkerOK, Relies, Holds, Distinct
<1>2. ASSUME NEW w \in TelWorkers, DispatchOne(w) PROVE GoodStep
  BY <1>2, ClaimStep, LoadStep, DispatchStep, PersistStep, ReadbackStep,
     FinalizeStep, FailureStep DEF DispatchOne
<1>3. ASSUME NEW w \in TelWorkers, RenewLease(w) PROVE GoodStep
  <2>1. tel[w].pc # "idle"
    BY <1>3 DEF RenewLease
  <2> QED
    BY <1>3, <2>1, InHand, LeaseStep DEF RenewLease
<1>4. ASSUME NEW w \in TelWorkers, Crash(w) PROVE GoodStep
  BY <1>4, ReadStep DEF Crash
<1>5. ASSUME NEW c \in Commands, LeaseExpires(c) \/ Pause(c) PROVE GoodStep
  BY <1>5, LeaseStep DEF LeaseExpires, Pause
<1> QED
  BY <1>1, <1>2, <1>3, <1>4, <1>5, CreateStep, CancelStep, RegisterStep,
     AnnounceStep, TransitionStep, ResultStep, ArriveStep DEF Next

(* The invariant holds throughout.                                         *)
THEOREM TelInvariant == ASSUME Commands \subseteq Nat PROVE Spec => []TelInv
<1>1. TelInv /\ [Next]_vars => TelInv'
  BY TelStep DEF GoodStep
<1> QED
  BY <1>1, TelInvInit, PTL DEF Spec

(* dispatch_one: a worker that holds the lease never dispatches a command  *)
(* the journal has an operation for, for any number of commands, workers,  *)
(* crashes and leases that run out.                                        *)
THEOREM OwnersDispatchOnce ==
    ASSUME Commands \subseteq Nat PROVE Spec => []OwnerDispatchesOnce
<1>1. TelInv => OwnerDispatchesOnce
  BY DEF TelInv, WorkerOK, Relies, Holds, OwnerDispatchesOnce, Owned
<1> QED
  BY <1>1, TelInvariant, PTL

(* transition_operation: the journal shows what the adapter announced      *)
(* under the number it stored, for any number of announcements.            *)
THEOREM JournalIsInOrder ==
    ASSUME Commands \subseteq Nat PROVE Spec => []JournalFollowsAdapter
<1>1. TelInv => JournalFollowsAdapter
  BY DEF TelInv, RowOK, Journaled, JournalFollowsAdapter
<1> QED
  BY <1>1, TelInvariant, PTL

(* A command whose result waits for Odoo was carried out and is journaled  *)
(* (the last transaction of dispatch_one).                                 *)
THEOREM ResultsAreReadBack ==
    ASSUME Commands \subseteq Nat PROVE Spec => []ResultIsReadBack
<1>1. TelInv => ResultIsReadBack
  BY DEF TelInv, RowOK, ResultIsReadBack
<1> QED
  BY <1>1, TelInvariant, PTL

(* A command create_command denied never reaches the adapter.              *)
THEOREM DeniedIsNeverSent ==
    ASSUME Commands \subseteq Nat PROVE Spec => []DeniedNeverSent
<1>1. TelInv => DeniedNeverSent
  BY DEF TelInv, RowOK, DeniedNeverSent
<1> QED
  BY <1>1, TelInvariant, PTL

(* No worker, however late, moves a settled command: _persist_submission,  *)
(* _record_failure and the last transaction all look for the lease first.  *)
THEOREM SettledCommandsStay ==
    ASSUME Commands \subseteq Nat PROVE Spec => SettledStays
<1>1. TelInv /\ [Next]_vars =>
        [\A c \in Commands : cmd[c].state \in Settled =>
            /\ cmd'[c].attempts = cmd[c].attempts
            /\ cmd'[c].state \in {cmd[c].state, "CANCELLED",
                                  "OPERATION_REGISTERED"}]_vars
  BY TelStep DEF GoodStep, Sound
<1> QED
  BY <1>1, TelInvariant, PTL DEF Spec, SettledStays

=============================================================================
