--------------------------- MODULE RequestBroker ---------------------------
(***************************************************************************)
(* The request broker of application/agent_request_broker.c: a fixed table *)
(* of requests by which the agent asks for context or for an action, the   *)
(* people, reviewers and policies that grant or deny them, and the         *)
(* executor that consumes a grant, verifies the effect and ends it.        *)
(*                                                                         *)
(* Every operation runs under one mutex, so it is one step; an operation   *)
(* whose lock times out does nothing.  The monotonic clock restarts at a   *)
(* reset, and a reset loses the table unless a snapshot is imported.       *)
(* Names, reasons and payloads are abstracted: a request's arguments stand *)
(* for their SHA-256, an identifier for its sequence number.               *)
(***************************************************************************)
EXTENDS Integers, FiniteSets, FiniteSetsExt

CONSTANTS
    Capacity,   \* SI_AGENT_REQUEST_QUEUE_CAPACITY
    Inputs,     \* what callers ask for, see InputType
    Legacy,     \* what callers of the old entry point ask for
    Agent,      \* the principal that requests (never the one that decides)
    MinTtl, MaxTtl, DefaultTtl,
    MaxTime,    \* bound: ticks of one boot
    MaxSeq,     \* bound: requests ever created
    MaxResets   \* bound: resets of the device

\* The names in use: of keys, threads, runs, steps and arguments.
BrokerNames ==
    {"legacy"} \cup
    UNION {{in.key, in.thread, in.run, in.step, in.args} : in \in Inputs \cup Legacy}

\* What a caller passes: the fields of si_agent_request_v2_input_t that a decision looks at.
InputType ==
    [key: BrokerNames, thread: BrokerNames, run: BrokerNames, step: BrokerNames, plan: Nat,
     args: BrokerNames, kind: {"context", "action"}, risk: Nat, lease: BOOLEAN,
     reviewer: BOOLEAN, auto: BOOLEAN, through: Int, scope: 0..3, ttl: Nat]

\* What the proofs assume of the constants: well-typed requests, and whole
\* numbers for the size of the table, the times and the bounds.
BrokerBounds ==
    /\ Capacity \in Nat /\ Inputs \subseteq InputType /\ Legacy \subseteq InputType
    /\ MinTtl \in Nat /\ MaxTtl \in Nat /\ DefaultTtl \in Nat
    /\ MaxTime \in Nat /\ MaxSeq \in Nat /\ MaxResets \in Nat

VARIABLES
    slots,      \* s_requests
    nextSeq,    \* s_next_sequence
    now,        \* broker_now_ms
    snapshot,   \* the last exported snapshot
    boot,       \* resets so far
    effects,    \* history: the effects that started, until their run is retired
    called      \* history: requests cancelled before their effect, this boot

brokerVars == <<slots, nextSeq, now, snapshot, boot, effects, called>>

EmptySlot == [state |-> "empty"]

Waiting == {"reviewing", "waiting_user"}
Expires == {"requested", "evaluating", "granted"} \cup Waiting
Ended == {"completed", "failed", "denied", "expired", "cancelled", "unknown"}
Started == {"executing", "verifying"}
States == Expires \cup Ended \cup Started

\* Scopes and risks are ordered: once < step < run < thread and
\* low < medium < high < critical.
Once == 0
Step == 1
Run == 2
Thread == 3
Low == 0
Medium == 1

Places == 1..Capacity

clamp_ttl(ttl) ==
    IF ttl = 0 THEN DefaultTtl
    ELSE IF ttl < MinTtl THEN MinTtl
    ELSE IF ttl > MaxTtl THEN MaxTtl ELSE ttl

deadline_reached(deadline) == now >= deadline

remaining_ttl(deadline) == IF deadline_reached(deadline) THEN 0 ELSE deadline - now

transition_allowed(from, to) ==
    \/ from = "requested"  /\ to \in {"evaluating", "cancelled", "expired"}
    \/ from = "evaluating" /\ to \in Waiting \cup {"granted", "denied", "cancelled", "expired"}
    \/ from = "reviewing"
       /\ to \in {"waiting_user", "granted", "denied", "cancelled", "expired"}
    \/ from = "waiting_user" /\ to \in {"granted", "denied", "cancelled", "expired"}
    \/ from = "granted" /\ to \in {"executing", "cancelled", "expired"}
    \/ from = "executing" /\ to \in {"verifying", "failed", "unknown"}
    \/ from = "verifying" /\ to \in {"completed", "failed", "unknown"}

set_state(r, next) ==
    IF transition_allowed(r.state, next)
    THEN [r EXCEPT !.state = next, !.consumed = @ \/ next = "executing",
                   !.granted = IF next = "granted" THEN boot ELSE @]
    ELSE r

\* Every operation but four first expires what is past its deadline.
expire_all ==
    [s \in Places |->
        IF slots[s].state \in Expires /\ deadline_reached(slots[s].expires)
        THEN set_state(slots[s], "expired") ELSE slots[s]]

Used(table) == {s \in Places : table[s] # EmptySlot}

find_by_id(table, id) == {s \in Used(table) : table[s].id = id}

find_idempotency(table, key) == {s \in Used(table) : table[s].in.key = key}

\* Mutant: a terminal record is evicted when the table is full.
AllocateEvicts(table) ==
    {s \in Places : table[s].state \in Ended \cup {"empty"}}

\* A terminal record is never evicted: it is the tombstone of its key.
allocate_slot(table) == {s \in Places : table[s] = EmptySlot}

resource_auto_approved(in) == in.risk = Low /\ ~in.lease /\ in.auto

binding_matches(b, in) ==
    /\ <<b.thread, b.run, b.step>> = <<in.thread, in.run, in.step>>
    /\ <<b.plan, b.key, b.args>> = <<in.plan, in.key, in.args>>

ThreadAllowed(in) == in.kind = "context" /\ in.risk = Low /\ ~in.lease

SameWithin(scope, a, b) ==
    /\ scope = Step => <<a.thread, a.run, a.step>> = <<b.thread, b.run, b.step>>
    /\ scope = Run => <<a.thread, a.run>> = <<b.thread, b.run>>
    /\ scope = Thread => a.thread = b.thread

grant_scope_matches(g, in) ==
    /\ g.state = "completed" /\ g.scope # Once /\ ~deadline_reached(g.expires)
    /\ <<g.in.kind, g.in.risk, g.in.lease, g.in.plan, g.in.args, g.in.auto>>
         = <<in.kind, in.risk, in.lease, in.plan, in.args, in.auto>>
    /\ SameWithin(g.scope, g.in, in)
    /\ g.scope = Thread => g.in.kind = "context" /\ g.in.risk = Low

v2_input_valid(in) == in.plan # 0 /\ (in.scope = Thread => ThreadAllowed(in))

----------------------------------------------------------------------------
\* What a step leaves in the table, with its history: an effect starts when a
\* record's grant is consumed.
Put(table) ==
    /\ slots' = table
    /\ effects' = effects \cup
         {[id |-> table[s].id, key |-> table[s].in.key, run |-> table[s].in.run, seen |-> TRUE] :
            s \in {u \in Used(table) :
                     table[u].consumed /\ ~(slots[u] # EmptySlot /\ slots[u].consumed)}}

PutAt(table, s, r) == Put([table EXCEPT ![s] = r])

BrokerInit ==
    /\ slots = [s \in Places |-> EmptySlot]
    /\ nextSeq = 1 /\ now = 0 /\ boot = 0
    /\ snapshot = [entries |-> {}, next |-> 1]
    /\ effects = {} /\ called = {}

NewRecord(in) ==
    [id |-> nextSeq, in |-> in, state |-> "evaluating", scope |-> Once,
     expires |-> now + clamp_ttl(in.ttl), consumed |-> FALSE, granted |-> -1, root |-> nextSeq]

\* A reused grant gives no more than it was: the narrower scope, the earlier end.
Reuse(in, g) ==
    set_state([NewRecord(in) EXCEPT
                 !.scope = Min({g.scope, in.scope}), !.root = g.root,
                 !.expires = IF remaining_ttl(g.expires) < remaining_ttl(@)
                             THEN g.expires ELSE @], "granted")

Evaluate(in) ==
    LET r == NewRecord(in)
    IN  IF in.risk <= in.through \/ resource_auto_approved(in)
        THEN set_state(r, "granted")
        ELSE IF in.reviewer /\ in.risk <= Medium THEN set_state(r, "reviewing")
        ELSE set_state(r, "waiting_user")

\* si_agent_request_broker_create_v2.  A known key creates nothing, whether or
\* not the rest of the request matches (that decides the answer only).
CreateV2(in) ==
    LET table == expire_all
        grants == {s \in Used(table) : grant_scope_matches(table[s], in)}
        free == allocate_slot(table)
    IN  /\ v2_input_valid(in)
        /\ nextSeq <= MaxSeq /\ now + clamp_ttl(in.ttl) <= MaxTime
        /\ UNCHANGED <<now, snapshot, boot, called>>
        /\ IF find_idempotency(table, in.key) # {} \/ free = {}
           THEN Put(table) /\ UNCHANGED nextSeq
           ELSE /\ nextSeq' = nextSeq + 1
                /\ PutAt(table, Min(free), IF grants = {} THEN Evaluate(in)
                                           ELSE Reuse(in, table[Min(grants)]))

\* The legacy entry point: one plan, one step, a key of its own.
Create(in) ==
    CreateV2([in EXCEPT !.key = "legacy", !.thread = in.run, !.step = "legacy", !.plan = 1,
                        !.reviewer = FALSE, !.through = -1, !.scope = Once])

\* What every status query does besides reading.
Query ==
    /\ expire_all # slots
    /\ Put(expire_all) /\ UNCHANGED <<nextSeq, now, snapshot, boot, called>>

MayDecide(by, r) ==
    /\ by # Agent /\ r.state \in Waiting
    /\ \/ by = "browser"
       \/ by = "reviewer" /\ r.in.reviewer /\ r.in.risk <= Medium

DecideV2(id, by, approved, scope) ==
    LET table == expire_all
    IN  \E s \in find_by_id(table, id) :
          /\ MayDecide(by, table[s])
          /\ approved => scope <= table[s].in.scope
                         /\ (scope = Thread => ThreadAllowed(table[s].in))
          /\ PutAt(table, s,
                   IF approved THEN set_state([table[s] EXCEPT !.scope = scope], "granted")
                   ELSE set_state(table[s], "denied"))
          /\ UNCHANGED <<nextSeq, now, snapshot, boot, called>>

\* A grant is consumed by the binding it was given for; another one voids it.
Consume(id, b) ==
    LET table == expire_all
    IN  \E s \in find_by_id(table, id) :
          /\ table[s].state = "granted"
          /\ PutAt(table, s, set_state(table[s], IF binding_matches(b, table[s].in)
                                                 THEN "executing" ELSE "expired"))
          /\ UNCHANGED <<nextSeq, now, snapshot, boot, called>>

Settle(id, next) ==
    \E s \in find_by_id(slots, id) :
       /\ transition_allowed(slots[s].state, next)
       /\ PutAt(slots, s, set_state(slots[s], next))
       /\ UNCHANGED <<nextSeq, now, snapshot, boot, called>>

MarkVerifying(id) == Settle(id, "verifying")
CompleteVerified(id) == Settle(id, "completed")
MarkUnknown(id) == Settle(id, "unknown")

\* Old callers did not consume: a grant is consumed here, without its binding.
FinishRequest(id, ok) ==
    LET table == expire_all
    IN  \E s \in find_by_id(table, id) :
          /\ table[s].state \in {"granted", "executing"}
          /\ LET r == set_state(table[s], "executing")
             IN  PutAt(table, s, set_state(r, IF ok THEN "verifying" ELSE "failed"))
          /\ UNCHANGED <<nextSeq, now, snapshot, boot, called>>

\* Before its effect a request is cancelled, after it the outcome is unknown.
CancelOne(r) ==
    IF r.state \in Started THEN set_state(r, "unknown")
    ELSE IF r.state \in Expires THEN set_state(r, "cancelled") ELSE r

Called(table, at) == {table[s].id : s \in {u \in at : table[u].state \in Expires}}

CancelRequest(id) ==
    LET table == expire_all
    IN  \E s \in find_by_id(table, id) :
          /\ table[s].state \in Started \cup Expires
          /\ PutAt(table, s, CancelOne(table[s]))
          /\ called' = called \cup Called(table, {s})
          /\ UNCHANGED <<nextSeq, now, snapshot, boot>>

OfRun(table, run) == {s \in Used(table) : table[s].in.run = run}

CancelRun(run) ==
    LET table == expire_all
    IN  /\ OfRun(table, run) # {}
        /\ Put([s \in Places |-> IF s \in OfRun(table, run) THEN CancelOne(table[s]) ELSE table[s]])
        /\ called' = called \cup Called(table, OfRun(table, run))
        /\ UNCHANGED <<nextSeq, now, snapshot, boot>>

Wipe(table, run) ==
    /\ slots' = [s \in Places |-> IF s \in OfRun(table, run) THEN EmptySlot ELSE table[s]]
    /\ effects' = {e \in effects : e.run # run}
    /\ called' = called \ {table[s].id : s \in OfRun(table, run)}
    /\ UNCHANGED <<nextSeq, now, snapshot, boot>>

\* Only once every request of the run is terminal.
RetireRun(run) ==
    /\ OfRun(slots, run) # {}
    /\ \A s \in OfRun(expire_all, run) : expire_all[s].state \in Ended
    /\ Wipe(expire_all, run)

\* Whatever state its requests are in (no deadline is looked at); the states
\* they pass through are overwritten under the same lock.
TerminalizeAndRetireRun(run) ==
    /\ OfRun(slots, run) # {}
    /\ Wipe([s \in Places |-> IF s \in OfRun(slots, run) THEN CancelOne(slots[s]) ELSE slots[s]],
            run)

----------------------------------------------------------------------------
ExportSnapshot ==
    LET table == expire_all
    IN  /\ boot < MaxResets
        /\ snapshot' = [next |-> nextSeq,
                        entries |-> {[at |-> s, r |-> table[s],
                                      left |-> remaining_ttl(table[s].expires)] :
                                       s \in Used(table)}]
        /\ Put(table) /\ UNCHANGED <<nextSeq, now, boot, called>>

\* Mutant: a grant keeps what is left of its time across the reset.
RestoreKeepsGrant(e) ==
    IF e.r.state \in Started THEN [e.r EXCEPT !.state = "unknown"]
    ELSE IF e.r.state \in Expires
    THEN [e.r EXCEPT !.expires = e.left, !.state = IF e.left = 0 THEN "expired" ELSE @]
    ELSE [e.r EXCEPT !.expires = 0]

\* What a snapshot's entry becomes at the start of a boot, when the clock is 0:
\* the powered-off time is unknown, so a grant does not survive it.
Restored(e) ==
    IF e.r.state \in Started THEN [e.r EXCEPT !.state = "unknown"]
    ELSE IF e.r.state = "granted" THEN [e.r EXCEPT !.state = "expired"]
    ELSE IF e.r.state \in Expires
    THEN [e.r EXCEPT !.expires = e.left, !.state = IF e.left = 0 THEN "expired" ELSE @]
    ELSE [e.r EXCEPT !.expires = 0]

snapshot_status_valid(r) ==
    /\ r.in.plan # 0 /\ (r.scope = Thread => ThreadAllowed(r.in))
    /\ r.consumed <=> r.state \in Started \cup {"completed", "failed", "unknown"}

\* The entries come back in the order of the table, without the gaps.
Placed(entries) ==
    [s \in Places |->
        LET here == {e \in entries : Cardinality({f.at : f \in entries} \cap (1..e.at)) = s}
        IN  IF here = {} THEN EmptySlot ELSE Restored(CHOOSE e \in here : TRUE)]

\* A reset and the import of the last snapshot.  The history keeps the effects
\* whose request the snapshot holds as decided: only they have a tombstone.
\* Those it saw begin are the ones whose outcome it can tell.
Restart ==
    LET known == {e.r.id : e \in {f \in snapshot.entries : f.r.state \notin Waiting}}
        begun == {e.r.id : e \in {f \in snapshot.entries : f.r.consumed}}
    IN  /\ boot < MaxResets
        /\ \A e \in snapshot.entries : snapshot_status_valid(e.r)
        /\ boot' = boot + 1 /\ now' = 0 /\ called' = {}
        /\ slots' = Placed(snapshot.entries)
        /\ nextSeq' = Max({snapshot.next} \cup {e.r.id + 1 : e \in snapshot.entries})
        /\ effects' = {[e EXCEPT !.seen = e.id \in begun] : e \in {f \in effects : f.id \in known}}
        /\ UNCHANGED snapshot

Tick == now < MaxTime /\ now' = now + 1 /\ UNCHANGED <<slots, nextSeq, snapshot, boot, effects, called>>

----------------------------------------------------------------------------
Ids == {slots[s].id : s \in Used(slots)}
RunsOf == {in.run : in \in Inputs \cup Legacy}

BrokerNext ==
    \/ \E in \in Inputs : CreateV2(in)
    \/ \E in \in Legacy : Create(in)
    \/ \E id \in Ids :
         \/ \E by \in {"browser", "reviewer", Agent}, ok \in BOOLEAN, scope \in 0..3 :
              DecideV2(id, by, ok, scope)
         \/ \E in \in Inputs \cup Legacy : Consume(id, in)
         \/ MarkVerifying(id) \/ CompleteVerified(id) \/ MarkUnknown(id) \/ CancelRequest(id)
         \/ \E ok \in BOOLEAN : FinishRequest(id, ok)
    \/ \E run \in RunsOf : CancelRun(run) \/ RetireRun(run) \/ TerminalizeAndRetireRun(run)
    \/ Query \/ ExportSnapshot \/ Restart \/ Tick

BrokerSpec == BrokerInit /\ [][BrokerNext]_brokerVars

\* The clock runs, and the task pages and the agent poll the request's status.
BrokerFairSpec == BrokerSpec /\ WF_brokerVars(Tick) /\ WF_brokerVars(Query)

----------------------------------------------------------------------------
\* The record of a request and the table: every field has the type of
\* si_agent_request_status_t and identifiers and keys are unique in the table.
BrokerTypeOK ==
    /\ nextSeq \in 1..MaxSeq + 1 /\ now \in 0..MaxTime /\ boot \in 0..MaxResets
    /\ \A s \in Used(slots) :
         /\ slots[s].id \in 1..nextSeq - 1 /\ slots[s].state \in States
         /\ slots[s].scope \in 0..slots[s].in.scope /\ slots[s].expires \in 0..MaxTime
    /\ \A s, t \in Used(slots) :
         s # t => slots[s].id # slots[t].id /\ slots[s].in.key # slots[t].in.key

\* An idempotency key has one effect: no retry, reused grant, full table,
\* late finish or restored snapshot starts a second one until the key's run was
\* retired (the comment of allocate_slot_locked calls the record a tombstone).
NoSecondEffect ==
    \A s \in Used(slots)' :
          (slots'[s].consumed /\ ~(slots[s] # EmptySlot /\ slots[s].consumed) /\ boot' = boot) =>
             \A e \in effects : e.key # slots'[s].in.key

\* An effect starts only inside the time its grant was given for, and never
\* after its request was cancelled (consume and finish expire first; cancel and
\* cancel_run void a grant that is not consumed).
EffectIsTimely ==
    \A s \in Used(slots)' :
          (slots'[s].consumed /\ ~(slots[s] # EmptySlot /\ slots[s].consumed) /\ boot' = boot) =>
             now < slots[s].expires /\ slots[s].id \notin called

\* A request that runs on a reused grant stays inside the decision at the root
\* of the chain of grants: it ends no later, is no wider, and is for the same
\* plan, arguments and kind, in the same thread (grant_scope_matches and the
\* minimum taken in create_v2), however many times the grant is passed on.
ReuseStaysInside ==
    \A s, t \in Used(slots) :
       (slots[s].root = slots[t].id /\ s # t /\ boot = 0) =>
          /\ slots[s].expires <= slots[t].expires /\ slots[s].scope <= slots[t].scope
          /\ slots[s].in.plan = slots[t].in.plan /\ slots[s].in.args = slots[t].in.args
          /\ SameWithin(slots[t].scope, slots[t].in, slots[s].in)
          /\ slots[t].scope = Thread => slots[s].in.kind = "context"

\* No authority crosses a reset: whatever may run or is running was granted
\* since the last one, and so was the decision it was reused from
\* (import_snapshot fails closed, as its comments promise).
GrantIsOfThisBoot ==
    \A s \in Used(slots) :
       slots[s].state \in {"granted"} \cup Started =>
          /\ slots[s].granted = boot
          /\ \A t \in Used(slots) : slots[t].id = slots[s].root => slots[t].granted = boot

\* A request whose effect started is never reported as one that had none: it
\* ends completed, failed or unknown, whoever cancels it and whenever
\* (cancel, cancel_run, import_snapshot).
EffectIsNotDenied ==
    \A s \in Used(slots) :
       slots[s].id \in {e.id : e \in {f \in effects : f.seen}} =>
          slots[s].state \in Started \cup {"completed", "failed", "unknown"}

\* An approval is used once per key, inside its time, and not after it was
\* cancelled (si_agent_request_broker's consume and create_v2).
ApprovalIsUsedOnce == [][NoSecondEffect /\ EffectIsTimely]_brokerVars

\* A reused approval stays inside the decision it comes from, none crosses a
\* reset, and a request whose effect began is not reported as one without.
ApprovalStaysInside ==
    BrokerTypeOK /\ ReuseStaysInside /\ GrantIsOfThisBoot /\ EffectIsNotDenied

\* A request waits for its answer.  With a running clock and a client that
\* polls, it is decided, cancelled, expired or retired (MCProgress).
Waits(id) == \E s \in Used(slots) : slots[s].id = id /\ slots[s].state \in Waiting
=============================================================================
