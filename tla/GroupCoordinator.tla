-------------------------- MODULE GroupCoordinator -------------------------
(***************************************************************************)
(* The coordinator of one consumer group in one broker process             *)
(* (src/coordinator.rs: GroupCoordinator; src/group.rs: GroupStore::       *)
(* commit), as concurrent requests of its clients use it.                  *)
(*                                                                         *)
(* A request looks its group's slot up in the table and keeps a counted    *)
(* reference to it until it returns.  The slot's lock is held from one     *)
(* await to the next, so a locked section is one action; only a commit     *)
(* keeps the lock across store calls.  Waiting requests sleep until a      *)
(* deadline or a notification, which an operation may send long after its  *)
(* locked section.  A request the table or the input checks refuse changes *)
(* nothing and is left out.  Stored offsets are reduced to the incarnation *)
(* and generation of the group that committed them.                        *)
(***************************************************************************)
EXTENDS GroupMembership

CONSTANTS
    Clients,        \* connections, with one request each at a time
    Slots,          \* identities of slots, reused once nobody holds them
    Operations,     \* requests the clients make
    MaxMembers,     \* MAX_GROUP_MEMBERS
    MaxTries,       \* MAX_CAS_ATTEMPTS
    MaxCalls,       \* bound: requests
    MaxFailures,    \* bound: store errors and broker replacements
    Horizon,        \* bound: time of the last request
    MaxClock        \* bound: time

ASSUME SlotsAssumption == Slots \subseteq Nat \ {0} /\ Slots # {}
ASSUME BoundsAssumption ==
    {MaxMembers, MaxTries, MaxCalls, MaxFailures, Horizon, MaxClock} \subseteq Nat

VARIABLES
    clock,
    table,          \* the slot of the group in the table of groups, or 0
    group,          \* the group in each slot
    began,          \* when the current rebalance of each slot began (history)
    used,           \* member ids given so far
    births,         \* groups founded so far (history)
    pc, slot, call, \* where each request is, the slot it holds, what it knows
    woken,          \* waiting requests that were notified
    stored,         \* the offset manifest
    late,           \* conditional writes whose caller saw an error
    outcomes,       \* results of join and sync (history)
    calls, failures

vars == <<clock, table, group, began, used, births, pc, slot, call, woken, stored, late,
          outcomes, calls, failures>>

NoOutcomes == [elected |-> {}, assigned |-> {}]

NoCall ==
    [op |-> "none", id |-> 0, gen |-> 0, offer |-> <<>>, timeouts |-> <<>>, ids |-> {},
     value |-> NoValue, now |-> 0, target |-> 0, deadline |-> 0, submitted |-> FALSE,
     changed |-> FALSE, empty |-> FALSE, rev |-> 0, tries |-> 0]

Init ==
    /\ clock = 0
    /\ table = 0
    /\ group = [s \in Slots |-> NoGroup]
    /\ began = [s \in Slots |-> 0]
    /\ used = {}
    /\ births = 0
    /\ pc = [c \in Clients |-> "idle"]
    /\ slot = [c \in Clients |-> 0]
    /\ call = [c \in Clients |-> NoCall]
    /\ woken = {}
    /\ stored = [rev |-> 0, born |-> 0, gen |-> 0]
    /\ late = {}
    /\ outcomes = NoOutcomes
    /\ calls = 0
    /\ failures = 0

----------------------------------------------------------------------------

Holders(s) == {c \in Clients : slot[c] = s}

\* Mutant: a commit releases the lock before its store calls.
FreeAlways(s) == TRUE

\* The lock of a slot is free unless a commit keeps it across its store calls.
Free(s) == \A c \in Holders(s) : pc[c] \notin {"load", "put"}

\* Requests with an enabled Notified future.
Waiting(s) == {c \in Holders(s) : pc[c] \in {"check", "sleep"}}

SetGroup(s, g) ==
    /\ group' = [group EXCEPT ![s] = g]
    /\ began' = [began EXCEPT ![s] = IF g.reb # group[s].reb THEN clock ELSE began[s]]

\* notify_waiters, if something changed; a request that returns waits no longer.
Notify(s, changed, returning) ==
    woken' = (IF changed THEN woken \cup Waiting(s) ELSE woken) \ returning

Return(c) ==
    /\ pc' = [pc EXCEPT ![c] = "idle"]
    /\ slot' = [slot EXCEPT ![c] = 0]
    /\ call' = [call EXCEPT ![c] = NoCall]

GoTo(c, where) ==
    /\ pc' = [pc EXCEPT ![c] = where]
    /\ UNCHANGED slot

(***************************************************************************)
(* The end of a heartbeat, leave or refused commit: the lock is released,  *)
(* then waiters are notified, then an empty slot is reclaimed.             *)
(***************************************************************************)
Finish(c, g) ==
    LET changed == g # group[slot[c]] IN
    IF ~changed /\ ~IsNone(g) THEN Return(c)
    ELSE /\ GoTo(c, IF changed THEN "notify" ELSE "reclaim")
         /\ call' = [call EXCEPT ![c] = [NoCall EXCEPT !.changed = changed,
                                                       !.empty = IsNone(g)]]

----------------------------------------------------------------------------

\* Ids not yet promised to a join on its way.
Unpromised ==
    Cardinality(MemberIds \ used)
      - Cardinality({c \in Clients : pc[c] = "admit" /\ call[c].id = 0})

\* A slot nobody holds.
NewSlot == CHOOSE s \in Slots : Holders(s) = {}

May(c, op) ==
    /\ op \in Operations
    /\ pc[c] = "idle"
    /\ calls < MaxCalls
    /\ clock <= Horizon

Begin(c, s, where, request) ==
    /\ slot' = [slot EXCEPT ![c] = s]
    /\ pc' = [pc EXCEPT ![c] = where]
    /\ call' = [call EXCEPT ![c] = request]
    /\ calls' = calls + 1
    /\ UNCHANGED <<clock, group, began, used, births, woken, stored, late, outcomes, failures>>

\* join_group_slot, and the time the join takes before it waits for the lock.
CallJoin(c) ==
    /\ May(c, "join")
    /\ \E id \in used \cup {0}, offer \in Offers, t \in Timeouts :
         /\ id = 0 => Unpromised > 0
         /\ \/ table # 0 /\ UNCHANGED table
            \/ table = 0 /\ id = 0 /\ table' = NewSlot
         /\ Begin(c, table', "admit", [NoCall EXCEPT !.op = "join", !.id = id, !.offer = offer,
                                                !.timeouts = t, !.now = clock])

\* The other requests find the slot or are refused.
CallSync(c) ==
    /\ May(c, "sync")
    /\ table # 0
    /\ \E id \in used, gen \in 1..MaxCalls, ids \in SUBSET used,
          v \in Values \cup {NoValue} :
         /\ gen <= group[table].gen
         /\ (ids = {}) <=> (v = NoValue)
         /\ Begin(c, table, "check", [NoCall EXCEPT !.op = "sync", !.id = id, !.gen = gen,
                                                    !.ids = ids, !.value = v])
    /\ UNCHANGED table

\* heartbeat and commit carry a generation, leave does not.
CallMember(c) ==
    /\ table # 0
    /\ \E op \in {"heartbeat", "leave", "commit"}, id \in used, gen \in 0..MaxCalls :
         /\ May(c, op)
         /\ gen <= group[table].gen
         /\ (gen = 0) <=> (op = "leave")
         /\ Begin(c, table, op, [NoCall EXCEPT !.op = op, !.id = id, !.gen = gen])
    /\ UNCHANGED table

----------------------------------------------------------------------------

\* The joins the code refuses once it holds the lock.
Refused(g, r) ==
    IF IsNone(g) THEN r.id # 0
    ELSE \/ r.id # 0 /\ r.id \notin Ids(g)
         \/ ~Compatible(g, r.id, r.offer)
         \/ r.id = 0 /\ Cardinality(Ids(g)) >= MaxMembers

\* join, first locked section: the time is the one taken before the wait.
JoinAdmit(c) ==
    LET s == slot[c]
        r == call[c]
        g == Advance(group[s], r.now)
    IN  /\ pc[c] = "admit"
        /\ Free(s)
        /\ Notify(s, g # group[s], {})
        /\ \/ /\ Refused(g, r)
              /\ SetGroup(s, g)
              /\ Return(c)
              /\ UNCHANGED <<used, births>>
           \/ /\ ~Refused(g, r)
              /\ births' = IF IsNone(g) THEN births + 1 ELSE births
              /\ \E id \in IF r.id = 0 THEN MemberIds \ used ELSE {r.id} :
                   LET h == Admit(g, id, r.offer, r.timeouts, r.now, births + 1)
                   IN  /\ used' = used \cup {id}
                       /\ SetGroup(s, h)
                       /\ call' = [call EXCEPT ![c] = [NoCall EXCEPT !.op = "join", !.id = id,
                                                                     !.target = h.reb]]
              /\ GoTo(c, "tail")
        /\ UNCHANGED <<clock, table, stored, late, outcomes, calls, failures>>

\* Mutant: it notifies only if this section changed the group.
JoinTailQuiet(c) ==
    /\ pc[c] = "tail"
    /\ Free(slot[c])
    /\ SetGroup(slot[c], Advance(group[slot[c]], clock))
    /\ Notify(slot[c], Advance(group[slot[c]], clock) # group[slot[c]], {})
    /\ GoTo(c, "check")
    /\ UNCHANGED <<clock, table, used, births, call, stored, late, outcomes, calls, failures>>

\* join, second locked section: it may end the rebalance, and always notifies.
JoinTail(c) ==
    /\ pc[c] = "tail"
    /\ Free(slot[c])
    /\ SetGroup(slot[c], Advance(group[slot[c]], clock))
    /\ Notify(slot[c], TRUE, {})
    /\ GoTo(c, "check")
    /\ UNCHANGED <<clock, table, used, births, call, stored, late, outcomes, calls, failures>>

\* Whether a join or a sync that looks at the group has its answer.
Answered(r, g) ==
    IF r.op = "join"
    THEN \/ IsNone(g) \/ g.reb # r.target \/ r.id \notin Ids(g)
         \/ g.members[r.id].result # NoResult
    ELSE ~Active(g, r.id, r.gen) \/ g.phase # "AwaitingSync"

\* Mutant: only a notification ends the wait.
SleepForever(c, g) ==
    /\ GoTo(c, "sleep")
    /\ call' = [call EXCEPT ![c].deadline = MaxClock + 1,
                            ![c].submitted = (call[c].op = "sync")]

\* Wait for the end of the phase or of the session, whichever is first.
Sleep(c, g) ==
    /\ GoTo(c, "sleep")
    /\ call' = [call EXCEPT ![c].deadline = Min({g.deadline, g.members[call[c].id].deadline}),
                            ![c].submitted = (call[c].op = "sync")]

Wake(c) ==
    /\ pc[c] = "sleep"
    /\ c \in woken \/ clock >= call[c].deadline
    /\ GoTo(c, "check")
    /\ call' = [call EXCEPT ![c].deadline = 0]
    /\ woken' = woken \ {c}
    /\ UNCHANGED <<clock, table, group, began, used, births, stored, late, outcomes, calls,
                   failures>>

Elected(g, id) ==
    [born |-> g.born, gen |-> g.members[id].result.gen, leader |-> g.members[id].result.leader,
     protocol |-> g.members[id].result.protocol]

\* join, the loop: its outcome, an error, or another wait.
JoinCheck(c) ==
    LET s == slot[c]
        r == call[c]
        g == Advance(group[s], clock)
        gone == IsNone(g) \/ g.reb # r.target \/ r.id \notin Ids(g)
    IN  /\ pc[c] = "check" /\ r.op = "join"
        /\ Free(s)
        /\ SetGroup(s, g)
        /\ Notify(s, g # group[s], IF Answered(r, g) THEN {c} ELSE {})
        /\ IF Answered(r, g) THEN Return(c) ELSE Sleep(c, g)
        /\ outcomes' = IF gone \/ ~Answered(r, g) THEN outcomes
                       ELSE [outcomes EXCEPT !.elected = @ \cup {Elected(g, r.id)}]
        /\ UNCHANGED <<clock, table, used, births, stored, late, calls, failures>>

(***************************************************************************)
(* Assignments are refused unless they come from the leader and name       *)
(* exactly the members; a stable generation keeps the ones it has.         *)
(***************************************************************************)
Invalid(g, r) ==
    IF r.id # g.leader THEN r.ids # {}
    ELSE IF g.phase = "Stable"
    THEN r.ids # {} /\ (~Exact(g, r.ids) \/ r.value # g.members[r.id].assignment)
    ELSE ~Exact(g, r.ids)

\* The group after a sync was seen for the first time.
Submitted(g, r) ==
    IF r.submitted THEN g
    ELSE IF r.id = g.leader /\ g.phase = "AwaitingSync" THEN Install(g, r.value, clock)
    ELSE Touch(g, r.id, clock)

\* sync, the loop: submit once, then the assignment, an error, or another wait.
SyncCheck(c) ==
    LET s == slot[c]
        r == call[c]
        g == Advance(group[s], clock)
        refused == \/ ~Active(g, r.id, r.gen) \/ g.phase = "Joining"
                   \/ ~r.submitted /\ Invalid(g, r)
        h == IF refused THEN g ELSE Submitted(g, r)
        returns == refused \/ h.phase = "Stable"
    IN  /\ pc[c] = "check" /\ r.op = "sync"
        /\ Free(s)
        /\ SetGroup(s, h)
        /\ Notify(s, g # group[s] \/ h.phase # g.phase, IF returns THEN {c} ELSE {})
        /\ IF IsNone(g) THEN GoTo(c, "reclaim") /\ call' = [call EXCEPT ![c] = NoCall]
           ELSE IF returns THEN Return(c)
           ELSE Sleep(c, h)
        /\ outcomes' = IF refused \/ ~returns \/ ~Settled(h, r.id) THEN outcomes
                       ELSE [outcomes EXCEPT !.assigned = @ \cup
                               {[born |-> h.born, gen |-> h.gen,
                                 value |-> h.members[r.id].assignment]}]
        /\ UNCHANGED <<clock, table, used, births, stored, late, calls, failures>>

----------------------------------------------------------------------------

\* heartbeat: a current member is heard from, also while its group rebalances.
Heartbeat(c) ==
    LET s == slot[c]
        g == Advance(group[s], clock)
    IN  /\ pc[c] = "heartbeat"
        /\ Free(s)
        /\ SetGroup(s, IF Active(g, call[c].id, call[c].gen) THEN Touch(g, call[c].id, clock)
                       ELSE g)
        /\ Finish(c, g)
        /\ UNCHANGED <<clock, table, used, births, woken, stored, late, outcomes, calls, failures>>

Leave(c) ==
    LET s == slot[c]
        g == Advance(group[s], clock)
        h == IF call[c].id \in Ids(g) THEN Without(g, call[c].id, clock) ELSE g
    IN  /\ pc[c] = "leave"
        /\ Free(s)
        /\ SetGroup(s, h)
        /\ Finish(c, h)
        /\ UNCHANGED <<clock, table, used, births, woken, stored, late, outcomes, calls, failures>>

\* A commit needs a current member of a stable generation.
MayCommit(g, r) == Active(g, r.id, r.gen) /\ Settled(g, r.id)

\* commit up to the store: an accepted one keeps the lock.
Commit(c) ==
    LET s == slot[c]
        g == Advance(group[s], clock)
    IN  /\ pc[c] = "commit"
        /\ Free(s)
        /\ SetGroup(s, g)
        /\ \/ Finish(c, g)      \* refused, or nothing to commit
           \/ /\ MayCommit(g, call[c])
              /\ GoTo(c, "load")
              /\ call' = [call EXCEPT ![c].changed = g # group[s], ![c].target = g.born]
        /\ UNCHANGED <<clock, table, used, births, woken, stored, late, outcomes, calls, failures>>

\* The lock is released after the store calls, and waiters are notified then.
Release(c) ==
    IF call[c].changed
    THEN GoTo(c, "notify") /\ call' = [call EXCEPT ![c] = [NoCall EXCEPT !.changed = TRUE]]
    ELSE Return(c)

\* GroupStore::commit, one attempt: read the manifest ...
LoadOffsets(c) ==
    /\ pc[c] = "load"
    /\ GoTo(c, "put")
    /\ call' = [call EXCEPT ![c].rev = stored.rev, ![c].tries = @ + 1]
    /\ UNCHANGED <<clock, table, group, began, used, births, woken, stored, late, outcomes,
                   calls, failures>>

Manifest(r) == [rev |-> r.rev + 1, born |-> r.target, gen |-> r.gen]

\* Whether the conditional write of a manifest finds the version it was read from.
Wins(m) == stored.rev + 1 = m.rev

\* ... and replace it, unless it changed; then try again a bounded number of times.
PutOffsets(c) ==
    /\ pc[c] = "put"
    /\ \/ Wins(Manifest(call[c])) /\ stored' = Manifest(call[c]) /\ Release(c)
       \/ /\ ~Wins(Manifest(call[c])) /\ UNCHANGED stored
          /\ \/ call[c].tries < MaxTries /\ GoTo(c, "load") /\ UNCHANGED call
             \/ call[c].tries >= MaxTries /\ Release(c)
    /\ UNCHANGED <<clock, table, group, began, used, births, woken, late, outcomes, calls,
                   failures>>

\* A store call fails; its write may have been sent and arrive later.
FailOffsets(c) ==
    /\ pc[c] \in {"load", "put"}
    /\ failures < MaxFailures
    /\ failures' = failures + 1
    /\ \/ UNCHANGED late
       \/ pc[c] = "put" /\ late' = late \cup {Manifest(call[c])}
    /\ Release(c)
    /\ UNCHANGED <<clock, table, group, began, used, births, woken, stored, outcomes, calls>>

\* A write whose caller saw an error reaches the store, or is lost.
LatePut ==
    /\ \E m \in late :
         /\ late' = late \ {m}
         /\ \/ Wins(m) /\ stored' = m
            \/ UNCHANGED stored
    /\ UNCHANGED <<clock, table, group, began, used, births, pc, slot, call, woken, outcomes,
                   calls, failures>>

----------------------------------------------------------------------------

\* Waiters are notified after the lock was released.
NotifyAfter(c) ==
    /\ pc[c] = "notify"
    /\ Notify(slot[c], TRUE, {})
    /\ IF call[c].empty THEN GoTo(c, "reclaim") /\ UNCHANGED call ELSE Return(c)
    /\ UNCHANGED <<clock, table, group, began, used, births, stored, late, outcomes, calls,
                   failures>>

\* Mutant: the slot is removed although others hold it.
ReclaimableHeld(c) == table = slot[c] /\ IsNone(group[table])

\* The table's and the caller's are the only references, and the slot is empty.
Reclaimable(c) == table = slot[c] /\ Holders(table) = {c} /\ IsNone(group[table])

\* reclaim_slot
Reclaim(c) ==
    /\ pc[c] = "reclaim"
    /\ table' = IF Reclaimable(c) THEN 0 ELSE table
    /\ Return(c)
    /\ UNCHANGED <<clock, group, began, used, births, woken, stored, late, outcomes, calls,
                   failures>>

\* sweep_reclaimable_slots, by the first join of some other group.
Sweep ==
    /\ table # 0
    /\ Holders(table) = {}
    /\ LET g == Advance(group[table], clock)
       IN  SetGroup(table, g) /\ table' = IF IsNone(g) THEN 0 ELSE table
    /\ UNCHANGED <<clock, used, births, pc, slot, call, woken, stored, late, outcomes, calls,
                   failures>>

\* The broker is replaced: membership is lost, writes on their way may arrive.
Replace ==
    /\ failures < MaxFailures
    /\ failures' = failures + 1
    /\ table' = 0
    /\ group' = [s \in Slots |-> NoGroup]
    /\ began' = [s \in Slots |-> 0]
    /\ pc' = [c \in Clients |-> "idle"]
    /\ slot' = [c \in Clients |-> 0]
    /\ call' = [c \in Clients |-> NoCall]
    /\ woken' = {}
    /\ late' = late \cup {Manifest(call[c]) : c \in {d \in Clients : pc[d] = "put"}}
    /\ UNCHANGED <<clock, used, births, stored, outcomes, calls>>

Tick ==
    /\ clock < MaxClock
    /\ clock' = clock + 1
    /\ UNCHANGED <<table, group, began, used, births, pc, slot, call, woken, stored, late,
                   outcomes, calls, failures>>

Call(c) == CallJoin(c) \/ CallSync(c) \/ CallMember(c)

Step(c) ==
    \/ JoinAdmit(c) \/ JoinTail(c) \/ JoinCheck(c) \/ SyncCheck(c) \/ Wake(c)
    \/ Heartbeat(c) \/ Leave(c)
    \/ Commit(c) \/ LoadOffsets(c) \/ PutOffsets(c)
    \/ NotifyAfter(c) \/ Reclaim(c)

Next ==
    \/ \E c \in Clients : Call(c) \/ Step(c) \/ FailOffsets(c)
    \/ LatePut \/ Sweep \/ Replace \/ Tick

\* A request can go on: it needs no lock, or a free one, and does not sleep.
Ready(c) ==
    /\ pc[c] # "idle"
    /\ pc[c] \in {"admit", "tail", "check", "heartbeat", "leave", "commit"} => Free(slot[c])
    /\ pc[c] = "sleep" => c \in woken \/ clock >= call[c].deadline

(***************************************************************************)
(* Weak fairness of time and of every request's own steps, with Ready(c)   *)
(* for the enabling condition of Step(c).  Nobody has to make requests,    *)
(* and nothing has to fail.                                                *)
(***************************************************************************)
Fairness ==
    /\ []<>(clock = MaxClock) \/ []<><<Tick>>_vars
    /\ \A c \in Clients : []<>~Ready(c) \/ []<><<Step(c)>>_vars

Spec == Init /\ [][Next]_vars /\ Fairness

----------------------------------------------------------------------------

Requests ==
    [op : {"none", "join", "sync", "heartbeat", "leave", "commit"},
     id : MemberIds \cup {0}, gen : Nat, offer : Offers \cup {<<>>},
     timeouts : Timeouts \cup {<<>>}, ids : SUBSET MemberIds, value : Values \cup {NoValue},
     now : Nat, target : Nat, deadline : Nat, submitted : BOOLEAN, changed : BOOLEAN,
     empty : BOOLEAN, rev : Nat, tries : Nat]

GroupOK(g) ==
    \/ g = NoGroup
    \/ /\ Ids(g) \in (SUBSET MemberIds) \ {{}}
       /\ g.members \in [Ids(g) -> Members]
       /\ g.leader \in Ids(g)
       /\ {g.born, g.gen, g.reb, g.deadline} \subseteq Nat
       /\ g.phase \in {"Joining", "AwaitingSync", "Stable"}

(***************************************************************************)
(* Every variable has its type; a group has members, and its leader is one *)
(* of them (src/coordinator.rs: GroupState, ensure_leader).                *)
(***************************************************************************)
TypeOK ==
    /\ {clock, births, calls, failures} \subseteq Nat
    /\ table \in Slots \cup {0}
    /\ \A s \in Slots : GroupOK(group[s]) /\ began[s] \in Nat
    /\ used \subseteq MemberIds
    /\ \A c \in Clients : slot[c] \in Slots \cup {0} /\ call[c] \in Requests
    /\ woken \subseteq Clients
    /\ late \cup {stored} \subseteq [rev : Nat, born : Nat, gen : Nat]

(***************************************************************************)
(* Members of a generation are together: outside a rebalance all of them   *)
(* have joined it and hold its outcome; they are assigned all at once, by  *)
(* the same plan, and hold nothing while they rebalance.  advance_group,   *)
(* join, leave and sync change members and phase in many orders.           *)
(***************************************************************************)
GenerationComplete ==
    \A s \in Slots : LET g == group[s] IN
        \A id \in Ids(g) :
            /\ g.phase = "Joining" => g.members[id].assignment = NoValue
            /\ g.phase # "Joining" =>
                 /\ id \in Joined(g)
                 /\ g.members[id].result.gen = g.gen
                 /\ g.members[id].result.leader = g.leader
            /\ g.phase = "Stable" =>
                 /\ g.members[id].assignment # NoValue
                 /\ g.members[id].assignment = g.members[g.leader].assignment

(***************************************************************************)
(* A group's members always share a protocol, whoever joins with another   *)
(* offer, leaves or becomes the leader: finalize_rebalance never finds     *)
(* none, which would leave the group unable to settle.                     *)
(***************************************************************************)
CommonProtocol == \A s \in Slots : IsNone(group[s]) \/ Agreed(group[s])

(***************************************************************************)
(* Requests in progress all work on the slot in the table: reclaim_slot    *)
(* and sweep_reclaimable_slots never remove one that somebody holds, so a  *)
(* group has one lock and one state.                                       *)
(***************************************************************************)
SlotUnique == \A c \in Clients : pc[c] # "idle" => slot[c] = table

(***************************************************************************)
(* All that joins and syncs of one generation return agrees on its leader, *)
(* protocol and plan, although members time out, rejoin and retry between  *)
(* the answers: "Assignments are immutable inside a generation"            *)
(* (docs/architecture.md).                                                 *)
(***************************************************************************)
GenerationAgreed ==
    /\ \A x, y \in outcomes.elected : x.born = y.born /\ x.gen = y.gen => x = y
    /\ \A x, y \in outcomes.assigned : x.born = y.born /\ x.gen = y.gen => x = y

\* Someone still has to notify the waiters of this slot.
Owed(s) ==
    \E c \in Holders(s) : pc[c] = "tail" \/ (call[c].changed /\ pc[c] \in {"load", "put", "notify"})

(***************************************************************************)
(* No wakeup is lost: a join or sync that sleeps although the group has    *)
(* its answer has been notified or is about to be.  The code enables the   *)
(* notification before it looks at the group.                              *)
(***************************************************************************)
NoLostWakeup ==
    \A c \in Clients :
        pc[c] = "sleep" /\ Answered(call[c], group[slot[c]]) => c \in woken \/ Owed(slot[c])

(***************************************************************************)
(* Offsets are fenced: what an older generation, or an older incarnation   *)
(* of the group, commits never replaces what a newer one stored, although  *)
(* writes arrive late and brokers are replaced ("preventing a stale        *)
(* generation from overwriting a replacement member's newer offset",       *)
(* docs/architecture.md).                                                  *)
(***************************************************************************)
NotOlder(m, n) == n.born > m.born \/ (n.born = m.born /\ n.gen >= m.gen)
OffsetsFenced == [][NotOlder(stored, stored')]_stored

\* Members of slot s that this step removes although neither their session ended ...
Removed(s) ==
    {id \in Ids(group[s]) \ Ids(group'[s]) : group[s].members[id].deadline > clock}

\* ... nor they left, nor the broker was replaced.
Stayed(s) ==
    {id \in Removed(s) : table' = s /\ ~\E c \in Clients : pc[c] = "leave" /\ call[c].id = id}

(***************************************************************************)
(* A member whose session lives is removed only by a rebalance that gave   *)
(* it its rebalance timeout to come back: "surviving members receive       *)
(* REBALANCE_IN_PROGRESS, rejoin, and settle on a new generation"          *)
(* (docs/goals/multi-partition-consumer-groups.md).                        *)
(***************************************************************************)
SurvivorsMayRejoin ==
    [][\A s \in Slots : \A id \in Stayed(s) :
          clock - began[s] >= group[s].members[id].timeouts.rebalance]_vars

(***************************************************************************)
(* Every request returns, although the members it waits for never answer   *)
(* (join and sync sleep until a deadline and then move the group on).      *)
(***************************************************************************)
RequestsReturn == \A c \in Clients : pc[c] # "idle" ~> pc[c] = "idle"

============================================================================
