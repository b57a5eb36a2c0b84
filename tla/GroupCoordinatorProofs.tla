----------------------- MODULE GroupCoordinatorProofs ----------------------
(***************************************************************************)
(* The consumer-group coordinator, for any number of clients, slots,       *)
(* members, protocols and timeouts.                                        *)
(*                                                                         *)
(* SlotInv: a request in progress works on the slot in the table, so that  *)
(* its lock serialises the operations of the group.                        *)
(*                                                                         *)
(* GroupInv: there is at most one group, of the latest birth; it is Sound, *)
(* that is, its members share a protocol and outside a rebalance hold one  *)
(* result and one plan of the group's generation (Together); and what      *)
(* joins and syncs were told about that generation is what it holds        *)
(* (Told), so a member that asks late is told the same.                    *)
(*                                                                         *)
(* NoLostWakeup is inductive beside it: a locked section that gives        *)
(* somebody an answer notifies, or leaves the request owing a              *)
(* notification.                                                           *)
(*                                                                         *)
(* OffsetsInv: a commit that talks to the store keeps its group as it was, *)
(* so what it writes, and what may arrive late, is not older than what it  *)
(* would replace.                                                          *)
(***************************************************************************)
EXTENDS GroupCoordinator, FiniteSetTheorems, SequenceTheorems, TLAPS

Busy == {"admit", "tail", "check", "sleep", "heartbeat", "leave", "commit", "load", "put",
         "notify", "reclaim"}

\* A request holds a slot exactly while it is in progress, and it is the table's.
Holding(c) ==
    \/ pc[c] = "idle" /\ slot[c] = 0
    \/ pc[c] # "idle" /\ slot[c] = table /\ table \in Slots

SlotInv ==
    /\ pc \in [Clients -> Busy \cup {"idle"}]
    /\ slot \in [Clients -> Slots \cup {0}]
    /\ table \in Slots \cup {0}
    /\ \A c \in Clients : Holding(c)

\* Without a slot in the table no slot is held.
LEMMA NoneHeld ==
    ASSUME SlotInv, table = 0, NEW s \in Slots
    PROVE  Holders(s) = {}
BY SlotsAssumption DEF SlotInv, Holding, Holders

\* A request that goes on, or returns, and leaves the table alone.
LEMMA Moves ==
    ASSUME SlotInv, NEW c \in Clients, pc[c] # "idle", table' = table,
           NEW where \in Busy, Return(c) \/ GoTo(c, where)
    PROVE  SlotInv'
<1>1. CASE Return(c)
  <2>1. pc' = [pc EXCEPT ![c] = "idle"] /\ slot' = [slot EXCEPT ![c] = 0]
    BY <1>1 DEF Return
  <2>2. QED
    BY <2>1 DEF SlotInv, Holding
<1>2. CASE GoTo(c, where)
  BY <1>2 DEF SlotInv, Holding, GoTo, Busy
<1>3. QED
  BY <1>1, <1>2

\* A request begins on the slot in the table, maybe a new one.
LEMMA Begins ==
    ASSUME SlotInv, NEW c \in Clients, pc[c] = "idle", table' \in Slots,
           table # 0 => table' = table,
           NEW where \in Busy, NEW request, Begin(c, table', where, request)
    PROVE  SlotInv'
<1>1. \A d \in Clients \ {c} : Holding(d)'
  BY SlotsAssumption DEF SlotInv, Holding, Begin, Busy
<1>2. QED
  BY <1>1 DEF SlotInv, Holding, Begin, Busy

\* The steps of requests in progress that do not touch the table.
LEMMA StepKeepsSlots ==
    ASSUME SlotInv, NEW c \in Clients,
           Step(c) \/ FailOffsets(c)
    PROVE  SlotInv'
<1>1. CASE JoinAdmit(c)
  <2>1. pc[c] # "idle" /\ table' = table /\ (Return(c) \/ GoTo(c, "tail"))
    BY <1>1 DEF JoinAdmit
  <2>2. QED
    BY <2>1, Moves DEF Busy
<1>2. CASE JoinTail(c)
  <2>1. pc[c] # "idle" /\ table' = table /\ GoTo(c, "check")
    BY <1>2 DEF JoinTail
  <2>2. QED
    BY <2>1, Moves DEF Busy
<1>3. CASE JoinCheck(c)
  <2>1. pc[c] # "idle" /\ table' = table /\ (Return(c) \/ GoTo(c, "sleep"))
    BY <1>3 DEF JoinCheck, Sleep
  <2>2. QED
    BY <2>1, Moves DEF Busy
<1>4. CASE SyncCheck(c)
  <2>1. pc[c] # "idle" /\ table' = table
    BY <1>4 DEF SyncCheck
  <2>2. Return(c) \/ GoTo(c, "sleep") \/ GoTo(c, "reclaim")
    BY <1>4 DEF SyncCheck, Sleep
  <2>3. QED
    BY <2>1, <2>2, Moves DEF Busy
<1>5. CASE Wake(c)
  <2>1. pc[c] # "idle" /\ table' = table /\ GoTo(c, "check")
    BY <1>5 DEF Wake
  <2>2. QED
    BY <2>1, Moves DEF Busy
<1>6. CASE Heartbeat(c) \/ Leave(c)
  <2>1. pc[c] # "idle" /\ table' = table
    BY <1>6 DEF Heartbeat, Leave
  <2>2. Return(c) \/ GoTo(c, "notify") \/ GoTo(c, "reclaim")
    BY <1>6 DEF Heartbeat, Leave, Finish
  <2>3. QED
    BY <2>1, <2>2, Moves DEF Busy
<1>7. CASE Commit(c)
  <2>1. pc[c] # "idle" /\ table' = table
    BY <1>7 DEF Commit
  <2>2. Return(c) \/ GoTo(c, "notify") \/ GoTo(c, "reclaim") \/ GoTo(c, "load")
    BY <1>7 DEF Commit, Finish
  <2>3. QED
    BY <2>1, <2>2, Moves DEF Busy
<1>8. CASE LoadOffsets(c)
  <2>1. pc[c] # "idle" /\ table' = table /\ GoTo(c, "put")
    BY <1>8 DEF LoadOffsets
  <2>2. QED
    BY <2>1, Moves DEF Busy
<1>9. CASE PutOffsets(c) \/ FailOffsets(c)
  <2>1. pc[c] # "idle" /\ table' = table
    BY <1>9 DEF PutOffsets, FailOffsets
  <2>2. Return(c) \/ GoTo(c, "load") \/ GoTo(c, "notify")
    BY <1>9 DEF PutOffsets, FailOffsets, Release
  <2>3. QED
    BY <2>1, <2>2, Moves DEF Busy
<1>10. CASE NotifyAfter(c)
  <2>1. pc[c] # "idle" /\ table' = table /\ (Return(c) \/ GoTo(c, "reclaim"))
    BY <1>10 DEF NotifyAfter
  <2>2. QED
    BY <2>1, Moves DEF Busy
<1>11. CASE Reclaim(c)
  <2>1. CASE ~Reclaimable(c)
    <3>1. pc[c] # "idle" /\ table' = table /\ Return(c)
      BY <1>11, <2>1 DEF Reclaim
    <3>2. QED
      BY <3>1, Moves DEF Busy
  <2>2. CASE Reclaimable(c)
    <3>1. table \in Slots /\ \A d \in Clients \ {c} : slot[d] # table
      BY <1>11, <2>2 DEF Reclaim, Reclaimable, Holders, SlotInv, Holding
    <3>2. \A d \in Clients \ {c} : pc[d] = "idle" /\ slot[d] = 0
      BY <3>1 DEF SlotInv, Holding
    <3>3. QED
      BY <1>11, <2>2, <3>2 DEF Reclaim, Return, SlotInv, Holding
  <2>3. QED
    BY <2>1, <2>2
<1>12. QED
  BY <1>1, <1>2, <1>3, <1>4, <1>5, <1>6, <1>7, <1>8, <1>9, <1>10, <1>11 DEF Step

\* Beginning a request keeps the invariant; a first join installs a free slot.
LEMMA CallKeepsSlots ==
    ASSUME SlotInv, NEW c \in Clients, Call(c)
    PROVE  SlotInv'
<1>1. CASE CallJoin(c)
  <2>1. NewSlot \in Slots \/ table # 0
    BY NoneHeld, SlotsAssumption DEF NewSlot
  <2>2. (table # 0 => table' = table) /\ (table = 0 => table' = NewSlot)
    BY <1>1 DEF CallJoin
  <2>3. table' \in Slots
    BY <2>1, <2>2 DEF SlotInv
  <2>4. pc[c] = "idle"
    BY <1>1 DEF CallJoin, May
  <2>5. \E request : Begin(c, table', "admit", request)
    BY <1>1 DEF CallJoin
  <2>6. QED
    BY <2>2, <2>3, <2>4, <2>5, Begins DEF Busy
<1>2. CASE CallSync(c)
  <2>1. table' = table /\ table \in Slots /\ pc[c] = "idle"
    BY <1>2 DEF CallSync, May, SlotInv
  <2>2. \E request : Begin(c, table, "check", request)
    BY <1>2 DEF CallSync
  <2>3. QED
    BY <2>1, <2>2, Begins DEF Busy
<1>3. CASE CallMember(c)
  <2>1. table' = table /\ table \in Slots /\ pc[c] = "idle"
    BY <1>3 DEF CallMember, May, SlotInv
  <2>2. \E op \in {"heartbeat", "leave", "commit"} : \E request : Begin(c, table, op, request)
    BY <1>3 DEF CallMember
  <2>3. QED
    BY <2>1, <2>2, Begins DEF Busy
<1>4. QED
  BY <1>1, <1>2, <1>3 DEF Call

\* Sweeping, replacing the broker, late writes and time.
LEMMA OthersKeepSlots ==
    ASSUME SlotInv, LatePut \/ Sweep \/ Replace \/ Tick \/ UNCHANGED vars
    PROVE  SlotInv'
<1>1. CASE LatePut \/ Tick \/ UNCHANGED vars
  BY <1>1 DEF LatePut, Tick, vars, SlotInv, Holding
<1>2. CASE Sweep
  <2>1. \A c \in Clients : pc[c] = "idle" /\ slot[c] = 0
    BY <1>2 DEF Sweep, Holders, SlotInv, Holding
  <2>2. pc' = pc /\ slot' = slot /\ table' \in {table, 0}
    BY <1>2 DEF Sweep
  <2>3. QED
    BY <2>1, <2>2 DEF SlotInv, Holding
<1>3. CASE Replace
  BY <1>3 DEF Replace, SlotInv, Holding
<1>4. QED
  BY <1>1, <1>2, <1>3

(***************************************************************************)
(* Every request in progress holds the slot in the table, whatever joins   *)
(* create, reclaim_slot and sweep_reclaimable_slots remove and broker      *)
(* replacements drop.                                                      *)
(***************************************************************************)
THEOREM OneSlotPerGroup == Spec => []SlotUnique
<1>1. Init => SlotInv
  BY DEF Init, SlotInv, Holding
<1>2. SlotInv /\ [Next]_vars => SlotInv'
  BY CallKeepsSlots, StepKeepsSlots, OthersKeepSlots DEF Next
<1>3. SlotInv => SlotUnique
  BY DEF SlotInv, Holding, SlotUnique
<1>4. QED
  BY <1>1, <1>2, <1>3, PTL DEF Spec

\* ------------------------------------------------------------ the invariants
Phases == {"Joining", "AwaitingSync", "Stable"}

\* A group with these members.
GroupsOf(ids) ==
    [born : Nat, gen : Nat, reb : Nat, phase : Phases, deadline : Nat, leader : ids,
     members : [ids -> Members]]

\* Some protocol is offered by all members.
Share(g) == \E p \in Protocols : \A id \in Ids(g) : p \in Range(g.members[id].offer)

\* Outside a rebalance the members are together; in one, they hold nothing.
Together(g) ==
    \A id \in Ids(g) :
        LET m == g.members[id] IN
        /\ g.phase = "Joining" => m.assignment = NoValue /\ m.result = NoResult
        /\ g.phase # "Joining" =>
             /\ m.joined = g.reb
             /\ m.result # NoResult
             /\ m.result = g.members[g.leader].result
             /\ m.result.gen = g.gen /\ m.result.leader = g.leader
        /\ g.phase = "AwaitingSync" => m.assignment = NoValue
        /\ g.phase = "Stable" =>
             m.assignment # NoValue /\ m.assignment = g.members[g.leader].assignment

\* What the joins and syncs of the group's generation were told is what it holds.
Told(g, told) ==
    /\ \A x \in told.elected :
         x.born = g.born => /\ x.gen <= g.gen
                            /\ x.gen = g.gen /\ g.phase # "Joining" => x = Elected(g, g.leader)
    /\ \A y \in told.assigned :
         y.born = g.born =>
             /\ y.gen <= g.gen
             /\ y.gen = g.gen => g.phase # "AwaitingSync"
             /\ y.gen = g.gen /\ g.phase = "Stable" =>
                  y.value = g.members[g.leader].assignment

\* A group whose members may not be together any more, before it rebalances.
Formed(g) == Ids(g) \subseteq MemberIds /\ g \in GroupsOf(Ids(g)) /\ Share(g)

Sound(g) == Formed(g) /\ Together(g)

\* What a request knows when it holds the lock.
Asked(c) ==
    /\ pc[c] = "admit" => call[c].offer \in Offers /\ call[c].timeouts \in Timeouts
    /\ call[c].op = "sync" => (call[c].ids = {} <=> call[c].value = NoValue)

Manifests == [rev : Nat, born : Nat, gen : Nat]

Promises ==
    [elected : SUBSET [born : Nat, gen : Nat, leader : MemberIds,
                       protocol : {<<p>> : p \in Protocols}],
     assigned : SUBSET [born : Nat, gen : Nat, value : Values]]

TypeInv ==
    /\ clock \in Nat /\ births \in Nat /\ calls \in Nat /\ failures \in Nat
    /\ DOMAIN group = Slots
    /\ began \in [Slots -> Nat]
    /\ used \subseteq MemberIds
    /\ call \in [Clients -> Requests]
    /\ woken \subseteq Clients
    /\ stored \in Manifests /\ late \subseteq Manifests
    /\ outcomes \in Promises

\* The one group there is.
OneGroup ==
    \A s \in Slots : group[s] # NoGroup =>
        s = table /\ Sound(group[s]) /\ group[s].born = births /\ Told(group[s], outcomes)

Past ==
    /\ \A x \in outcomes.elected \cup outcomes.assigned : x.born <= births
    /\ \A x, y \in outcomes.elected : x.born = y.born /\ x.gen = y.gen => x = y
    /\ \A x, y \in outcomes.assigned : x.born = y.born /\ x.gen = y.gen => x = y

\* The invariant of the group, without the table's and the slots'.
GroupParts ==
    /\ TypeInv
    /\ \A c \in Clients : Asked(c)
    /\ OneGroup
    /\ Past

GroupInv == SlotInv /\ GroupParts

\* A step never takes a group back: it goes on, ends, or a later one is founded.
Onward ==
    /\ births <= births'
    /\ \A s \in Slots : group'[s] # NoGroup =>
         \/ births < group'[s].born
         \/ /\ group[s] # NoGroup
            /\ group'[s].born = group[s].born /\ group[s].gen <= group'[s].gen

\* A manifest of this group, or of one before it.
Dated(m) ==
    /\ m.born <= births
    /\ \A s \in Slots : group[s] # NoGroup /\ m.born = group[s].born => m.gen <= group[s].gen

Storing(c) == pc[c] \in {"load", "put"}

\* A commit that talks to the store keeps the lock, so its group stays as it was.
CommitsHold ==
    /\ \A c \in Clients : Storing(c) =>
         /\ group[slot[c]] # NoGroup
         /\ call[c].target = group[slot[c]].born /\ call[c].gen = group[slot[c]].gen
    /\ \A c, d \in Clients : Storing(c) /\ Storing(d) => c = d

\* What it replaces is what it read, or newer.
ReadsPast == \A c \in Clients : pc[c] = "put" => call[c].rev <= stored.rev

\* A late write that could still win is not older than what it would replace.
StoreDated ==
    /\ Dated(stored)
    /\ \A m \in late :
         /\ Dated(m)
         /\ m.rev <= stored.rev + 1
         /\ m.rev = stored.rev + 1 => NotOlder(stored, m)

OffsetsInv == CommitsHold /\ ReadsPast /\ StoreDated

\* ------------------------------------------------- least and greatest elements
\* Every nonempty set of naturals has its least element, Min.
LEMMA Smallest ==
    ASSUME NEW T \in SUBSET Nat, T # {}
    PROVE  Min(T) \in T /\ \A i \in T : Min(T) <= i
<1>1. IsWellFoundedOn(OpToRel(<, Nat), Nat)
  BY NatLessThanWellFounded
<1>2. PICK i \in T : \A j \in T : ~(<<j, i>> \in OpToRel(<, Nat))
  BY <1>1, WFMin
<1>3. ASSUME NEW a \in Nat, NEW b \in Nat, a < b
      PROVE  <<a, b>> \in OpToRel(<, Nat)
  BY <1>3, Zenon DEF OpToRel
<1>4. \A j \in T : ~(j < i)
  BY <1>2, <1>3, Zenon
<1>5. \E x \in T : \A y \in T : x <= y
  BY <1>4
<1>6. PICK m : m = Min(T)
  OBVIOUS
<1>7. m \in T /\ \A y \in T : m <= y
  BY ONLY <1>5, <1>6, Zenon DEF Min
<1> QED BY <1>6, <1>7

\* Every nonempty finite set of naturals has its greatest element, Max.
LEMMA Greatest ==
    ASSUME NEW S \in SUBSET Nat, IsFiniteSet(S), S # {}
    PROVE  Max(S) \in S /\ \A i \in S : i <= Max(S)
<1> DEFINE Topped(U) == \E x \in U : \A y \in U : x >= y
           Bad == {U \in SUBSET S : U # {} /\ ~Topped(U)}
<1>1. CASE S \in Bad
  <2>1. FiniteSubsetsOf(S) = SUBSET S
    BY FS_FiniteSubsetsOfFinite
  <2>2. IsWellFoundedOn(StrictSubsetOrdering(S), SUBSET S)
    BY <2>1, FS_StrictSubsetOrderingWellFounded
  <2>3. PICK U \in Bad : \A V \in Bad : ~(<<V, U>> \in StrictSubsetOrdering(S))
    <3>1. Bad \subseteq SUBSET S /\ Bad # {}
      BY <1>1
    <3> HIDE DEF Bad
    <3> QED BY <2>2, <3>1, WFMin
  <2>4. PICK x \in U : TRUE
    OBVIOUS
  <2>5. PICK V : V = U \ {x}
    OBVIOUS
  <2>6. V \notin Bad
    <3>1. V \in SUBSET S /\ U \in SUBSET S /\ V \subseteq U /\ V # U
      BY <2>4, <2>5
    <3>2. <<V, U>> \in StrictSubsetOrdering(S)
      BY ONLY <3>1, Zenon DEF StrictSubsetOrdering
    <3> QED BY <2>3, <3>2
  <2>7. V = {} \/ Topped(V)
    BY <2>5, <2>6
  <2>8. CASE V = {}
    <3>1. \A y \in U : x >= y
      BY <2>4, <2>5, <2>8
    <3> QED BY <2>4, <3>1
  <2>9. CASE Topped(V)
    <3>1. PICK z \in V : \A y \in V : z >= y
      BY <2>9
    <3>2. x \in Nat /\ z \in Nat /\ z \in U
      BY <2>4, <2>5, <3>1
    <3>3. CASE x >= z
      <4>1. \A y \in V : y \in Nat
        BY <2>5
      <4>2. \A y \in U : x >= y
        BY <2>5, <3>1, <3>2, <3>3, <4>1
      <4> QED BY <2>4, <4>2
    <3>4. CASE z >= x
      <4>1. \A y \in U : z >= y
        BY <2>5, <3>1, <3>4
      <4> QED BY <3>2, <4>1
    <3> QED BY <3>2, <3>3, <3>4
  <2> QED BY <2>7, <2>8, <2>9
<1>2. CASE S \notin Bad
  <2>1. \E x \in S : \A y \in S : x >= y
    BY <1>2
  <2>2. PICK m : m = Max(S)
    OBVIOUS
  <2>3. m \in S /\ \A y \in S : m >= y
    BY ONLY <2>1, <2>2, Zenon DEF Max
  <2> QED BY <2>2, <2>3
<1> QED BY <1>1, <1>2

\* ------------------------------------------------------ the moves of a group
\* What a locked section leaves of a group: none, or a sound one of the same
\* incarnation, of no older a generation, that contradicts nobody's answer.
Continues(h, g) ==
    \/ h = NoGroup
    \/ /\ Sound(h)
       /\ h.born = g.born /\ h.gen >= g.gen
       /\ \A told \in Promises : Told(g, told) => Told(h, told)

\* The longest rebalance timeout is one.
LEMMA LongestType ==
    ASSUME NEW ids \in SUBSET MemberIds, ids # {}, NEW ms \in [ids -> Members]
    PROVE  Longest(ms) \in Nat
<1> DEFINE f == [id \in ids |-> ms[id].timeouts.rebalance]
           T == {ms[id].timeouts.rebalance : id \in DOMAIN ms}
<1>1. \A id \in ids : ms[id].timeouts.rebalance \in Nat
  BY TimeoutsAssumption DEF Members
<1>2. T \in SUBSET Nat /\ T # {}
  BY <1>1
<1>3. f \in Surjection(ids, T)
  BY DEF Surjection
<1>4. IsFiniteSet(ids)
  BY MemberIdsAssumption, FS_Subset
<1> HIDE DEF f
<1>5. IsFiniteSet(T)
  <2> HIDE DEF T
  <2> QED BY <1>3, <1>4, FS_Surjection
<1>6. Longest(ms) = Max(T)
  BY Zenon DEF Longest
<1> HIDE DEF T
<1> QED BY <1>2, <1>5, <1>6, Greatest

\* The members of a group without members are no function's domain.
LEMMA NoGroupEmpty == Ids(NoGroup) = {} /\ NoGroup.phase = "None"
BY DEF Ids, NoGroup

\* The parts of a group that has members.
LEMMA FormedFacts ==
    ASSUME NEW g, Formed(g)
    PROVE  /\ g # NoGroup /\ ~IsNone(g) /\ g.phase \in Phases
           /\ g.leader \in Ids(g) /\ Ids(g) # {} /\ Ids(g) \in SUBSET MemberIds
           /\ g.members \in [Ids(g) -> Members]
           /\ g.born \in Nat /\ g.gen \in Nat /\ g.reb \in Nat /\ g.deadline \in Nat
           /\ g.leader \in MemberIds
           /\ g = [born |-> g.born, gen |-> g.gen, reb |-> g.reb, phase |-> g.phase,
                   deadline |-> g.deadline, leader |-> g.leader, members |-> g.members]
<1>1. g \in GroupsOf(Ids(g)) /\ Ids(g) \in SUBSET MemberIds
  BY DEF Formed
<1>2. g.phase # NoGroup.phase
  BY <1>1, NoGroupEmpty DEF GroupsOf, Phases
<1> QED BY <1>1, <1>2, NoGroupEmpty DEF GroupsOf, IsNone, Phases

\* Removing members leaves a formed group, in the same phase and generation.
LEMMA KeepFormed ==
    ASSUME NEW g, Formed(g), NEW ids \in SUBSET Ids(g), ids # {}, NEW h, h = Keep(g, ids)
    PROVE  /\ Formed(h) /\ Ids(h) = ids
           /\ h.born = g.born /\ h.gen = g.gen /\ h.reb = g.reb /\ h.phase = g.phase
           /\ \A id \in ids : h.members[id] = g.members[id]
<1>1. PICK l : l = IF g.leader \in ids THEN g.leader ELSE Min(ids)
  OBVIOUS
<1>2. l \in ids
  BY <1>1, FormedFacts, Smallest, MemberIdsAssumption
<1>3. h = [g EXCEPT !.members = Restrict(g.members, ids), !.leader = l]
  BY <1>1, Zenon DEF Keep
<1>4. PICK ms : ms = Restrict(g.members, ids)
  OBVIOUS
<1>5. ms \in [ids -> Members] /\ \A id \in ids : ms[id] = g.members[id]
  BY <1>4, FormedFacts DEF Restrict
<1>6. h = [born |-> g.born, gen |-> g.gen, reb |-> g.reb, phase |-> g.phase,
           deadline |-> g.deadline, leader |-> l, members |-> ms]
  BY <1>3, <1>4, FormedFacts
<1>7. Ids(h) = ids /\ h \in GroupsOf(Ids(h)) /\ ids \subseteq MemberIds
  BY <1>2, <1>5, <1>6, FormedFacts DEF GroupsOf, Ids
<1>8. Share(h)
  BY <1>5, <1>6, <1>7 DEF Share, Formed
<1> QED BY <1>5, <1>6, <1>7, <1>8 DEF Formed

\* While a group rebalances nothing it answered can be contradicted.
LEMMA ToldJoining ==
    ASSUME NEW g, NEW h, NEW told \in Promises, Told(g, told), h.phase = "Joining",
           h.born = g.born, h.gen = g.gen
    PROVE  Told(h, told)
BY DEF Told

\* start_rebalance: a formed group becomes a sound one that rejoins.
LEMMA StartRebalanceSound ==
    ASSUME NEW g, Formed(g), NEW now \in Nat, NEW h, h = StartRebalance(g, now)
    PROVE  /\ Sound(h) /\ Ids(h) = Ids(g)
           /\ h.born = g.born /\ h.gen = g.gen /\ h.reb = g.reb + 1 /\ h.phase = "Joining"
           /\ \A id \in Ids(g) : h.members[id].offer = g.members[id].offer
           /\ Continues(h, g)
<1>1. PICK ids : ids = Ids(g)
  OBVIOUS
<1>2. PICK ms : ms = [id \in Ids(g) |-> [g.members[id] EXCEPT !.assignment = NoValue,
                                                              !.result = NoResult]]
  OBVIOUS
<1>3. \A id \in ids : ms[id] \in Members /\ ms[id].offer = g.members[id].offer
                      /\ ms[id].assignment = NoValue /\ ms[id].result = NoResult
  <2> SUFFICES ASSUME NEW id \in ids
               PROVE  /\ ms[id] \in Members /\ ms[id].offer = g.members[id].offer
                      /\ ms[id].assignment = NoValue /\ ms[id].result = NoResult
    OBVIOUS
  <2>1. PICK m \in Members : m = g.members[id]
    BY <1>1, FormedFacts
  <2>2. PICK n : n = [m EXCEPT !.assignment = NoValue, !.result = NoResult]
    OBVIOUS
  <2>3. n \in Members /\ n.offer = m.offer /\ n.assignment = NoValue /\ n.result = NoResult
    BY ONLY <2>1, <2>2 DEF Members
  <2>4. ms[id] = n
    BY <1>1, <1>2, <2>1, <2>2
  <2> QED BY ONLY <2>1, <2>3, <2>4
<1>4. ms \in [ids -> Members]
  BY ONLY <1>1, <1>2, <1>3
<1>5. PICK d \in Nat : d = now + Longest(g.members)
  BY LongestType, FormedFacts
<1>6. h = [g EXCEPT !.reb = g.reb + 1, !.phase = "Joining", !.deadline = d, !.members = ms]
  BY <1>2, <1>5, Zenon DEF StartRebalance
<1>7. h = [born |-> g.born, gen |-> g.gen, reb |-> g.reb + 1, phase |-> "Joining",
           deadline |-> d, leader |-> g.leader, members |-> ms]
  <2>1. g = [born |-> g.born, gen |-> g.gen, reb |-> g.reb, phase |-> g.phase,
                deadline |-> g.deadline, leader |-> g.leader, members |-> g.members]
    BY FormedFacts
  <2> QED BY ONLY <1>6, <2>1
<1>8. Ids(h) = ids /\ h \in GroupsOf(ids)
  BY <1>1, <1>4, <1>7, FormedFacts DEF GroupsOf, Ids, Phases
<1>9. Share(h)
  BY <1>1, <1>3, <1>7, <1>8 DEF Share, Formed
<1>10. Together(h)
  BY <1>3, <1>7, <1>8 DEF Together
<1>11. Sound(h)
  BY <1>1, <1>8, <1>9, <1>10, FormedFacts DEF Sound, Formed
<1>12. Continues(h, g)
  BY <1>7, <1>11, ToldJoining, FormedFacts DEF Continues
<1> QED BY <1>1, <1>3, <1>7, <1>8, <1>11, <1>12

\* Members that share a protocol have one to agree on, and the choice is one.
LEMMA SelectedType ==
    ASSUME NEW g, Formed(g)
    PROVE  Agreed(g) /\ Selected(g) \in Protocols
<1>1. PICK offer \in Seq(Protocols) : offer = g.members[g.leader].offer
  BY OffersAssumption, FormedFacts DEF Members
<1>2. PICK common : common = Common(g.members, g.leader, offer)
  OBVIOUS
<1>3. PICK p \in Protocols : \A id \in Ids(g) : p \in Range(g.members[id].offer)
  BY DEF Formed, Share
<1>4. p \in Range(offer)
  BY <1>1, <1>3, FormedFacts
<1>5. p \in common
  BY <1>2, <1>3, <1>4 DEF Common, Ids
<1>6. Agreed(g)
  BY <1>1, <1>2, <1>5 DEF Agreed
<1> DEFINE T == {i \in DOMAIN offer : offer[i] \in common}
<1>7. T \in SUBSET Nat /\ T # {}
  BY <1>4, <1>5 DEF Range
<1>8. PICK k : k = Min(T)
  OBVIOUS
<1>9. k \in T
  BY <1>7, <1>8, Smallest
<1>10. Selected(g) = offer[k]
  BY <1>1, <1>2, <1>8, Zenon DEF Selected
<1> QED BY <1>6, <1>9, <1>10

\* A member as finalize_rebalance, sync and heartbeat leave it.
LEMMA RenewedType ==
    ASSUME NEW m \in Members, NEW now \in Nat
    PROVE  now + m.timeouts.session \in Nat
<1>1. m.timeouts \in Timeouts
  BY DEF Members
<1> QED BY <1>1, TimeoutsAssumption

\* finalize_rebalance: the members that have all rejoined get one outcome.
LEMMA FinalizeSound ==
    ASSUME NEW g, Sound(g), g.phase = "Joining", Joined(g) = Ids(g), NEW now \in Nat,
           NEW h, h = Finalize(g, now)
    PROVE  Sound(h) /\ Ids(h) = Ids(g) /\ Continues(h, g)
<1>1. PICK ids : ids = Ids(g)
  OBVIOUS
<1>2. Formed(g) /\ Together(g)
  BY DEF Sound
<1>3. PICK r : r = [gen |-> g.gen + 1, leader |-> g.leader, protocol |-> <<Selected(g)>>]
  OBVIOUS
<1>4. r \in Results /\ r # NoResult /\ r.gen = g.gen + 1 /\ r.leader = g.leader
  BY <1>2, <1>3, SelectedType, FormedFacts, MemberIdsAssumption DEF Results, NoResult
<1>5. PICK ms : ms = [id \in Ids(g) |->
                        [g.members[id] EXCEPT !.assignment = NoValue,
                                              !.deadline = now + g.members[id].timeouts.session,
                                              !.result = r]]
  OBVIOUS
<1>6. \A id \in ids : ms[id] \in Members /\ ms[id].offer = g.members[id].offer
                      /\ ms[id].joined = g.reb
                      /\ ms[id].assignment = NoValue /\ ms[id].result = r
  <2> SUFFICES ASSUME NEW id \in ids
               PROVE  /\ ms[id] \in Members /\ ms[id].offer = g.members[id].offer
                      /\ ms[id].joined = g.reb
                      /\ ms[id].assignment = NoValue /\ ms[id].result = r
    OBVIOUS
  <2>1. PICK m \in Members : m = g.members[id]
    BY <1>1, <1>2, FormedFacts
  <2>2. PICK d \in Nat : d = now + m.timeouts.session
    BY RenewedType
  <2>3. PICK n : n = [m EXCEPT !.assignment = NoValue, !.deadline = d, !.result = r]
    OBVIOUS
  <2>4. /\ n \in Members /\ n.offer = m.offer /\ n.joined = m.joined
        /\ n.assignment = NoValue /\ n.result = r
    BY ONLY <1>4, <2>1, <2>2, <2>3 DEF Members
  <2>5. ms[id] = n
    BY <1>1, <1>5, <2>1, <2>2, <2>3
  <2>6. m.joined = g.reb
    BY <1>1, <2>1 DEF Joined
  <2> QED BY ONLY <2>1, <2>4, <2>5, <2>6
<1>7. ms \in [ids -> Members]
  BY ONLY <1>1, <1>5, <1>6
<1>8. PICK d \in Nat : d = now + Longest(g.members)
  BY <1>2, LongestType, FormedFacts
<1>9. h = [g EXCEPT !.gen = g.gen + 1, !.phase = "AwaitingSync", !.deadline = d, !.members = ms]
  BY <1>2, <1>3, <1>5, <1>8, SelectedType, Zenon DEF Finalize
<1>10. h = [born |-> g.born, gen |-> g.gen + 1, reb |-> g.reb, phase |-> "AwaitingSync",
            deadline |-> d, leader |-> g.leader, members |-> ms]
  <2>1. g = [born |-> g.born, gen |-> g.gen, reb |-> g.reb, phase |-> g.phase,
                deadline |-> g.deadline, leader |-> g.leader, members |-> g.members]
    BY <1>2, FormedFacts
  <2> QED BY ONLY <1>9, <2>1
<1>11. Ids(h) = ids /\ h \in GroupsOf(ids)
  BY <1>1, <1>2, <1>7, <1>10, FormedFacts DEF GroupsOf, Ids, Phases
<1>12. Share(h)
  BY <1>1, <1>2, <1>6, <1>10, <1>11 DEF Share, Formed
<1>13. g.leader \in ids
  BY <1>1, <1>2, FormedFacts
<1>14. Together(h)
  BY <1>4, <1>6, <1>10, <1>11, <1>13 DEF Together
<1>15. Sound(h)
  BY <1>1, <1>2, <1>11, <1>12, <1>14, FormedFacts DEF Sound, Formed
<1>16. ASSUME NEW told \in Promises, Told(g, told)
       PROVE  Told(h, told)
  <2>1. /\ \A x \in told.elected : x.gen \in Nat
        /\ \A y \in told.assigned : y.gen \in Nat
    BY DEF Promises
  <2>2. g.gen \in Nat /\ h.gen = g.gen + 1 /\ h.born = g.born
    BY <1>2, <1>10, FormedFacts
  <2>3. /\ \A x \in told.elected : x.born = h.born => x.gen < h.gen
        /\ \A y \in told.assigned : y.born = h.born => y.gen < h.gen
    BY <1>16, <2>1, <2>2 DEF Told
  <2> QED BY <2>1, <2>2, <2>3 DEF Told
<1>17. h.born = g.born /\ h.gen >= g.gen
  BY <1>2, <1>10, FormedFacts
<1> QED BY <1>1, <1>11, <1>15, <1>16, <1>17 DEF Continues

\* A member that is heard from changes its own deadline and nothing else.
LEMMA TouchSound ==
    ASSUME NEW g, Sound(g), NEW id \in Ids(g), NEW now \in Nat, NEW h, h = Touch(g, id, now)
    PROVE  /\ Sound(h) /\ Ids(h) = Ids(g) /\ Continues(h, g)
           /\ h.born = g.born /\ h.gen = g.gen /\ h.reb = g.reb /\ h.phase = g.phase
           /\ \A i \in Ids(g) : /\ h.members[i].result = g.members[i].result
                                /\ h.members[i].assignment = g.members[i].assignment
<1>1. PICK ids : ids = Ids(g)
  OBVIOUS
<1>2. Formed(g) /\ Together(g)
  BY DEF Sound
<1>3. PICK m \in Members : m = g.members[id]
  BY <1>2, FormedFacts
<1>4. PICK d \in Nat : d = now + m.timeouts.session
  BY RenewedType
<1>5. PICK n : n = [m EXCEPT !.deadline = d]
  OBVIOUS
<1>6. /\ n \in Members /\ n.offer = m.offer /\ n.joined = m.joined
      /\ n.assignment = m.assignment /\ n.result = m.result
  BY ONLY <1>3, <1>4, <1>5 DEF Members
<1>7. PICK ms : ms = [g.members EXCEPT ![id] = n]
  OBVIOUS
<1>8. /\ ms \in [ids -> Members]
      /\ \A i \in ids : /\ ms[i].offer = g.members[i].offer
                        /\ ms[i].joined = g.members[i].joined
                        /\ ms[i].assignment = g.members[i].assignment
                        /\ ms[i].result = g.members[i].result
  <2>1. g.members \in [ids -> Members] /\ id \in ids
    BY <1>1, <1>2, FormedFacts
  <2> QED BY ONLY <1>3, <1>6, <1>7, <2>1
<1>9. h = [g EXCEPT !.members = ms]
  BY <1>2, <1>3, <1>4, <1>5, <1>7, FormedFacts DEF Touch
<1>10. h = [born |-> g.born, gen |-> g.gen, reb |-> g.reb, phase |-> g.phase,
            deadline |-> g.deadline, leader |-> g.leader, members |-> ms]
  BY <1>2, <1>9, FormedFacts
<1>11. Ids(h) = ids /\ h \in GroupsOf(ids)
  BY <1>1, <1>2, <1>8, <1>10, FormedFacts DEF GroupsOf, Ids, Phases
<1>12. Share(h)
  BY <1>1, <1>2, <1>8, <1>10, <1>11 DEF Share, Formed
<1>13. g.leader \in ids
  BY <1>1, <1>2, FormedFacts
<1>14. Together(h)
  BY <1>1, <1>2, <1>8, <1>10, <1>11, <1>13 DEF Together
<1>15. Sound(h)
  BY <1>1, <1>2, <1>11, <1>12, <1>14, FormedFacts DEF Sound, Formed
<1>16. ASSUME NEW told \in Promises, Told(g, told)
       PROVE  Told(h, told)
  <2>1. Elected(h, h.leader) = Elected(g, g.leader)
        /\ h.members[h.leader].assignment = g.members[g.leader].assignment
    BY <1>8, <1>10, <1>13 DEF Elected
  <2> QED BY <1>10, <1>16, <2>1 DEF Told
<1>17. h.born = g.born /\ h.gen >= g.gen
  BY <1>2, <1>10, FormedFacts
<1> QED BY <1>1, <1>8, <1>10, <1>11, <1>15, <1>16, <1>17 DEF Continues

\* The leader's assignments reach all members at once.
LEMMA InstallSound ==
    ASSUME NEW g, Sound(g), g.phase = "AwaitingSync", NEW value \in Values, NEW now \in Nat,
           NEW h, h = Install(g, value, now)
    PROVE  /\ Sound(h) /\ Ids(h) = Ids(g) /\ Continues(h, g)
           /\ h.born = g.born /\ h.gen = g.gen /\ h.phase = "Stable"
<1>1. PICK ids : ids = Ids(g)
  OBVIOUS
<1>2. Formed(g) /\ Together(g)
  BY DEF Sound
<1>3. PICK ms : ms = [id \in Ids(g) |->
                        [g.members[id] EXCEPT !.assignment = value,
                                              !.deadline = now + g.members[id].timeouts.session]]
  OBVIOUS
<1>4. \A id \in ids : /\ ms[id] \in Members /\ ms[id].offer = g.members[id].offer
                      /\ ms[id].joined = g.members[id].joined
                      /\ ms[id].assignment = value /\ ms[id].result = g.members[id].result
  <2> SUFFICES ASSUME NEW id \in ids
               PROVE  /\ ms[id] \in Members /\ ms[id].offer = g.members[id].offer
                      /\ ms[id].joined = g.members[id].joined
                      /\ ms[id].assignment = value /\ ms[id].result = g.members[id].result
    OBVIOUS
  <2>1. PICK m \in Members : m = g.members[id]
    BY <1>1, <1>2, FormedFacts
  <2>2. PICK d \in Nat : d = now + m.timeouts.session
    BY RenewedType
  <2>3. PICK n : n = [m EXCEPT !.assignment = value, !.deadline = d]
    OBVIOUS
  <2>4. /\ n \in Members /\ n.offer = m.offer /\ n.joined = m.joined
        /\ n.assignment = value /\ n.result = m.result
    <3>1. value \in Values
      OBVIOUS
    <3> QED BY ONLY <2>1, <2>2, <2>3, <3>1 DEF Members
  <2>5. ms[id] = n
    BY <1>1, <1>3, <2>1, <2>2, <2>3
  <2> QED BY ONLY <2>1, <2>4, <2>5
<1>5. ms \in [ids -> Members]
  BY ONLY <1>1, <1>3, <1>4
<1>6. h = [g EXCEPT !.phase = "Stable", !.members = ms]
  BY <1>3, Zenon DEF Install
<1>7. h = [born |-> g.born, gen |-> g.gen, reb |-> g.reb, phase |-> "Stable",
           deadline |-> g.deadline, leader |-> g.leader, members |-> ms]
  <2>1. g = [born |-> g.born, gen |-> g.gen, reb |-> g.reb, phase |-> g.phase,
                deadline |-> g.deadline, leader |-> g.leader, members |-> g.members]
    BY <1>2, FormedFacts
  <2> QED BY ONLY <1>6, <2>1
<1>8. Ids(h) = ids /\ h \in GroupsOf(ids)
  BY <1>1, <1>2, <1>5, <1>7, FormedFacts DEF GroupsOf, Ids, Phases
<1>9. Share(h)
  BY <1>1, <1>2, <1>4, <1>7, <1>8 DEF Share, Formed
<1>10. g.leader \in ids
  BY <1>1, <1>2, FormedFacts
<1>11. Together(h)
  BY <1>1, <1>2, <1>4, <1>7, <1>8, <1>10, NoValueAssumption DEF Together
<1>12. Sound(h)
  BY <1>1, <1>2, <1>8, <1>9, <1>11, FormedFacts DEF Sound, Formed
<1>13. ASSUME NEW told \in Promises, Told(g, told)
       PROVE  Told(h, told)
  <2>1. Elected(h, h.leader) = Elected(g, g.leader)
    BY <1>4, <1>7, <1>10 DEF Elected
  <2> QED BY <1>7, <1>13, <2>1 DEF Told
<1>14. h.born = g.born /\ h.gen >= g.gen
  BY <1>2, <1>7, FormedFacts
<1> QED BY <1>1, <1>7, <1>8, <1>12, <1>13, <1>14 DEF Continues

\* A group continues itself ...
LEMMA ContinuesSelf ==
    ASSUME NEW g, Sound(g)
    PROVE  Continues(g, g)
<1>1. g.gen \in Nat
  BY FormedFacts DEF Sound
<1> QED BY <1>1 DEF Continues

\* ... and what its continuations continue.
LEMMA ContinuesOn ==
    ASSUME NEW g, Sound(g), NEW h, h # NoGroup, Continues(h, g), NEW k, Continues(k, h)
    PROVE  Continues(k, g)
<1>1. CASE k = NoGroup
  BY <1>1 DEF Continues
<1>2. CASE k # NoGroup
  <2>1. Sound(h) /\ Sound(k) /\ h.born = g.born /\ k.born = h.born /\ h.gen >= g.gen /\ k.gen >= h.gen
    BY <1>2 DEF Continues
  <2>2. g.gen \in Nat /\ h.gen \in Nat /\ k.gen \in Nat
    BY <2>1, FormedFacts DEF Sound
  <2>3. k.gen >= g.gen
    BY ONLY <2>1, <2>2
  <2>4. \A told \in Promises : Told(g, told) => Told(k, told)
    BY <1>2, Zenon DEF Continues
  <2> QED BY <2>1, <2>3, <2>4 DEF Continues
<1> QED BY <1>1, <1>2

\* While it rebalances a sound group loses members and stays sound.
LEMMA KeepJoining ==
    ASSUME NEW g, Sound(g), g.phase = "Joining", NEW ids \in SUBSET Ids(g),
           NEW h, h = Keep(g, ids)
    PROVE  /\ h = NoGroup <=> ids = {}
           /\ h # NoGroup => Sound(h) /\ h.phase = "Joining" /\ Ids(h) = ids
           /\ Continues(h, g)
<1>1. CASE ids = {}
  BY <1>1 DEF Keep, Continues
<1>2. CASE ids # {}
  <2>1. /\ Formed(h) /\ Ids(h) = ids /\ h.born = g.born /\ h.gen = g.gen /\ h.phase = g.phase
        /\ \A id \in ids : h.members[id] = g.members[id]
    BY <1>2, KeepFormed DEF Sound
  <2>2. Together(h)
    BY <2>1 DEF Sound, Together
  <2>3. h.gen >= g.gen
    BY <2>1, FormedFacts
  <2>4. \A told \in Promises : Told(g, told) => Told(h, told)
    BY <2>1, ToldJoining
  <2> QED BY <1>2, <2>1, <2>2, <2>3, <2>4, FormedFacts DEF Sound, Continues
<1> QED BY <1>1, <1>2

\* Members go while a group does not rebalance: the others do then.
LEMMA KeepAndRebalance ==
    ASSUME NEW g, Sound(g), NEW ids \in SUBSET Ids(g), ids # {}, NEW now \in Nat,
           NEW kept, kept = Keep(g, ids), NEW h, h = StartRebalance(kept, now)
    PROVE  Continues(h, g) /\ kept # NoGroup /\ kept.phase = g.phase
<1>1. Formed(kept) /\ kept.born = g.born /\ kept.gen = g.gen /\ kept.phase = g.phase
  BY KeepFormed DEF Sound
<1>2. Sound(h) /\ h.phase = "Joining" /\ h.born = g.born /\ h.gen = g.gen
  BY <1>1, StartRebalanceSound
<1>3. \A told \in Promises : Told(g, told) => Told(h, told)
  BY <1>2, ToldJoining
<1>4. h.gen >= g.gen
  BY <1>2, FormedFacts DEF Sound
<1> QED BY <1>1, <1>2, <1>3, <1>4, FormedFacts DEF Continues

\* advance_group, first half.
LEMMA ExpireContinues ==
    ASSUME NEW g, Sound(g), NEW now \in Nat
    PROVE  Continues(Expire(g, now), g)
<1>1. PICK kept : kept = Keep(g, Live(g, now))
  OBVIOUS
<1>2. Live(g, now) \in SUBSET Ids(g)
  BY DEF Live
<1>3. ~IsNone(g) /\ g.phase \in Phases
  BY FormedFacts DEF Sound
<1>4. CASE Live(g, now) = Ids(g)
  <2>1. Expire(g, now) = g
    BY <1>4, Zenon DEF Expire
  <2> QED BY <2>1, ContinuesSelf
<1>5. CASE Live(g, now) # Ids(g) /\ kept.phase \in {"None", "Joining"}
  <2>1. Expire(g, now) = kept
    BY <1>1, <1>3, <1>5, Zenon DEF Expire
  <2>2. CASE Live(g, now) = {}
    BY <1>1, <2>1, <2>2, Zenon DEF Keep, Continues
  <2>3. CASE Live(g, now) # {}
    <3>1. kept.phase = g.phase
      BY <1>1, <1>2, <2>3, KeepFormed DEF Sound
    <3>2. g.phase = "Joining"
      BY <1>3, <1>5, <3>1 DEF Phases
    <3> QED BY <1>1, <1>2, <2>1, <3>2, KeepJoining
  <2> QED BY <2>2, <2>3
<1>6. CASE Live(g, now) # Ids(g) /\ kept.phase \notin {"None", "Joining"}
  <2>1. Expire(g, now) = StartRebalance(kept, now)
    BY <1>1, <1>3, <1>6, Zenon DEF Expire
  <2>2. Live(g, now) # {}
    <3>1. SUFFICES ASSUME Live(g, now) = {} PROVE kept = NoGroup
      BY <1>6, NoGroupEmpty
    <3> QED BY <1>1, <3>1, Zenon DEF Keep
  <2> QED BY <1>1, <1>2, <2>1, <2>2, KeepAndRebalance
<1> QED BY <1>4, <1>5, <1>6

\* advance_group, second half.
LEMMA SettleContinues ==
    ASSUME NEW g, Sound(g), NEW now \in Nat
    PROVE  Continues(Settle(g, now), g)
<1>1. PICK kept : kept = Keep(g, Rejoined(g, now))
  OBVIOUS
<1>2. Rejoined(g, now) \in SUBSET Ids(g)
  BY DEF Rejoined, Joined
<1>3. CASE g.phase = "Joining"
  <2>1. /\ Continues(kept, g)
        /\ kept # NoGroup => Sound(kept) /\ kept.phase = "Joining"
    BY <1>1, <1>2, <1>3, KeepJoining
  <2>2. CASE ~IsNone(kept) /\ Joined(kept) = Ids(kept)
    <3>1. Settle(g, now) = Finalize(kept, now)
      BY <1>1, <1>3, <2>2, Zenon DEF Settle
    <3>2. kept # NoGroup
      BY <2>2, NoGroupEmpty DEF IsNone
    <3>3. Continues(Finalize(kept, now), kept)
      BY <2>1, <2>2, <3>2, FinalizeSound
    <3> QED BY <2>1, <3>1, <3>2, <3>3, ContinuesOn
  <2>3. CASE ~(~IsNone(kept) /\ Joined(kept) = Ids(kept))
    <3>1. Settle(g, now) = kept
      BY <1>1, <1>3, <2>3, Zenon DEF Settle
    <3> QED BY <2>1, <3>1
  <2> QED BY <2>2, <2>3
<1>4. CASE g.phase = "AwaitingSync" /\ now >= g.deadline
  <2>1. Settle(g, now) = StartRebalance(g, now)
    BY <1>4 DEF Settle
  <2> QED BY <2>1, StartRebalanceSound DEF Sound
<1>5. CASE g.phase # "Joining" /\ ~(g.phase = "AwaitingSync" /\ now >= g.deadline)
  <2>1. Settle(g, now) = g
    BY <1>5, Zenon DEF Settle
  <2> QED BY <2>1, ContinuesSelf
<1> QED BY <1>3, <1>4, <1>5

\* advance_group: what time does to a group.
LEMMA AdvanceContinues ==
    ASSUME NEW g, Sound(g), NEW now \in Nat
    PROVE  Continues(Advance(g, now), g)
<1>1. PICK e : e = Expire(g, now)
  OBVIOUS
<1>2. Continues(e, g) /\ Advance(g, now) = Settle(e, now)
  BY <1>1, ExpireContinues, Zenon DEF Advance
<1>3. CASE e = NoGroup
  <2>1. Settle(e, now) = NoGroup
    BY <1>3, NoGroupEmpty DEF Settle
  <2> QED BY <1>2, <2>1 DEF Continues
<1>4. CASE e # NoGroup
  <2>1. Sound(e)
    BY <1>2, <1>4 DEF Continues
  <2> QED BY <1>2, <1>4, <2>1, SettleContinues, ContinuesOn
<1> QED BY <1>3, <1>4

\* No group stays no group, however long.
LEMMA AdvanceNone ==
    ASSUME NEW now
    PROVE  Advance(NoGroup, now) = NoGroup
<1>1. Expire(NoGroup, now) = NoGroup
  BY NoGroupEmpty DEF Expire, IsNone
<1>2. Settle(NoGroup, now) = NoGroup
  BY NoGroupEmpty DEF Settle
<1> QED BY <1>1, <1>2 DEF Advance

\* leave: the others rebalance, or end the rebalance that waited for the member.
LEMMA WithoutContinues ==
    ASSUME NEW g, Sound(g), NEW id, NEW now \in Nat
    PROVE  Continues(Without(g, id, now), g)
<1>1. PICK ids : ids = Ids(g) \ {id}
  OBVIOUS
<1>2. PICK kept : kept = Keep(g, ids)
  OBVIOUS
<1>3. ids \in SUBSET Ids(g)
  BY <1>1
<1>4. CASE ids = {}
  <2>1. kept = NoGroup
    BY <1>2, <1>4, Zenon DEF Keep
  <2>2. Without(g, id, now) = NoGroup
    BY <1>1, <1>2, <2>1, NoGroupEmpty DEF Without, IsNone
  <2> QED BY <2>2 DEF Continues
<1>5. CASE ids # {} /\ g.phase # "Joining"
  <2>1. kept # NoGroup /\ kept.phase = g.phase /\ Formed(kept)
    BY <1>2, <1>3, <1>5, KeepFormed, FormedFacts DEF Sound
  <2>2. Without(g, id, now) = StartRebalance(kept, now)
    BY <1>1, <1>2, <1>5, <2>1, FormedFacts, Zenon DEF Without
  <2> QED BY <1>2, <1>3, <1>5, <2>2, KeepAndRebalance
<1>6. CASE ids # {} /\ g.phase = "Joining"
  <2>1. kept # NoGroup /\ Sound(kept) /\ kept.phase = "Joining" /\ Continues(kept, g)
    BY <1>2, <1>3, <1>6, KeepJoining
  <2>2. ~IsNone(kept)
    BY <2>1, FormedFacts DEF Sound
  <2>3. CASE Joined(kept) = Ids(kept)
    <3>1. Without(g, id, now) = Finalize(kept, now)
      BY <1>1, <1>2, <2>1, <2>2, <2>3, Zenon DEF Without
    <3>2. Continues(Finalize(kept, now), kept)
      BY <2>1, <2>3, FinalizeSound
    <3> QED BY <2>1, <3>1, <3>2, ContinuesOn
  <2>4. CASE Joined(kept) # Ids(kept)
    <3>1. Without(g, id, now) = kept
      BY <1>1, <1>2, <2>1, <2>2, <2>4, Zenon DEF Without
    <3> QED BY <2>1, <3>1
  <2> QED BY <2>3, <2>4
<1> QED BY <1>4, <1>5, <1>6

\* A group that rebalances, before this member enters it.
Open(base, id) ==
    /\ base = [born |-> base.born, gen |-> base.gen, reb |-> base.reb, phase |-> "Joining",
               deadline |-> base.deadline, leader |-> base.leader, members |-> base.members]
    /\ base.born \in Nat /\ base.gen \in Nat /\ base.reb \in Nat
    /\ base.leader \in Ids(base) \cup {id}
    /\ Ids(base) \subseteq MemberIds
    /\ \A i \in Ids(base) : /\ base.members[i] \in Members
                            /\ base.members[i].assignment = NoValue
                            /\ base.members[i].result = NoResult

\* The members of a group after this member entered it.
Entered(base, id, offer, timeouts, now) ==
    [i \in Ids(base) \cup {id} |->
        IF i = id THEN Joiner(base, offer, timeouts, now) ELSE base.members[i]]

\* The group after it.
EnteredGroup(base, id, offer, timeouts, now) ==
    LET ms == Entered(base, id, offer, timeouts, now)
    IN  [base EXCEPT !.members = ms, !.deadline = now + Longest(ms)]

\* A member that offers a common protocol enters a group that rebalances.
LEMMA Enters ==
    ASSUME NEW base, NEW id \in MemberIds, Open(base, id),
           NEW offer \in Offers, NEW timeouts \in Timeouts, NEW now \in Nat,
           NEW p \in Range(offer),
           \A i \in Ids(base) \ {id} : p \in Range(base.members[i].offer),
           NEW h, h = EnteredGroup(base, id, offer, timeouts, now)
    PROVE  /\ Sound(h) /\ h.phase = "Joining"
           /\ h.born = base.born /\ h.gen = base.gen /\ h.reb = base.reb
<1>1. PICK ids : ids = Ids(base) \cup {id}
  OBVIOUS
<1>2. PICK n : n = Joiner(base, offer, timeouts, now)
  OBVIOUS
<1>3. PICK ms : ms = Entered(base, id, offer, timeouts, now)
  OBVIOUS
<1>4. base.born \in Nat /\ base.gen \in Nat /\ base.reb \in Nat
  BY DEF Open
<1>5. n \in Members /\ n.offer = offer /\ n.assignment = NoValue /\ n.result = NoResult
  <2>1. timeouts.session \in Nat
    BY TimeoutsAssumption
  <2>2. PICK d \in Nat : d = now + timeouts.session
    BY <2>1
  <2>3. n = [offer |-> offer, timeouts |-> timeouts, deadline |-> d, joined |-> base.reb,
             assignment |-> NoValue, result |-> NoResult]
    BY <1>2, <2>2 DEF Joiner
  <2>4. offer \in Offers /\ timeouts \in Timeouts
    OBVIOUS
  <2> QED BY ONLY <1>4, <2>2, <2>3, <2>4 DEF Members
<1>6. /\ ms \in [ids -> Members]
      /\ ids \subseteq MemberIds /\ ids # {}
      /\ \A i \in ids : /\ ms[i].assignment = NoValue /\ ms[i].result = NoResult
                        /\ p \in Range(ms[i].offer)
  <2>1. ms = [i \in ids |-> IF i = id THEN n ELSE base.members[i]]
    BY <1>1, <1>2, <1>3, Zenon DEF Entered
  <2>2. ASSUME NEW i \in ids
        PROVE  /\ ms[i] \in Members /\ ms[i].assignment = NoValue /\ ms[i].result = NoResult
               /\ p \in Range(ms[i].offer)
    <3>1. CASE i = id
      <4>1. ms[i] = n
        BY <2>1, <3>1
      <4> QED BY <1>5, <4>1
    <3>2. CASE i # id
      <4>1. ms[i] = base.members[i] /\ i \in Ids(base) \ {id}
        BY <1>1, <2>1, <3>2
      <4>2. /\ base.members[i] \in Members
            /\ base.members[i].assignment = NoValue /\ base.members[i].result = NoResult
        BY <4>1, Zenon DEF Open
      <4> QED BY <4>1, <4>2
    <3> QED BY <3>1, <3>2
  <2>3. ids \subseteq MemberIds /\ ids # {}
    BY <1>1 DEF Open
  <2> QED BY ONLY <2>1, <2>2, <2>3
<1>7. PICK d \in Nat : d = now + Longest(ms)
  BY <1>6, LongestType
<1>8. h = [born |-> base.born, gen |-> base.gen, reb |-> base.reb, phase |-> "Joining",
           deadline |-> d, leader |-> base.leader, members |-> ms]
  <2>1. h = [base EXCEPT !.members = ms, !.deadline = d]
    BY <1>3, <1>7, Zenon DEF EnteredGroup
  <2>2. PICK b, e, r, dl, l, m :
            base = [born |-> b, gen |-> e, reb |-> r, phase |-> "Joining", deadline |-> dl,
                    leader |-> l, members |-> m]
    BY Zenon DEF Open
  <2> QED BY ONLY <2>1, <2>2
<1>9. Ids(h) = ids /\ h \in GroupsOf(ids)
  <2>1. base.leader \in ids /\ d \in Nat
    BY <1>1, <1>7 DEF Open
  <2> QED BY ONLY <1>4, <1>6, <1>8, <2>1 DEF GroupsOf, Ids, Phases
<1>10. h.members = ms
  BY ONLY <1>8
<1>11. p \in Protocols
  BY OffersAssumption DEF Range
<1>12. Share(h)
  BY ONLY <1>6, <1>9, <1>10, <1>11 DEF Share
<1>13. h.phase = "Joining" /\ h.born = base.born /\ h.gen = base.gen /\ h.reb = base.reb
  BY ONLY <1>8
<1>14. Together(h)
  BY ONLY <1>6, <1>9, <1>10, <1>13 DEF Together
<1> QED BY ONLY <1>6, <1>9, <1>12, <1>13, <1>14 DEF Sound, Formed

\* join founds a group, whose first generation is still to come.
LEMMA AdmitFounds ==
    ASSUME NEW id \in MemberIds, NEW offer \in Offers, NEW timeouts \in Timeouts,
           NEW now \in Nat, NEW born \in Nat,
           NEW h, h = Admit(NoGroup, id, offer, timeouts, now, born)
    PROVE  Sound(h) /\ h.born = born /\ h.gen = 0 /\ h.reb \in Nat
<1>1. PICK base : base = [NoGroup EXCEPT !.born = born, !.reb = 1, !.phase = "Joining", !.leader = id]
  OBVIOUS
<1>2. base = [born |-> born, gen |-> 0, reb |-> 1, phase |-> "Joining", deadline |-> 0,
              leader |-> id, members |-> <<>>]
  BY <1>1 DEF NoGroup
<1>3. Ids(base) = {}
  BY <1>2 DEF Ids
<1>4. IsNone(NoGroup)
  BY NoGroupEmpty DEF IsNone
<1>5. h = EnteredGroup(base, id, offer, timeouts, now)
  <2>1. NoGroup.phase # "Joining"
    BY NoGroupEmpty
  <2>2. Entering(NoGroup, id, now, born) = base
    BY ONLY <1>1, <1>4, <2>1 DEF Entering
  <2>3. h = Admit(NoGroup, id, offer, timeouts, now, born)
    OBVIOUS
  <2> QED BY ONLY <2>2, <2>3, Zenon DEF Admit, EnteredGroup, Entered
<1>6. PICK p : p \in Range(offer)
  <2>1. offer \in Seq(Protocols) /\ offer # <<>>
    BY OffersAssumption
  <2>2. 1 \in DOMAIN offer
    BY <2>1
  <2> QED BY <2>2 DEF Range
<1>7. Open(base, id)
  BY ONLY <1>2, <1>3, born \in Nat DEF Open
<1>8. \A i \in Ids(base) \ {id} : p \in Range(base.members[i].offer)
  BY <1>3
<1>9. /\ Sound(h) /\ h.born = base.born /\ h.gen = base.gen /\ h.reb = base.reb
  BY <1>5, <1>6, <1>7, <1>8, Enters
<1> QED BY <1>2, <1>9

\* join adds a member to a group, or renews one, if a common protocol is left.
LEMMA AdmitContinues ==
    ASSUME NEW g, Sound(g), NEW id \in MemberIds, NEW offer \in Offers,
           NEW timeouts \in Timeouts, NEW now \in Nat, NEW born,
           \E p \in Range(offer) : \A i \in Ids(g) \ {id} : p \in Range(g.members[i].offer),
           NEW h, h = Admit(g, id, offer, timeouts, now, born)
    PROVE  Continues(h, g) /\ h # NoGroup /\ h.reb \in Nat
<1>1. PICK p \in Range(offer) : \A i \in Ids(g) \ {id} : p \in Range(g.members[i].offer)
  OBVIOUS
<1>2. PICK base : base = IF g.phase = "Joining" THEN g ELSE StartRebalance(g, now)
  OBVIOUS
<1>3. ~IsNone(g) /\ Formed(g)
  BY FormedFacts DEF Sound
<1>4. /\ Sound(base) /\ base.phase = "Joining" /\ Ids(base) = Ids(g)
      /\ base.born = g.born /\ base.gen = g.gen
      /\ \A i \in Ids(g) : base.members[i].offer = g.members[i].offer
  <2>1. CASE g.phase = "Joining"
    BY <1>2, <2>1
  <2>2. CASE g.phase # "Joining"
    BY <1>2, <1>3, <2>2, StartRebalanceSound
  <2> QED BY <2>1, <2>2
<1>5. h = EnteredGroup(base, id, offer, timeouts, now)
  <2>1. Entering(g, id, now, born) = base
    BY <1>2, <1>3 DEF Entering
  <2> QED BY <2>1, Zenon DEF Admit, EnteredGroup, Entered
<1>6. Formed(base) /\ Together(base)
  BY <1>4 DEF Sound
<1>7. \A i \in Ids(base) : /\ base.members[i] \in Members
                           /\ base.members[i].assignment = NoValue
                           /\ base.members[i].result = NoResult
  BY <1>4, <1>6, FormedFacts DEF Together
<1>8. Open(base, id) /\ base.gen \in Nat /\ base.reb \in Nat
  BY <1>4, <1>6, <1>7, FormedFacts DEF Open
<1>9. \A i \in Ids(base) \ {id} : p \in Range(base.members[i].offer)
  BY <1>1, <1>4
<1>11. /\ Sound(h) /\ h.phase = "Joining" /\ h.born = base.born /\ h.gen = base.gen
       /\ h.reb = base.reb
  BY <1>1, <1>5, <1>8, <1>9, Enters
<1>12. \A told \in Promises : Told(g, told) => Told(h, told)
  BY <1>4, <1>11, ToldJoining
<1>13. h.gen >= g.gen /\ h.born = g.born /\ h # NoGroup /\ h.reb \in Nat
  BY <1>4, <1>8, <1>11, FormedFacts DEF Sound
<1> QED BY <1>11, <1>12, <1>13 DEF Continues

\* -------------------------------------------------- the invariant of the group
\* What a locked section makes of the group of its slot, if there is one.
Moved(h, g) == IF g = NoGroup THEN h = NoGroup ELSE Continues(h, g)

\* advance_group moves a group, if there is one.
LEMMA AdvanceMoved ==
    ASSUME NEW g, g = NoGroup \/ Sound(g), NEW now \in Nat
    PROVE  /\ Moved(Advance(g, now), g)
           /\ Advance(g, now) = NoGroup \/ Sound(Advance(g, now))
<1>1. CASE g = NoGroup
  BY <1>1, AdvanceNone DEF Moved
<1>2. CASE g # NoGroup
  BY <1>2, AdvanceContinues DEF Moved, Continues
<1> QED BY <1>1, <1>2

\* A section that advances the group and then does more to it.
LEMMA MovedOn ==
    ASSUME NEW g, g = NoGroup \/ Sound(g), NEW h, Moved(h, g), NEW k, h = NoGroup => k = NoGroup,
           h # NoGroup => Continues(k, h)
    PROVE  Moved(k, g)
<1>1. CASE g = NoGroup
  BY <1>1 DEF Moved
<1>2. CASE g # NoGroup /\ h = NoGroup
  BY <1>2 DEF Moved, Continues
<1>3. CASE g # NoGroup /\ h # NoGroup
  BY <1>3, ContinuesOn DEF Moved
<1> QED BY <1>1, <1>2, <1>3

\* A request in progress works on the one group, or finds none.
LEMMA Locked ==
    ASSUME GroupInv, NEW c \in Clients, pc[c] # "idle"
    PROVE  /\ slot[c] = table /\ table \in Slots
           /\ \/ group[slot[c]] = NoGroup
              \/ /\ Sound(group[slot[c]]) /\ group[slot[c]].born = births
                 /\ Told(group[slot[c]], outcomes)
<1>1. slot[c] = table /\ table \in Slots
  BY DEF GroupInv, SlotInv, Holding
<1> QED BY <1>1 DEF GroupInv, GroupParts, OneGroup

\* The group of the table after a locked section.
LEMMA SetGroupAt ==
    ASSUME GroupInv, NEW s \in Slots, NEW h, SetGroup(s, h)
    PROVE  /\ group'[s] = h /\ DOMAIN group' = Slots /\ began' \in [Slots -> Nat]
           /\ \A t \in Slots \ {s} : group'[t] = group[t]
<1>1. DOMAIN group = Slots /\ began \in [Slots -> Nat] /\ clock \in Nat
  BY DEF GroupInv, GroupParts, TypeInv
<1>2. group' = [group EXCEPT ![s] = h]
  BY DEF SetGroup
<1>3. PICK b : b = (IF h.reb # group[s].reb THEN clock ELSE began[s])
  OBVIOUS
<1>4. b \in Nat
  BY <1>1, <1>3
<1>5. began' = [began EXCEPT ![s] = b]
  BY <1>3, Zenon DEF SetGroup
<1> QED BY ONLY s \in Slots, <1>1, <1>2, <1>4, <1>5

\* A locked section that moves the group and answers nobody.
LEMMA MovesGroup ==
    ASSUME GroupInv, table \in Slots, NEW h, SetGroup(table, h), Moved(h, group[table]),
           table' = table \/ h = NoGroup, births' = births, outcomes' = outcomes
    PROVE  OneGroup' /\ Past'
<1>1. /\ group'[table] = h
      /\ \A t \in Slots \ {table} : group'[t] = group[t]
  BY SetGroupAt
<1>2. \A t \in Slots \ {table} : group[t] = NoGroup
  BY DEF GroupInv, GroupParts, OneGroup
<1>3. ASSUME h # NoGroup
      PROVE  Sound(h) /\ h.born = births /\ Told(h, outcomes)
  <2>1. group[table] # NoGroup /\ Continues(h, group[table])
    BY <1>3 DEF Moved
  <2>2. group[table].born = births /\ Told(group[table], outcomes)
    BY <2>1 DEF GroupInv, GroupParts, OneGroup
  <2>3. outcomes \in Promises
    BY DEF GroupInv, GroupParts, TypeInv
  <2> QED BY <1>3, <2>1, <2>2, <2>3 DEF Continues
<1>4. OneGroup'
  BY <1>1, <1>2, <1>3 DEF OneGroup
<1>5. Past'
  BY DEF GroupInv, GroupParts, Past
<1> QED BY <1>4, <1>5

\* The request of an idle client.
LEMMA NoCallType ==
    /\ NoCall \in Requests /\ NoCall.op = "none"
    /\ \A changed, empty \in BOOLEAN :
         LET r == [NoCall EXCEPT !.changed = changed, !.empty = empty]
         IN  r \in Requests /\ r.op = "none"
<1>1. NoCall \in Requests /\ NoCall.op = "none"
  BY DEF NoCall, Requests
<1>2. ASSUME NEW changed \in BOOLEAN, NEW empty \in BOOLEAN,
             NEW r, r = [NoCall EXCEPT !.changed = changed, !.empty = empty]
      PROVE  r \in Requests /\ r.op = "none"
  BY <1>2 DEF NoCall, Requests
<1> QED BY <1>1, <1>2

\* One request goes on, the others stay where they are.
LEMMA CallsKept ==
    ASSUME GroupInv, NEW c \in Clients, NEW w, NEW r \in Requests,
           pc' = [pc EXCEPT ![c] = w], call' = [call EXCEPT ![c] = r],
           w = "admit" => r.offer \in Offers /\ r.timeouts \in Timeouts,
           r.op = "sync" => (r.ids = {} <=> r.value = NoValue)
    PROVE  call' \in [Clients -> Requests] /\ \A d \in Clients : Asked(d)'
<1>1. call \in [Clients -> Requests] /\ DOMAIN pc = Clients /\ \A d \in Clients : Asked(d)
  BY DEF GroupInv, GroupParts, TypeInv, SlotInv
<1>2. call' \in [Clients -> Requests]
  BY <1>1
<1>3. pc'[c] = w /\ call'[c] = r
  BY <1>1
<1>4. \A d \in Clients \ {c} : pc'[d] = pc[d] /\ call'[d] = call[d]
  BY <1>1
<1>5. Asked(c)'
  BY ONLY <1>3, w = "admit" => r.offer \in Offers /\ r.timeouts \in Timeouts,
          r.op = "sync" => (r.ids = {} <=> r.value = NoValue) DEF Asked
<1>6. \A d \in Clients \ {c} : Asked(d)'
  BY ONLY <1>1, <1>4 DEF Asked
<1> QED BY <1>2, <1>5, <1>6

\* A request that returns leaves nothing behind.
LEMMA ReturnKeeps ==
    ASSUME GroupInv, NEW c \in Clients, Return(c)
    PROVE  call' \in [Clients -> Requests] /\ \A d \in Clients : Asked(d)'
<1>1. NoCall \in Requests /\ NoCall.op # "sync"
  BY NoCallType
<1>2. pc' = [pc EXCEPT ![c] = "idle"] /\ call' = [call EXCEPT ![c] = NoCall]
  BY DEF Return
<1> QED BY <1>1, <1>2, CallsKept

\* Neither does the end of a heartbeat, a leave or a refused commit.
LEMMA FinishKeeps ==
    ASSUME GroupInv, NEW c \in Clients, NEW g, Finish(c, g)
    PROVE  call' \in [Clients -> Requests] /\ \A d \in Clients : Asked(d)'
<1>1. PICK changed \in BOOLEAN : changed = (g # group[slot[c]])
  OBVIOUS
<1>2. PICK empty \in BOOLEAN : empty = IsNone(g)
  BY DEF IsNone
<1>3. CASE Return(c)
  BY <1>3, ReturnKeeps
<1>4. CASE ~Return(c)
  <2>1. PICK r : r = [NoCall EXCEPT !.changed = changed, !.empty = empty]
    OBVIOUS
  <2>2. r \in Requests /\ r.op # "sync"
    BY <2>1, NoCallType
  <2>3. PICK w \in {"notify", "reclaim"} : GoTo(c, w)
    BY <1>4 DEF Finish
  <2>4. call' = [call EXCEPT ![c] = r]
    BY <1>1, <1>2, <1>4, <2>1 DEF Finish
  <2> QED BY <2>2, <2>3, <2>4, CallsKept DEF GoTo
<1> QED BY <1>3, <1>4

\* Only clients are notified.
LEMMA NotifyType ==
    ASSUME GroupInv, NEW s, NEW changed, NEW returning, Notify(s, changed, returning)
    PROVE  woken' \subseteq Clients
BY DEF GroupInv, GroupParts, TypeInv, Notify, Waiting, Holders

\* A locked section that moves the group takes it forward.
LEMMA MovesOnward ==
    ASSUME GroupInv, table \in Slots, NEW h, SetGroup(table, h), Moved(h, group[table]),
           births' = births
    PROVE  Onward
<1>1. /\ group'[table] = h
      /\ \A t \in Slots \ {table} : group'[t] = group[t]
  BY SetGroupAt
<1>2. births \in Nat /\ \A t \in Slots \ {table} : group[t] = NoGroup
  BY DEF GroupInv, GroupParts, TypeInv, OneGroup
<1>3. h # NoGroup =>
        group[table] # NoGroup /\ h.born = group[table].born /\ group[table].gen <= h.gen
  <2>1. CASE group[table] = NoGroup
    BY <2>1 DEF Moved
  <2>2. CASE group[table] # NoGroup /\ h # NoGroup
    <3>1. Sound(group[table]) /\ Sound(h) /\ h.born = group[table].born /\ h.gen >= group[table].gen
      BY <2>2 DEF Moved, Continues, GroupInv, GroupParts, OneGroup
    <3>2. group[table].gen \in Nat /\ h.gen \in Nat
      BY <3>1, FormedFacts DEF Sound
    <3> QED BY ONLY <2>2, <3>1, <3>2
  <2> QED BY <2>1, <2>2
<1> QED BY <1>1, <1>2, <1>3 DEF Onward

\* A locked section that answers nobody keeps the invariant.
LEMMA SectionKeeps ==
    ASSUME GroupInv, table \in Slots, NEW h, SetGroup(table, h), Moved(h, group[table]),
           table' = table \/ h = NoGroup,
           UNCHANGED <<clock, births, stored, late, outcomes, calls, failures>>,
           used' \subseteq MemberIds, woken' \subseteq Clients,
           call' \in [Clients -> Requests], \A d \in Clients : Asked(d)'
    PROVE  GroupParts' /\ Onward
<1>1. OneGroup' /\ Past'
  BY MovesGroup
<1>2. TypeInv'
  BY SetGroupAt DEF GroupInv, GroupParts, TypeInv
<1>3. Onward
  BY MovesOnward
<1> QED BY <1>1, <1>2, <1>3 DEF GroupParts

\* join, second locked section: the group may advance.
LEMMA JoinTailKeeps ==
    ASSUME GroupInv, NEW c \in Clients, JoinTail(c)
    PROVE  GroupParts' /\ Onward
<1>1. PICK g : g = Advance(group[slot[c]], clock)
  OBVIOUS
<1>2. /\ pc[c] = "tail" /\ SetGroup(slot[c], g) /\ Notify(slot[c], TRUE, {}) /\ GoTo(c, "check")
      /\ UNCHANGED <<clock, table, used, births, call, stored, late, outcomes, calls, failures>>
  BY <1>1 DEF JoinTail
<1>3. /\ slot[c] = table /\ table \in Slots
      /\ group[slot[c]] = NoGroup \/ Sound(group[slot[c]])
  BY <1>2, Locked
<1>4. clock \in Nat /\ used \subseteq MemberIds /\ call \in [Clients -> Requests]
  BY DEF GroupInv, GroupParts, TypeInv
<1>5. Moved(g, group[table])
  BY <1>1, <1>3, <1>4, AdvanceMoved
<1>6. woken' \subseteq Clients
  BY <1>2, NotifyType
<1>7. \A d \in Clients : Asked(d)'
  BY <1>2 DEF GroupInv, GroupParts, SlotInv, Asked, GoTo
<1> QED BY <1>2, <1>3, <1>4, <1>5, <1>6, <1>7, SectionKeeps

\* heartbeat: the group advances, and its member's session is renewed.
LEMMA HeartbeatKeeps ==
    ASSUME GroupInv, NEW c \in Clients, Heartbeat(c)
    PROVE  GroupParts' /\ Onward
<1>1. PICK g : g = Advance(group[slot[c]], clock)
  OBVIOUS
<1>2. PICK h : h = IF Active(g, call[c].id, call[c].gen) THEN Touch(g, call[c].id, clock) ELSE g
  OBVIOUS
<1>3. /\ pc[c] = "heartbeat" /\ SetGroup(slot[c], h) /\ Finish(c, g)
      /\ UNCHANGED <<clock, table, used, births, woken, stored, late, outcomes, calls, failures>>
  BY <1>1, <1>2, Zenon DEF Heartbeat
<1>4. /\ slot[c] = table /\ table \in Slots
      /\ group[slot[c]] = NoGroup \/ Sound(group[slot[c]])
  BY <1>3, Locked
<1>5. clock \in Nat /\ used \subseteq MemberIds /\ woken \subseteq Clients
  BY DEF GroupInv, GroupParts, TypeInv
<1>6. Moved(g, group[table]) /\ (g = NoGroup \/ Sound(g))
  BY <1>1, <1>4, <1>5, AdvanceMoved
<1>7. CASE Active(g, call[c].id, call[c].gen)
  <2>1. g # NoGroup /\ call[c].id \in Ids(g)
    BY <1>7, NoGroupEmpty DEF Active
  <2>2. Continues(h, g)
    BY <1>2, <1>5, <1>6, <1>7, <2>1, TouchSound
  <2>3. Moved(h, group[table])
    BY <1>4, <1>6, <2>1, <2>2, MovedOn
  <2> QED BY <1>3, <1>4, <1>5, <2>3, FinishKeeps, SectionKeeps
<1>8. CASE ~Active(g, call[c].id, call[c].gen)
  <2>1. h = g
    BY <1>2, <1>8
  <2> QED BY <1>3, <1>4, <1>5, <1>6, <2>1, FinishKeeps, SectionKeeps
<1> QED BY <1>7, <1>8

\* leave: the group advances, and goes on without its member.
LEMMA LeaveKeeps ==
    ASSUME GroupInv, NEW c \in Clients, Leave(c)
    PROVE  GroupParts' /\ Onward
<1>1. PICK g : g = Advance(group[slot[c]], clock)
  OBVIOUS
<1>2. PICK h : h = IF call[c].id \in Ids(g) THEN Without(g, call[c].id, clock) ELSE g
  OBVIOUS
<1>3. /\ pc[c] = "leave" /\ SetGroup(slot[c], h) /\ Finish(c, h)
      /\ UNCHANGED <<clock, table, used, births, woken, stored, late, outcomes, calls, failures>>
  BY <1>1, <1>2, Zenon DEF Leave
<1>4. /\ slot[c] = table /\ table \in Slots
      /\ group[slot[c]] = NoGroup \/ Sound(group[slot[c]])
  BY <1>3, Locked
<1>5. clock \in Nat /\ used \subseteq MemberIds /\ woken \subseteq Clients
  BY DEF GroupInv, GroupParts, TypeInv
<1>6. Moved(g, group[table]) /\ (g = NoGroup \/ Sound(g))
  BY <1>1, <1>4, <1>5, AdvanceMoved
<1>7. CASE call[c].id \in Ids(g)
  <2>1. g # NoGroup
    BY <1>7, NoGroupEmpty
  <2>2. Continues(h, g)
    BY <1>2, <1>5, <1>6, <1>7, <2>1, WithoutContinues
  <2>3. Moved(h, group[table])
    BY <1>4, <1>6, <2>1, <2>2, MovedOn
  <2> QED BY <1>3, <1>4, <1>5, <2>3, FinishKeeps, SectionKeeps
<1>8. CASE call[c].id \notin Ids(g)
  <2>1. h = g
    BY <1>2, <1>8
  <2> QED BY <1>3, <1>4, <1>5, <1>6, <2>1, FinishKeeps, SectionKeeps
<1> QED BY <1>7, <1>8

\* commit: the group advances, and the request may go on to the store.
LEMMA CommitKeeps ==
    ASSUME GroupInv, NEW c \in Clients, Commit(c)
    PROVE  GroupParts' /\ Onward
<1>1. PICK g : g = Advance(group[slot[c]], clock)
  OBVIOUS
<1>2. /\ pc[c] = "commit" /\ SetGroup(slot[c], g)
      /\ \/ Finish(c, g)
         \/ /\ MayCommit(g, call[c])
            /\ GoTo(c, "load")
            /\ call' = [call EXCEPT ![c].changed = g # group[slot[c]], ![c].target = g.born]
      /\ UNCHANGED <<clock, table, used, births, woken, stored, late, outcomes, calls, failures>>
  BY <1>1, Zenon DEF Commit
<1>3. /\ slot[c] = table /\ table \in Slots
      /\ group[slot[c]] = NoGroup \/ Sound(group[slot[c]])
  BY <1>2, Locked
<1>4. /\ clock \in Nat /\ used \subseteq MemberIds /\ woken \subseteq Clients
      /\ call \in [Clients -> Requests] /\ \A d \in Clients : Asked(d)
  BY DEF GroupInv, GroupParts, TypeInv
<1>5. Moved(g, group[table]) /\ (g = NoGroup \/ Sound(g))
  BY <1>1, <1>3, <1>4, AdvanceMoved
<1>6. call' \in [Clients -> Requests] /\ \A d \in Clients : Asked(d)'
  <2>1. CASE Finish(c, g)
    BY <2>1, FinishKeeps
  <2>2. CASE /\ MayCommit(g, call[c])
             /\ GoTo(c, "load")
             /\ call' = [call EXCEPT ![c].changed = g # group[slot[c]], ![c].target = g.born]
    <3>1. g # NoGroup
      BY <2>2, NoGroupEmpty DEF MayCommit, Active
    <3>2. g.born \in Nat
      BY <1>5, <3>1, FormedFacts DEF Sound
    <3>3. PICK r \in Requests : r = call[c]
      BY <1>4
    <3>4. PICK changed \in BOOLEAN : changed = (g # group[slot[c]])
      OBVIOUS
    <3>5. PICK q : q = [r EXCEPT !.changed = changed, !.target = g.born]
      OBVIOUS
    <3>6. q \in Requests /\ q.op = r.op /\ q.ids = r.ids /\ q.value = r.value
      <4>1. PICK born \in Nat : born = g.born
        BY <3>2
      <4>2. q = [r EXCEPT !.changed = changed, !.target = born]
        BY <3>5, <4>1
      <4>3. r \in Requests /\ changed \in BOOLEAN /\ born \in Nat
        OBVIOUS
      <4>4. q \in Requests
        BY ONLY <4>2, <4>3 DEF Requests
      <4>5. q.op = r.op /\ q.ids = r.ids /\ q.value = r.value
        BY ONLY <4>2, <4>3 DEF Requests
      <4> QED BY <4>4, <4>5
    <3>7. call' = [call EXCEPT ![c] = q]
      BY <1>4, <2>2, <3>3, <3>4, <3>5
    <3>8. q.op = "sync" => (q.ids = {} <=> q.value = NoValue)
      BY <1>4, <3>3, <3>6 DEF Asked
    <3> QED BY <2>2, <3>6, <3>7, <3>8, CallsKept DEF GoTo
  <2> QED BY <1>2, <2>1, <2>2
<1> QED BY <1>2, <1>3, <1>4, <1>5, <1>6, SectionKeeps

\* A refused join only advances the group.
LEMMA JoinRefusedKeeps ==
    ASSUME GroupInv, NEW c \in Clients, JoinAdmit(c), Return(c),
           SetGroup(slot[c], Advance(group[slot[c]], call[c].now)), UNCHANGED <<used, births>>
    PROVE  GroupParts' /\ Onward
<1>1. PICK g : g = Advance(group[slot[c]], call[c].now)
  OBVIOUS
<1>2. /\ pc[c] = "admit" /\ Notify(slot[c], g # group[slot[c]], {})
      /\ UNCHANGED <<clock, table, stored, late, outcomes, calls, failures>>
  BY <1>1, Zenon DEF JoinAdmit
<1>3. /\ slot[c] = table /\ table \in Slots
      /\ group[slot[c]] = NoGroup \/ Sound(group[slot[c]])
  BY <1>2, Locked
<1>4. used \subseteq MemberIds /\ call[c] \in Requests
  BY DEF GroupInv, GroupParts, TypeInv
<1>5. call[c].now \in Nat
  BY <1>4 DEF Requests
<1>6. Moved(g, group[table])
  BY <1>1, <1>3, <1>5, AdvanceMoved
<1>7. woken' \subseteq Clients
  BY <1>2, NotifyType
<1> QED BY <1>1, <1>2, <1>3, <1>4, <1>6, <1>7, ReturnKeeps, SectionKeeps

\* The offer of a join that is not refused leaves a common protocol.
LEMMA AdmittedOffer ==
    ASSUME NEW g, Sound(g), NEW r \in Requests, ~Refused(g, r), NEW id,
           r.id # 0 => id = r.id
    PROVE  \E p \in Range(r.offer) : \A i \in Ids(g) \ {id} : p \in Range(g.members[i].offer)
<1>1. ~IsNone(g) /\ Ids(g) \subseteq MemberIds
  BY FormedFacts DEF Sound
<1>2. Compatible(g, r.id, r.offer)
  BY <1>1 DEF Refused
<1>3. PICK p \in Range(r.offer) : \A i \in Ids(g) \ {r.id} : p \in Range(g.members[i].offer)
  BY <1>2 DEF Compatible, Common, Ids
<1>4. \A i \in Ids(g) \ {id} : p \in Range(g.members[i].offer)
  BY <1>1, <1>3, MemberIdsAssumption
<1> QED BY <1>4

\* An admitted join founds a group, or adds a member to one that rebalances.
LEMMA JoinAdmittedKeeps ==
    ASSUME GroupInv, NEW c \in Clients, JoinAdmit(c),
           NEW g, g = Advance(group[slot[c]], call[c].now), ~Refused(g, call[c]),
           NEW id \in IF call[c].id = 0 THEN MemberIds \ used ELSE {call[c].id},
           NEW h, h = Admit(g, id, call[c].offer, call[c].timeouts, call[c].now, births + 1),
           births' = (IF IsNone(g) THEN births + 1 ELSE births),
           used' = used \cup {id}, SetGroup(slot[c], h), GoTo(c, "tail"),
           call' = [call EXCEPT ![c] = [NoCall EXCEPT !.op = "join", !.id = id, !.target = h.reb]]
    PROVE  GroupParts' /\ Onward
<1>1. PICK r \in Requests : r = call[c]
  BY DEF GroupInv, GroupParts, TypeInv
<1>2. /\ pc[c] = "admit" /\ Notify(slot[c], g # group[slot[c]], {})
      /\ UNCHANGED <<clock, table, stored, late, outcomes, calls, failures>>
  BY Zenon DEF JoinAdmit
<1>3. /\ slot[c] = table /\ table \in Slots
      /\ group[slot[c]] = NoGroup \/ Sound(group[slot[c]])
  BY <1>2, Locked
<1>4. r.now \in Nat /\ r.id \in MemberIds \cup {0} /\ r.offer \in Offers /\ r.timeouts \in Timeouts
  <2>1. r.offer \in Offers /\ r.timeouts \in Timeouts
    BY <1>1, <1>2 DEF GroupInv, GroupParts, Asked
  <2> QED BY <2>1 DEF Requests
<1>5. id \in MemberIds
  BY <1>1, <1>4
<1>6. births \in Nat /\ used \subseteq MemberIds /\ outcomes \in Promises
  BY DEF GroupInv, GroupParts, TypeInv
<1>7. Moved(g, group[table]) /\ (g = NoGroup \/ Sound(g))
  BY <1>1, <1>3, <1>4, AdvanceMoved
<1>8. woken' \subseteq Clients
  BY <1>2, NotifyType
<1>9. h.reb \in Nat => call' \in [Clients -> Requests] /\ \A d \in Clients : Asked(d)'
  <2> HAVE h.reb \in Nat
  <2>1. PICK q : q = [NoCall EXCEPT !.op = "join", !.id = id, !.target = h.reb]
    OBVIOUS
  <2>2. q \in Requests /\ q.op = "join"
    <3>1. PICK n \in Requests : n = NoCall
      BY NoCallType
    <3>2. PICK reb \in Nat : reb = h.reb
      OBVIOUS
    <3>3. q = [n EXCEPT !.op = "join", !.id = id, !.target = reb]
      BY <2>1, <3>1, <3>2
    <3>4. id \in MemberIds /\ n \in Requests /\ reb \in Nat
      BY <1>5
    <3>5. q \in Requests
      BY ONLY <3>3, <3>4 DEF Requests
    <3>6. q.op = "join"
      BY ONLY <3>3, <3>4 DEF Requests
    <3> QED BY <3>5, <3>6
  <2>3. pc' = [pc EXCEPT ![c] = "tail"] /\ call' = [call EXCEPT ![c] = q]
    BY <2>1 DEF GoTo
  <2> QED BY <2>2, <2>3, CallsKept
<1>10. CASE g # NoGroup
  <2>1. \E p \in Range(r.offer) : \A i \in Ids(g) \ {id} : p \in Range(g.members[i].offer)
    <3>1. r.id # 0 => id = r.id
      BY <1>1
    <3> QED BY <1>1, <1>7, <1>10, <3>1, AdmittedOffer
  <2>2. Continues(h, g) /\ h # NoGroup /\ h.reb \in Nat
    BY <1>1, <1>4, <1>5, <1>7, <1>10, <2>1, AdmitContinues
  <2>3. Moved(h, group[table])
    BY <1>3, <1>7, <1>10, <2>2, MovedOn
  <2>4. births' = births
    BY <1>7, <1>10, FormedFacts DEF Sound
  <2>5. used' \subseteq MemberIds
    BY <1>5, <1>6
  <2> QED BY <1>2, <1>3, <1>8, <1>9, <2>2, <2>3, <2>4, <2>5, SectionKeeps
<1>11. CASE g = NoGroup
  <2>1. births' = births + 1
    BY <1>11, NoGroupEmpty DEF IsNone
  <2>2. Sound(h) /\ h.born = births + 1 /\ h.gen = 0 /\ h.reb \in Nat
    BY <1>1, <1>4, <1>5, <1>6, <1>11, AdmitFounds
  <2>3. /\ \A x \in outcomes.elected \cup outcomes.assigned : x.born \in Nat /\ x.born <= births
    BY <1>6 DEF GroupInv, GroupParts, Past, Promises
  <2>4. \A x \in outcomes.elected \cup outcomes.assigned : x.born <= births' /\ x.born # births'
    BY <1>6, <2>1, <2>3
  <2>5. Told(h, outcomes)
    BY <2>1, <2>2, <2>4 DEF Told
  <2>6. /\ group'[table] = h
        /\ \A t \in Slots \ {table} : group'[t] = group[t]
    BY <1>3, SetGroupAt
  <2>7. \A t \in Slots \ {table} : group[t] = NoGroup
    BY DEF GroupInv, GroupParts, OneGroup
  <2>8. OneGroup'
    BY <1>2, <2>1, <2>2, <2>5, <2>6, <2>7 DEF OneGroup
  <2>9. Past'
    BY <1>2, <2>4 DEF GroupInv, GroupParts, Past
  <2>10. TypeInv'
    <3>1. births' \in Nat /\ used' \subseteq MemberIds
      BY <1>5, <1>6, <2>1
    <3>2. DOMAIN group' = Slots /\ began' \in [Slots -> Nat]
      BY <1>3, SetGroupAt
    <3> QED BY <1>2, <1>8, <1>9, <2>2, <3>1, <3>2 DEF GroupInv, GroupParts, TypeInv
  <2>11. Onward
    BY <1>6, <2>1, <2>2, <2>6, <2>7 DEF Onward
  <2> QED BY <1>9, <2>2, <2>8, <2>9, <2>10, <2>11 DEF GroupParts
<1> QED BY <1>10, <1>11

\* join, first locked section, refused or not.
LEMMA JoinAdmitKeeps ==
    ASSUME GroupInv, NEW c \in Clients, JoinAdmit(c)
    PROVE  GroupParts' /\ Onward
<1>1. PICK g : g = Advance(group[slot[c]], call[c].now)
  OBVIOUS
<1>2. \/ /\ SetGroup(slot[c], g) /\ Return(c) /\ UNCHANGED <<used, births>>
      \/ /\ ~Refused(g, call[c])
         /\ births' = (IF IsNone(g) THEN births + 1 ELSE births)
         /\ \E id \in IF call[c].id = 0 THEN MemberIds \ used ELSE {call[c].id} : \E h :
              /\ h = Admit(g, id, call[c].offer, call[c].timeouts, call[c].now, births + 1)
              /\ used' = used \cup {id}
              /\ SetGroup(slot[c], h)
              /\ call' = [call EXCEPT ![c] = [NoCall EXCEPT !.op = "join", !.id = id,
                                                            !.target = h.reb]]
         /\ GoTo(c, "tail")
  BY <1>1, Zenon DEF JoinAdmit
<1>3. CASE SetGroup(slot[c], g) /\ Return(c) /\ UNCHANGED <<used, births>>
  BY <1>1, <1>3, JoinRefusedKeeps
<1>4. CASE /\ ~Refused(g, call[c])
           /\ births' = (IF IsNone(g) THEN births + 1 ELSE births)
           /\ \E id \in IF call[c].id = 0 THEN MemberIds \ used ELSE {call[c].id} : \E h :
                /\ h = Admit(g, id, call[c].offer, call[c].timeouts, call[c].now, births + 1)
                /\ used' = used \cup {id}
                /\ SetGroup(slot[c], h)
                /\ call' = [call EXCEPT ![c] = [NoCall EXCEPT !.op = "join", !.id = id,
                                                              !.target = h.reb]]
           /\ GoTo(c, "tail")
  BY <1>1, <1>4, JoinAdmittedKeeps, Zenon
<1> QED BY <1>2, <1>3, <1>4

\* The answers of a generation's joins and syncs that the group's state gives.
LEMMA ElectedFits ==
    ASSUME NEW g, Sound(g), NEW id \in Ids(g), g.members[id].result # NoResult,
           NEW told \in Promises, Told(g, told), NEW e, e = Elected(g, id)
    PROVE  /\ e \in [born : Nat, gen : Nat, leader : MemberIds,
                     protocol : {<<p>> : p \in Protocols}]
           /\ e.born = g.born /\ e.gen = g.gen
           /\ e = Elected(g, g.leader) /\ g.phase # "Joining"
           /\ \A x \in told.elected : x.born = e.born /\ x.gen = e.gen => x = e
<1>1. Formed(g) /\ Together(g)
  BY DEF Sound
<1>2. g.phase # "Joining"
  BY <1>1 DEF Together
<1>3. /\ g.members[id].result = g.members[g.leader].result
      /\ g.members[id].result.gen = g.gen
  BY <1>1, <1>2 DEF Together
<1>4. g.members[id].result \in Results /\ g.born \in Nat
  BY <1>1, FormedFacts DEF Members
<1>5. e = Elected(g, g.leader) /\ e.born = g.born /\ e.gen = g.gen
  BY <1>3 DEF Elected
<1>6. \A x \in told.elected : x.born = e.born /\ x.gen = e.gen => x = e
  BY <1>2, <1>5 DEF Told
<1>7. e \in [born : Nat, gen : Nat, leader : MemberIds, protocol : {<<p>> : p \in Protocols}]
  BY <1>4 DEF Elected, Results
<1> QED BY <1>2, <1>5, <1>6, <1>7

\* The plan a sync returns is the one its generation's other syncs returned.
LEMMA AssignedFits ==
    ASSUME NEW g, Sound(g), g.phase = "Stable", NEW id \in Ids(g),
           NEW told \in Promises, Told(g, told),
           NEW a, a = [born |-> g.born, gen |-> g.gen, value |-> g.members[id].assignment]
    PROVE  /\ a \in [born : Nat, gen : Nat, value : Values]
           /\ a.born = g.born /\ a.gen = g.gen /\ a.value = g.members[g.leader].assignment
           /\ \A y \in told.assigned : y.born = a.born /\ y.gen = a.gen => y = a
<1>1. Formed(g) /\ Together(g)
  BY DEF Sound
<1>2. /\ g.members[id].assignment = g.members[g.leader].assignment
      /\ g.members[id].assignment # NoValue
  BY <1>1 DEF Together
<1>3. g.members[id].assignment \in Values /\ g.born \in Nat /\ g.gen \in Nat
  BY <1>1, <1>2, FormedFacts DEF Members
<1>4. \A y \in told.assigned :
          y = [born |-> y.born, gen |-> y.gen, value |-> y.value]
  BY DEF Promises
<1>5. \A y \in told.assigned : y.born = a.born /\ y.gen = a.gen => y.value = a.value
  BY <1>2 DEF Told
<1>6. \A y \in told.assigned : y.born = a.born /\ y.gen = a.gen => y = a
  BY ONLY <1>4, <1>5, a = [born |-> g.born, gen |-> g.gen, value |-> g.members[id].assignment]
<1> QED BY <1>2, <1>3, <1>6

\* The sleep of a join or sync leaves its request as it was.
LEMMA SleepKeeps ==
    ASSUME GroupInv, NEW c \in Clients, pc[c] = "check", NEW g, Sound(g), call[c].id \in Ids(g),
           Sleep(c, g)
    PROVE  /\ call' \in [Clients -> Requests] /\ \A d \in Clients : Asked(d)'
           /\ call'[c].op = call[c].op /\ call'[c].id = call[c].id
           /\ call'[c].gen = call[c].gen /\ call'[c].target = call[c].target
<1>1. call \in [Clients -> Requests] /\ Asked(c)
  BY DEF GroupInv, GroupParts, TypeInv
<1>2. PICK r \in Requests : r = call[c]
  BY <1>1
<1>3. PICK d : d = Min({g.deadline, g.members[call[c].id].deadline})
  OBVIOUS
<1>4. d \in Nat
  <2>1. g.deadline \in Nat /\ g.members[call[c].id].deadline \in Nat
    BY FormedFacts DEF Sound, Members
  <2>2. d \in {g.deadline, g.members[call[c].id].deadline}
    BY <1>3, <2>1, Smallest
  <2> QED BY <2>1, <2>2
<1>5. PICK sub \in BOOLEAN : sub = (call[c].op = "sync")
  OBVIOUS
<1>6. PICK q : q = [r EXCEPT !.deadline = d, !.submitted = sub]
  OBVIOUS
<1>7. /\ q \in Requests /\ q.op = r.op /\ q.ids = r.ids /\ q.value = r.value
      /\ q.id = r.id /\ q.gen = r.gen /\ q.target = r.target
  BY ONLY <1>2, <1>4, <1>5, <1>6 DEF Requests
<1>8. call' = [call EXCEPT ![c] = q] /\ pc' = [pc EXCEPT ![c] = "sleep"]
  BY <1>1, <1>2, <1>3, <1>5, <1>6 DEF Sleep, GoTo
<1>9. q.op = "sync" => (q.ids = {} <=> q.value = NoValue)
  BY <1>1, <1>2, <1>7 DEF Asked
<1>10. call' \in [Clients -> Requests] /\ \A e \in Clients : Asked(e)'
  BY <1>7, <1>8, <1>9, CallsKept
<1>11. call'[c] = q
  BY <1>1, <1>8
<1> QED BY <1>2, <1>7, <1>10, <1>11

\* join, the loop: what it returns is what its generation agreed on.
LEMMA JoinCheckKeeps ==
    ASSUME GroupInv, NEW c \in Clients, JoinCheck(c)
    PROVE  GroupParts' /\ Onward
<1>1. PICK g : g = Advance(group[slot[c]], clock)
  OBVIOUS
<1>2. PICK r \in Requests : r = call[c]
  BY DEF GroupInv, GroupParts, TypeInv
<1>3. /\ pc[c] = "check" /\ r.op = "join" /\ SetGroup(slot[c], g)
      /\ Notify(slot[c], g # group[slot[c]], IF Answered(r, g) THEN {c} ELSE {})
      /\ IF Answered(r, g) THEN Return(c) ELSE Sleep(c, g)
      /\ outcomes' = IF \/ IsNone(g) \/ g.reb # r.target \/ r.id \notin Ids(g)
                        \/ ~Answered(r, g)
                     THEN outcomes
                     ELSE [outcomes EXCEPT !.elected = @ \cup {Elected(g, r.id)}]
      /\ UNCHANGED <<clock, table, used, births, stored, late, calls, failures>>
  BY <1>1, <1>2, Zenon DEF JoinCheck
<1>4. /\ slot[c] = table /\ table \in Slots
      /\ group[slot[c]] = NoGroup \/ Sound(group[slot[c]])
  BY <1>3, Locked
<1>5. clock \in Nat /\ used \subseteq MemberIds /\ outcomes \in Promises
  BY DEF GroupInv, GroupParts, TypeInv
<1>6. Moved(g, group[table]) /\ (g = NoGroup \/ Sound(g))
  BY <1>1, <1>4, <1>5, AdvanceMoved
<1>7. woken' \subseteq Clients
  BY <1>3, NotifyType
<1>8. call' \in [Clients -> Requests] /\ \A d \in Clients : Asked(d)'
  <2>1. CASE Answered(r, g)
    BY <1>3, <2>1, ReturnKeeps
  <2>2. CASE ~Answered(r, g)
    <3>1. ~IsNone(g) /\ r.id \in Ids(g) /\ Sleep(c, g)
      BY <1>3, <2>2 DEF Answered
    <3>2. Sound(g)
      BY <1>6, <3>1, NoGroupEmpty DEF IsNone
    <3> QED BY <1>2, <1>3, <3>1, <3>2, SleepKeeps
  <2> QED BY <2>1, <2>2
<1>9. CASE outcomes' = outcomes
  BY <1>3, <1>4, <1>5, <1>6, <1>7, <1>8, <1>9, SectionKeeps
<1>10. CASE outcomes' # outcomes
  <2>1. /\ ~IsNone(g) /\ r.id \in Ids(g) /\ g.reb = r.target /\ Answered(r, g)
        /\ outcomes' = [outcomes EXCEPT !.elected = @ \cup {Elected(g, r.id)}]
    BY <1>3, <1>10
  <2>2. Sound(g) /\ g # NoGroup /\ g.members[r.id].result # NoResult
    BY <1>3, <1>6, <2>1, NoGroupEmpty DEF IsNone, Answered
  <2>3. group[table] # NoGroup /\ Continues(g, group[table])
    BY <1>6, <2>2 DEF Moved
  <2>4. g.born = births /\ Told(g, outcomes)
    BY <1>3, <1>5, <2>2, <2>3, <1>4, Locked DEF Continues
  <2>5. PICK e : e = Elected(g, r.id)
    OBVIOUS
  <2>6. /\ e \in [born : Nat, gen : Nat, leader : MemberIds,
                  protocol : {<<p>> : p \in Protocols}]
        /\ e.born = g.born /\ e.gen = g.gen
        /\ e = Elected(g, g.leader) /\ g.phase # "Joining"
        /\ \A x \in outcomes.elected : x.born = e.born /\ x.gen = e.gen => x = e
    BY <1>5, <2>1, <2>2, <2>4, <2>5, ElectedFits
  <2>7. outcomes' \in Promises /\ outcomes'.elected = outcomes.elected \cup {e}
        /\ outcomes'.assigned = outcomes.assigned
    BY <1>5, <2>1, <2>5, <2>6 DEF Promises
  <2>8. g.gen \in Nat /\ births \in Nat
    BY <2>2, FormedFacts DEF Sound, GroupInv, GroupParts, TypeInv
  <2>9. Told(g, outcomes')
    BY <2>4, <2>6, <2>7, <2>8 DEF Told
  <2>10. /\ group'[table] = g
         /\ \A t \in Slots \ {table} : group'[t] = group[t]
         /\ DOMAIN group' = Slots /\ began' \in [Slots -> Nat]
    BY <1>3, <1>4, SetGroupAt
  <2>11. OneGroup'
    BY <1>3, <2>2, <2>4, <2>9, <2>10 DEF GroupInv, GroupParts, OneGroup
  <2>12. Past'
    <3>1. \A x \in outcomes'.elected \cup outcomes'.assigned : x.born <= births'
      BY <1>3, <2>4, <2>6, <2>7, <2>8 DEF GroupInv, GroupParts, Past
    <3>2. \A x, y \in outcomes'.elected : x.born = y.born /\ x.gen = y.gen => x = y
      BY <2>6, <2>7 DEF GroupInv, GroupParts, Past
    <3> QED BY <2>7, <3>1, <3>2 DEF GroupInv, GroupParts, Past
  <2>13. TypeInv'
    BY <1>3, <1>7, <1>8, <2>7, <2>10 DEF GroupInv, GroupParts, TypeInv
  <2>14. Onward
    BY <1>3, <1>4, <1>6, MovesOnward
  <2> QED BY <1>8, <2>11, <2>12, <2>13, <2>14 DEF GroupParts
<1> QED BY <1>9, <1>10

\* A member that is heard from gives nobody an answer.
LEMMA TouchAnswers ==
    ASSUME NEW g, Sound(g), NEW id \in Ids(g), NEW now \in Nat, NEW h, h = Touch(g, id, now)
    PROVE  \A q \in Requests : Answered(q, h) => Answered(q, g)
<1>1. /\ Sound(h) /\ Ids(h) = Ids(g) /\ h.gen = g.gen /\ h.reb = g.reb /\ h.phase = g.phase
      /\ \A i \in Ids(g) : h.members[i].result = g.members[i].result
  BY TouchSound
<1> QED BY <1>1 DEF Answered, Active, IsNone

\* The syncs the code refuses once it holds the lock.
SyncRefused(g, r) ==
    \/ ~Active(g, r.id, r.gen) \/ g.phase = "Joining"
    \/ ~r.submitted /\ Invalid(g, r)

\* A sync that is not refused installs the leader's plan, or touches its member.
LEMMA SubmittedSound ==
    ASSUME NEW g, g = NoGroup \/ Sound(g), NEW r \in Requests, ~SyncRefused(g, r),
           r.ids = {} <=> r.value = NoValue, clock \in Nat, NEW h, h = Submitted(g, r)
    PROVE  /\ Sound(g) /\ Sound(h) /\ r.id \in Ids(g) /\ Ids(h) = Ids(g) /\ Continues(h, g)
           /\ h.born = g.born /\ h.gen = g.gen /\ h # NoGroup /\ g # NoGroup
           /\ h.phase \in {"AwaitingSync", "Stable"}
           /\ h.phase = g.phase =>
                \A q \in Requests : Answered(q, h) => Answered(q, g)
<1>1. ~IsNone(g) /\ r.id \in Ids(g) /\ g.gen = r.gen /\ g.phase # "Joining" /\ g # NoGroup
  BY NoGroupEmpty DEF SyncRefused, Active
<1>2. Sound(g) /\ g.phase \in {"AwaitingSync", "Stable"}
  BY <1>1, FormedFacts DEF Sound, Phases
<1>3. CASE r.submitted
  <2>1. h = g
    BY <1>3 DEF Submitted
  <2> QED BY <1>1, <1>2, <2>1, ContinuesSelf
<1>4. CASE ~r.submitted /\ r.id = g.leader /\ g.phase = "AwaitingSync"
  <2>1. h = Install(g, r.value, clock)
    BY <1>4 DEF Submitted
  <2>2. r.ids = Ids(g) /\ Ids(g) # {}
    <3>1. ~Invalid(g, r)
      BY <1>4 DEF SyncRefused
    <3> QED BY <1>2, <1>4, <3>1, FormedFacts DEF Invalid, Exact, Sound
  <2>3. r.value \in Values
    BY <2>2 DEF Requests
  <2>4. /\ Sound(h) /\ Ids(h) = Ids(g) /\ Continues(h, g)
        /\ h.born = g.born /\ h.gen = g.gen /\ h.phase = "Stable"
    BY <1>2, <1>4, <2>1, <2>3, InstallSound
  <2> QED BY <1>1, <1>2, <1>4, <2>4, FormedFacts DEF Sound
<1>5. CASE ~r.submitted /\ ~(r.id = g.leader /\ g.phase = "AwaitingSync")
  <2>1. h = Touch(g, r.id, clock)
    BY <1>5 DEF Submitted
  <2>2. /\ Sound(h) /\ Ids(h) = Ids(g) /\ Continues(h, g)
        /\ h.born = g.born /\ h.gen = g.gen /\ h.reb = g.reb /\ h.phase = g.phase
        /\ \A i \in Ids(g) : h.members[i].result = g.members[i].result
    BY <1>1, <1>2, <2>1, TouchSound
  <2>3. \A q \in Requests : Answered(q, h) => Answered(q, g)
    BY <1>1, <1>2, <2>1, TouchAnswers
  <2> QED BY <1>1, <1>2, <2>2, <2>3, FormedFacts DEF Sound
<1> QED BY <1>3, <1>4, <1>5

\* What one look of a sync does, in the terms of the lemmas above.
SyncLook(c, g, r, h) ==
    /\ h = IF SyncRefused(g, r) THEN g ELSE Submitted(g, r)
    /\ pc[c] = "check" /\ r.op = "sync" /\ Free(slot[c]) /\ SetGroup(slot[c], h)
    /\ Notify(slot[c], g # group[slot[c]] \/ h.phase # g.phase,
              IF SyncRefused(g, r) \/ h.phase = "Stable" THEN {c} ELSE {})
    /\ IF IsNone(g) THEN GoTo(c, "reclaim") /\ call' = [call EXCEPT ![c] = NoCall]
       ELSE IF SyncRefused(g, r) \/ h.phase = "Stable" THEN Return(c)
       ELSE Sleep(c, h)
    /\ outcomes' = IF \/ SyncRefused(g, r) \/ ~(SyncRefused(g, r) \/ h.phase = "Stable")
                      \/ ~Settled(h, r.id)
                   THEN outcomes
                   ELSE [outcomes EXCEPT !.assigned = @ \cup
                           {[born |-> h.born, gen |-> h.gen,
                             value |-> h.members[r.id].assignment]}]
    /\ UNCHANGED <<clock, table, used, births, stored, late, calls, failures>>

\* One look of a sync at its group.
LEMMA SyncCheckFacts ==
    ASSUME NEW c \in Clients, SyncCheck(c)
    PROVE  \E h : SyncLook(c, Advance(group[slot[c]], clock), call[c], h)
BY Zenon DEF SyncCheck, SyncRefused, SyncLook

\* sync, the loop: what it returns is its generation's plan.
LEMMA SyncCheckKeeps ==
    ASSUME GroupInv, NEW c \in Clients, SyncCheck(c)
    PROVE  GroupParts' /\ Onward
<1>1. PICK g : g = Advance(group[slot[c]], clock)
  OBVIOUS
<1>2. PICK r \in Requests : r = call[c]
  BY DEF GroupInv, GroupParts, TypeInv
<1>0. PICK h : SyncLook(c, g, r, h)
  BY <1>1, <1>2, SyncCheckFacts
<1>3. /\ h = IF SyncRefused(g, r) THEN g ELSE Submitted(g, r)
      /\ pc[c] = "check" /\ r.op = "sync" /\ Free(slot[c]) /\ SetGroup(slot[c], h)
      /\ Notify(slot[c], g # group[slot[c]] \/ h.phase # g.phase,
                IF SyncRefused(g, r) \/ h.phase = "Stable" THEN {c} ELSE {})
      /\ IF IsNone(g) THEN GoTo(c, "reclaim") /\ call' = [call EXCEPT ![c] = NoCall]
         ELSE IF SyncRefused(g, r) \/ h.phase = "Stable" THEN Return(c)
         ELSE Sleep(c, h)
      /\ outcomes' = IF \/ SyncRefused(g, r) \/ ~(SyncRefused(g, r) \/ h.phase = "Stable")
                        \/ ~Settled(h, r.id)
                     THEN outcomes
                     ELSE [outcomes EXCEPT !.assigned = @ \cup
                             {[born |-> h.born, gen |-> h.gen,
                               value |-> h.members[r.id].assignment]}]
      /\ UNCHANGED <<clock, table, used, births, stored, late, calls, failures>>
  BY <1>0, Zenon DEF SyncLook
<1>4. /\ slot[c] = table /\ table \in Slots
      /\ group[slot[c]] = NoGroup \/ Sound(group[slot[c]])
  BY <1>3, Locked
<1>5. /\ clock \in Nat /\ used \subseteq MemberIds /\ outcomes \in Promises
      /\ call \in [Clients -> Requests]
  BY DEF GroupInv, GroupParts, TypeInv
<1>6. Moved(g, group[table]) /\ (g = NoGroup \/ Sound(g))
  BY <1>1, <1>4, <1>5, AdvanceMoved
<1>7. woken' \subseteq Clients
  BY <1>3, NotifyType
<1>8. r.ids = {} <=> r.value = NoValue
  BY <1>2, <1>3 DEF GroupInv, GroupParts, Asked
<1>9. ~SyncRefused(g, r) =>
        /\ Sound(h) /\ r.id \in Ids(h) /\ Continues(h, g) /\ g # NoGroup /\ h # NoGroup
  BY <1>2, <1>3, <1>5, <1>6, <1>8, SubmittedSound
<1>10. Moved(h, group[table])
  <2>1. CASE SyncRefused(g, r)
    BY <1>3, <1>6, <2>1
  <2>2. CASE ~SyncRefused(g, r)
    BY <1>4, <1>6, <1>9, <2>2, MovedOn
  <2> QED BY <2>1, <2>2
<1>11. call' \in [Clients -> Requests] /\ \A d \in Clients : Asked(d)'
  <2>1. CASE IsNone(g)
    <3>1. NoCall \in Requests /\ NoCall.op # "sync"
      BY NoCallType
    <3> QED BY <1>3, <2>1, <3>1, CallsKept DEF GoTo
  <2>2. CASE Return(c)
    BY <2>2, ReturnKeeps
  <2>3. CASE ~IsNone(g) /\ ~Return(c)
    <3>1. Sleep(c, h) /\ ~SyncRefused(g, r)
      BY <1>3, <2>3
    <3> QED BY <1>2, <1>3, <1>9, <3>1, SleepKeeps
  <2> QED BY <2>1, <2>2, <2>3
<1>12. CASE outcomes' = outcomes
  BY <1>3, <1>4, <1>5, <1>7, <1>10, <1>11, <1>12, SectionKeeps
<1>13. CASE outcomes' # outcomes
  <2>1. PICK a : a = [born |-> h.born, gen |-> h.gen, value |-> h.members[r.id].assignment]
    OBVIOUS
  <2>2. /\ ~SyncRefused(g, r) /\ h.phase = "Stable"
        /\ outcomes' = [outcomes EXCEPT !.assigned = @ \cup {a}]
    BY <1>3, <1>13, <2>1
  <2>3. Sound(h) /\ r.id \in Ids(h) /\ h # NoGroup
    BY <1>9, <2>2
  <2>4. group[table] # NoGroup /\ Continues(h, group[table])
    BY <1>10, <2>3 DEF Moved
  <2>5. h.born = births /\ Told(h, outcomes)
    BY <1>3, <1>4, <1>5, <2>3, <2>4, Locked DEF Continues
  <2>6. /\ a \in [born : Nat, gen : Nat, value : Values]
        /\ a.born = h.born /\ a.gen = h.gen /\ a.value = h.members[h.leader].assignment
        /\ \A y \in outcomes.assigned : y.born = a.born /\ y.gen = a.gen => y = a
    BY <1>5, <2>1, <2>2, <2>3, <2>5, AssignedFits
  <2>7. outcomes' \in Promises /\ outcomes'.assigned = outcomes.assigned \cup {a}
        /\ outcomes'.elected = outcomes.elected
    BY <1>5, <2>2, <2>6 DEF Promises
  <2>8. h.gen \in Nat /\ births \in Nat
    BY <2>3, FormedFacts DEF Sound, GroupInv, GroupParts, TypeInv
  <2>9. Told(h, outcomes')
    BY <2>2, <2>5, <2>6, <2>7, <2>8 DEF Told
  <2>10. /\ group'[table] = h
         /\ \A t \in Slots \ {table} : group'[t] = group[t]
         /\ DOMAIN group' = Slots /\ began' \in [Slots -> Nat]
    BY <1>3, <1>4, SetGroupAt
  <2>11. OneGroup'
    BY <1>3, <2>3, <2>5, <2>9, <2>10 DEF GroupInv, GroupParts, OneGroup
  <2>12. Past'
    <3>1. \A x \in outcomes'.elected \cup outcomes'.assigned : x.born <= births'
      BY <1>3, <2>5, <2>6, <2>7, <2>8 DEF GroupInv, GroupParts, Past
    <3>2. \A x, y \in outcomes'.assigned : x.born = y.born /\ x.gen = y.gen => x = y
      BY <2>6, <2>7 DEF GroupInv, GroupParts, Past
    <3> QED BY <2>7, <3>1, <3>2 DEF GroupInv, GroupParts, Past
  <2>13. TypeInv'
    BY <1>3, <1>7, <1>11, <2>7, <2>10 DEF GroupInv, GroupParts, TypeInv
  <2>14. Onward
    BY <1>3, <1>4, <1>5, <1>10, MovesOnward
  <2> QED BY <1>11, <2>11, <2>12, <2>13, <2>14 DEF GroupParts
<1> QED BY <1>12, <1>13

\* A step that leaves the group and what it told alone.
LEMMA QuietKeeps ==
    ASSUME GroupInv, UNCHANGED <<group, began, used, births, outcomes>>,
           table' = table \/ table = 0 \/ group[table] = NoGroup,
           clock' \in Nat, calls' \in Nat, failures' \in Nat,
           stored' \in Manifests, late' \subseteq Manifests, woken' \subseteq Clients,
           call' \in [Clients -> Requests], \A d \in Clients : Asked(d)'
    PROVE  GroupParts' /\ Onward
<1>1. TypeInv'
  BY DEF GroupInv, GroupParts, TypeInv
<1>2. Past'
  BY DEF GroupInv, GroupParts, Past
<1>3. ASSUME NEW s \in Slots, group[s] # NoGroup
      PROVE  s = table' /\ Sound(group[s]) /\ group[s].born = births /\ Told(group[s], outcomes)
  BY <1>3, SlotsAssumption DEF GroupInv, GroupParts, OneGroup
<1>4. OneGroup'
  BY <1>3 DEF OneGroup
<1>5. births \in Nat /\ \A s \in Slots : group[s] # NoGroup => group[s].gen \in Nat
  BY FormedFacts DEF GroupInv, GroupParts, TypeInv, OneGroup, Sound
<1>6. Onward
  BY <1>5 DEF Onward
<1> QED BY <1>1, <1>2, <1>4, <1>6 DEF GroupParts

\* A request begins with its arguments.
LEMMA BeginKeeps ==
    ASSUME GroupInv, NEW c \in Clients, NEW s, NEW w, NEW r \in Requests, Begin(c, s, w, r),
           w = "admit" => r.offer \in Offers /\ r.timeouts \in Timeouts,
           r.op = "sync" => (r.ids = {} <=> r.value = NoValue),
           table' = table \/ table = 0
    PROVE  GroupParts' /\ Onward
<1>1. call' \in [Clients -> Requests] /\ \A d \in Clients : Asked(d)'
  BY CallsKept DEF Begin
<1>2. /\ calls' \in Nat
      /\ UNCHANGED <<clock, group, began, used, births, woken, stored, late, outcomes, failures>>
  BY DEF Begin, GroupInv, GroupParts, TypeInv
<1>3. /\ clock \in Nat /\ failures \in Nat /\ stored \in Manifests /\ late \subseteq Manifests
      /\ woken \subseteq Clients
  BY DEF GroupInv, GroupParts, TypeInv
<1> QED BY <1>1, <1>2, <1>3, QuietKeeps

\* Requests begin with arguments of their types.
LEMMA CallKeeps ==
    ASSUME GroupInv, NEW c \in Clients, Call(c)
    PROVE  GroupParts' /\ Onward
<1>1. PICK n \in Requests : n = NoCall
  BY NoCallType
<1>2. clock \in Nat /\ used \subseteq MemberIds
  BY DEF GroupInv, GroupParts, TypeInv
<1>3. CASE CallJoin(c)
  <2>1. PICK id \in used \cup {0}, offer \in Offers, t \in Timeouts :
          /\ table' = table \/ table = 0
          /\ Begin(c, table', "admit", [NoCall EXCEPT !.op = "join", !.id = id, !.offer = offer,
                                                !.timeouts = t, !.now = clock])
    BY <1>3 DEF CallJoin
  <2>2. PICK r : r = [n EXCEPT !.op = "join", !.id = id, !.offer = offer, !.timeouts = t,
                               !.now = clock]
    OBVIOUS
  <2>3. id \in MemberIds \cup {0}
    BY <1>2
  <2>4. r \in Requests /\ r.op = "join" /\ r.offer = offer /\ r.timeouts = t
    BY ONLY <1>1, <1>2, <2>2, <2>3, offer \in Offers, t \in Timeouts DEF Requests
  <2>5. Begin(c, table', "admit", r)
    BY <1>1, <2>1, <2>2
  <2> QED BY <2>1, <2>4, <2>5, BeginKeeps
<1>4. CASE CallSync(c)
  <2>1. PICK id \in used, gen \in 1 .. MaxCalls, ids \in SUBSET used, v \in Values \cup {NoValue} :
          /\ (ids = {}) <=> (v = NoValue)
          /\ Begin(c, table, "check", [NoCall EXCEPT !.op = "sync", !.id = id, !.gen = gen,
                                                     !.ids = ids, !.value = v])
    BY <1>4 DEF CallSync
  <2>2. PICK r : r = [n EXCEPT !.op = "sync", !.id = id, !.gen = gen, !.ids = ids, !.value = v]
    OBVIOUS
  <2>3. id \in MemberIds \cup {0} /\ gen \in Nat /\ ids \in SUBSET MemberIds
    BY <1>2, BoundsAssumption
  <2>4. r \in Requests /\ r.ids = ids /\ r.value = v
    BY ONLY <1>1, <2>2, <2>3, v \in Values \cup {NoValue} DEF Requests
  <2>5. Begin(c, table, "check", r) /\ table' = table
    BY <1>1, <1>4, <2>1, <2>2 DEF CallSync
  <2> QED BY <2>1, <2>4, <2>5, BeginKeeps
<1>5. CASE CallMember(c)
  <2>1. PICK op \in {"heartbeat", "leave", "commit"}, id \in used, gen \in 0 .. MaxCalls :
          Begin(c, table, op, [NoCall EXCEPT !.op = op, !.id = id, !.gen = gen])
    BY <1>5 DEF CallMember
  <2>2. PICK r : r = [n EXCEPT !.op = op, !.id = id, !.gen = gen]
    OBVIOUS
  <2>3. id \in MemberIds \cup {0} /\ gen \in Nat
    BY <1>2, BoundsAssumption
  <2>4. r \in Requests /\ r.op = op
    BY ONLY <1>1, <2>2, <2>3, op \in {"heartbeat", "leave", "commit"} DEF Requests
  <2>5. Begin(c, table, op, r) /\ table' = table
    BY <1>1, <1>5, <2>1, <2>2 DEF CallMember
  <2> QED BY <2>4, <2>5, BeginKeeps
<1> QED BY <1>3, <1>4, <1>5 DEF Call

\* A request's manifest is one.
LEMMA ManifestType ==
    ASSUME NEW r \in Requests
    PROVE  Manifest(r) \in Manifests
<1>1. r.rev \in Nat /\ r.target \in Nat /\ r.gen \in Nat
  BY DEF Requests
<1> QED BY <1>1 DEF Manifest, Manifests

\* The end of a commit.
LEMMA ReleaseKeeps ==
    ASSUME GroupInv, NEW c \in Clients, Release(c)
    PROVE  call' \in [Clients -> Requests] /\ \A d \in Clients : Asked(d)'
<1>1. CASE Return(c)
  BY <1>1, ReturnKeeps
<1>2. CASE ~Return(c)
  <2>1. GoTo(c, "notify") /\ call' = [call EXCEPT ![c] = [NoCall EXCEPT !.changed = TRUE]]
    BY <1>2 DEF Release
  <2>2. PICK n \in Requests : n = NoCall /\ n.op = "none"
    BY NoCallType
  <2>3. PICK r : r = [n EXCEPT !.changed = TRUE]
    OBVIOUS
  <2>4. r \in Requests /\ r.op = "none"
    BY ONLY <2>2, <2>3 DEF Requests
  <2>5. call' = [call EXCEPT ![c] = r]
    BY <2>1, <2>2, <2>3
  <2> QED BY <2>1, <2>4, <2>5, CallsKept DEF GoTo
<1> QED BY <1>1, <1>2

\* The steps of a request that leave the group alone.
LEMMA QuietStepKeeps ==
    ASSUME GroupInv, NEW c \in Clients,
           Wake(c) \/ LoadOffsets(c) \/ PutOffsets(c) \/ NotifyAfter(c) \/ Reclaim(c)
             \/ FailOffsets(c)
    PROVE  GroupParts' /\ Onward
<1>1. /\ clock \in Nat /\ calls \in Nat /\ failures \in Nat /\ stored \in Manifests
      /\ late \subseteq Manifests /\ woken \subseteq Clients /\ call \in [Clients -> Requests]
      /\ \A d \in Clients : Asked(d)
  BY DEF GroupInv, GroupParts, TypeInv
<1>2. PICK r \in Requests : r = call[c] /\ (r.op = "sync" => (r.ids = {} <=> r.value = NoValue))
  BY <1>1 DEF Asked
<1>3. Manifest(call[c]) \in Manifests
  BY <1>2, ManifestType
<1>4. CASE Wake(c)
  <2>1. PICK q : q = [r EXCEPT !.deadline = 0]
    OBVIOUS
  <2>2. q \in Requests /\ q.op = r.op /\ q.ids = r.ids /\ q.value = r.value
    BY ONLY <1>2, <2>1 DEF Requests
  <2>3. call' = [call EXCEPT ![c] = q] /\ pc' = [pc EXCEPT ![c] = "check"]
    BY <1>1, <1>2, <1>4, <2>1 DEF Wake, GoTo
  <2>4. call' \in [Clients -> Requests] /\ \A d \in Clients : Asked(d)'
    BY <1>2, <2>2, <2>3, CallsKept
  <2>5. woken' \subseteq Clients
    BY <1>1, <1>4 DEF Wake
  <2>6. UNCHANGED <<clock, table, group, began, used, births, stored, late, outcomes, calls, failures>>
    BY <1>4 DEF Wake
  <2> QED BY <1>1, <2>4, <2>5, <2>6, QuietKeeps
<1>5. CASE LoadOffsets(c)
  <2>1. PICK q : q = [r EXCEPT !.rev = stored.rev, !.tries = @ + 1]
    OBVIOUS
  <2>2. q \in Requests /\ q.op = r.op /\ q.ids = r.ids /\ q.value = r.value
    <3>1. stored.rev \in Nat
      BY <1>1 DEF Manifests
    <3>2. PICK rev \in Nat : rev = stored.rev
      BY <3>1
    <3>3. PICK tries \in Nat : tries = r.tries + 1
      BY DEF Requests
    <3>4. q = [r EXCEPT !.rev = rev, !.tries = tries]
      BY <2>1, <3>2, <3>3
    <3>5. r \in Requests
      OBVIOUS
    <3> QED BY ONLY <3>2, <3>3, <3>4, <3>5 DEF Requests
  <2>3. call' = [call EXCEPT ![c] = q] /\ pc' = [pc EXCEPT ![c] = "put"]
    BY <1>1, <1>2, <1>5, <2>1 DEF LoadOffsets, GoTo
  <2>4. call' \in [Clients -> Requests] /\ \A d \in Clients : Asked(d)'
    BY <1>2, <2>2, <2>3, CallsKept
  <2>5. UNCHANGED <<clock, table, group, began, used, births, woken, stored, late, outcomes,
                    calls, failures>>
    BY <1>5 DEF LoadOffsets
  <2> QED BY <1>1, <2>4, <2>5, QuietKeeps
<1>6. CASE PutOffsets(c)
  <2>1. /\ stored' = stored \/ stored' = Manifest(call[c])
        /\ UNCHANGED <<clock, table, group, began, used, births, woken, late, outcomes, calls,
                       failures>>
    BY <1>6 DEF PutOffsets
  <2>2. call' \in [Clients -> Requests] /\ \A d \in Clients : Asked(d)'
    <3>1. CASE Release(c)
      BY <3>1, ReleaseKeeps
    <3>2. CASE GoTo(c, "load") /\ UNCHANGED call
      <4>1. call' = [call EXCEPT ![c] = r] /\ pc' = [pc EXCEPT ![c] = "load"]
        BY <1>1, <1>2, <3>2 DEF GoTo
      <4> QED BY <1>2, <4>1, CallsKept
    <3> QED BY <1>6, <3>1, <3>2 DEF PutOffsets
  <2> QED BY <1>1, <1>3, <2>1, <2>2, QuietKeeps
<1>7. CASE NotifyAfter(c)
  <2>1. /\ Notify(slot[c], TRUE, {})
        /\ UNCHANGED <<clock, table, group, began, used, births, stored, late, outcomes, calls,
                       failures>>
    BY <1>7 DEF NotifyAfter
  <2>2. call' \in [Clients -> Requests] /\ \A d \in Clients : Asked(d)'
    <3>1. CASE Return(c)
      BY <3>1, ReturnKeeps
    <3>2. CASE GoTo(c, "reclaim") /\ UNCHANGED call
      <4>1. call' = [call EXCEPT ![c] = r] /\ pc' = [pc EXCEPT ![c] = "reclaim"]
        BY <1>1, <1>2, <3>2 DEF GoTo
      <4> QED BY <1>2, <4>1, CallsKept
    <3> QED BY <1>7, <3>1, <3>2 DEF NotifyAfter
  <2> QED BY <1>1, <2>1, <2>2, NotifyType, QuietKeeps
<1>8. CASE Reclaim(c)
  <2>1. /\ Return(c)
        /\ UNCHANGED <<clock, group, began, used, births, woken, stored, late, outcomes, calls,
                       failures>>
    BY <1>8 DEF Reclaim
  <2>2. table' = table \/ group[table] = NoGroup
    <3>1. CASE ~Reclaimable(c)
      BY <1>8, <3>1 DEF Reclaim
    <3>2. CASE Reclaimable(c)
      <4>1. IsNone(group[table]) /\ pc[c] # "idle"
        BY <1>8, <3>2 DEF Reclaim, Reclaimable
      <4>2. slot[c] = table /\ (group[slot[c]] = NoGroup \/ Sound(group[slot[c]]))
        BY <4>1, Locked
      <4> QED BY <4>1, <4>2, FormedFacts DEF Sound
    <3> QED BY <3>1, <3>2
  <2> QED BY <1>1, <2>1, <2>2, ReturnKeeps, QuietKeeps
<1>9. CASE FailOffsets(c)
  <2>1. /\ Release(c) /\ failures' = failures + 1
        /\ late' = late \/ late' = late \cup {Manifest(call[c])}
        /\ UNCHANGED <<clock, table, group, began, used, births, woken, stored, outcomes, calls>>
    BY <1>9 DEF FailOffsets
  <2>2. failures' \in Nat /\ late' \subseteq Manifests
    BY <1>1, <1>3, <2>1
  <2> QED BY <1>1, <2>1, <2>2, ReleaseKeeps, QuietKeeps
<1> QED BY <1>4, <1>5, <1>6, <1>7, <1>8, <1>9

\* Every step of a request.
LEMMA StepKeeps ==
    ASSUME GroupInv, NEW c \in Clients, Step(c) \/ FailOffsets(c)
    PROVE  GroupParts' /\ Onward
<1>1. CASE Wake(c) \/ LoadOffsets(c) \/ PutOffsets(c) \/ NotifyAfter(c) \/ Reclaim(c)
             \/ FailOffsets(c)
  BY <1>1, QuietStepKeeps
<1> QED BY <1>1, JoinAdmitKeeps, JoinTailKeeps, JoinCheckKeeps, SyncCheckKeeps, HeartbeatKeeps,
           LeaveKeeps, CommitKeeps DEF Step

\* Sweeping, replacing the broker, late writes and time.
LEMMA OthersKeep ==
    ASSUME GroupInv, LatePut \/ Sweep \/ Replace \/ Tick \/ UNCHANGED vars
    PROVE  GroupParts' /\ Onward
<1>1. /\ clock \in Nat /\ calls \in Nat /\ failures \in Nat /\ stored \in Manifests
      /\ late \subseteq Manifests /\ woken \subseteq Clients /\ call \in [Clients -> Requests]
      /\ used \subseteq MemberIds /\ births \in Nat /\ outcomes \in Promises
      /\ \A d \in Clients : Asked(d)
  BY DEF GroupInv, GroupParts, TypeInv
<1>2. CASE LatePut
  <2>1. /\ late' \subseteq Manifests /\ stored' \in Manifests
        /\ UNCHANGED <<clock, table, group, began, used, births, pc, slot, call, woken, outcomes,
                       calls, failures>>
    BY <1>1, <1>2 DEF LatePut
  <2>2. \A d \in Clients : Asked(d)'
    BY <1>1, <2>1 DEF Asked
  <2> QED BY <1>1, <2>1, <2>2, QuietKeeps
<1>3. CASE Tick \/ UNCHANGED vars
  <2>1. /\ clock' \in Nat
        /\ UNCHANGED <<table, group, began, used, births, pc, slot, call, woken, stored, late,
                       outcomes, calls, failures>>
    BY <1>1, <1>3 DEF Tick, vars
  <2>2. \A d \in Clients : Asked(d)'
    BY <1>1, <2>1 DEF Asked
  <2> QED BY <1>1, <2>1, <2>2, QuietKeeps
<1>4. CASE Sweep
  <2>1. PICK g : g = Advance(group[table], clock)
    OBVIOUS
  <2>2. /\ table # 0 /\ SetGroup(table, g) /\ (table' = IF IsNone(g) THEN 0 ELSE table)
        /\ UNCHANGED <<clock, used, births, pc, slot, call, woken, stored, late, outcomes, calls,
                       failures>>
    BY <1>4, <2>1 DEF Sweep
  <2>3. table \in Slots /\ (group[table] = NoGroup \/ Sound(group[table]))
    BY <2>2 DEF GroupInv, SlotInv, GroupParts, OneGroup
  <2>4. Moved(g, group[table]) /\ (g = NoGroup \/ Sound(g))
    BY <1>1, <2>1, <2>3, AdvanceMoved
  <2>5. table' = table \/ g = NoGroup
    BY <2>2, <2>4, FormedFacts DEF Sound
  <2>6. \A d \in Clients : Asked(d)'
    BY <1>1, <2>2 DEF Asked
  <2> QED BY <1>1, <2>2, <2>3, <2>4, <2>5, <2>6, SectionKeeps
<1>5. CASE Replace
  <2>1. /\ failures' = failures + 1
        /\ group' = [s \in Slots |-> NoGroup]
        /\ began' = [s \in Slots |-> 0]
        /\ pc' = [c \in Clients |-> "idle"]
        /\ call' = [c \in Clients |-> NoCall]
        /\ woken' = {}
        /\ late' = late \cup {Manifest(call[c]) : c \in {d \in Clients : pc[d] = "put"}}
        /\ UNCHANGED <<clock, used, births, stored, outcomes, calls>>
    BY <1>5 DEF Replace
  <2>2. NoCall \in Requests /\ NoCall.op # "sync"
    BY NoCallType
  <2>3. call' \in [Clients -> Requests] /\ \A d \in Clients : Asked(d)'
    BY <2>1, <2>2 DEF Asked
  <2>4. late' \subseteq Manifests
    BY <1>1, <2>1, ManifestType
  <2>5. TypeInv'
    BY <1>1, <2>1, <2>3, <2>4 DEF TypeInv
  <2>6. OneGroup'
    BY <2>1 DEF OneGroup
  <2>7. Past'
    BY <2>1 DEF GroupInv, GroupParts, Past
  <2>8. Onward
    BY <1>1, <2>1 DEF Onward
  <2> QED BY <2>3, <2>5, <2>6, <2>7, <2>8 DEF GroupParts
<1> QED BY <1>2, <1>3, <1>4, <1>5

\* The invariant holds in every reachable state.
THEOREM GroupInvariant == Spec => []GroupInv
<1>1. Init => GroupInv
  <2> SUFFICES ASSUME Init PROVE GroupInv
    OBVIOUS
  <2>1. SlotInv
    BY DEF Init, SlotInv, Holding
  <2>2. NoCall \in Requests /\ NoCall.op # "sync"
    BY NoCallType
  <2>3. TypeInv
    BY <2>2 DEF Init, TypeInv, Manifests, Promises, NoOutcomes
  <2>4. (\A c \in Clients : Asked(c)) /\ OneGroup /\ Past
    BY <2>2 DEF Init, Asked, OneGroup, Past, NoOutcomes
  <2> QED BY <2>1, <2>3, <2>4 DEF GroupInv, GroupParts
<1>2. GroupInv /\ [Next]_vars => GroupInv'
  <2> SUFFICES ASSUME GroupInv, [Next]_vars PROVE GroupInv'
    OBVIOUS
  <2>1. SlotInv'
    BY CallKeepsSlots, StepKeepsSlots, OthersKeepSlots DEF Next, GroupInv
  <2>2. GroupParts'
    BY CallKeeps, StepKeeps, OthersKeep DEF Next
  <2> QED BY <2>1, <2>2 DEF GroupInv
<1> QED BY <1>1, <1>2, PTL DEF Spec

(***************************************************************************)
(* Every variable keeps its type, a group has members, and its leader is   *)
(* one of them, whatever advance_group, join, leave and expired sessions   *)
(* do to it.                                                               *)
(***************************************************************************)
THEOREM CoordinatorTyped == Spec => []TypeOK
<1>1. GroupInv => TypeOK
  <2> SUFFICES ASSUME GroupInv PROVE TypeOK
    OBVIOUS
  <2>1. ASSUME NEW s \in Slots
        PROVE  GroupOK(group[s])
    <3>1. CASE group[s] = NoGroup
      BY <3>1 DEF GroupOK
    <3>2. CASE group[s] # NoGroup
      <4>1. Formed(group[s])
        BY <3>2 DEF GroupInv, GroupParts, OneGroup, Sound
      <4> QED BY <4>1, FormedFacts DEF GroupOK, Phases
    <3> QED BY <3>1, <3>2
  <2> QED BY <2>1 DEF GroupInv, GroupParts, TypeInv, SlotInv, TypeOK, Manifests
<1> QED BY <1>1, GroupInvariant, PTL

(***************************************************************************)
(* The members of a generation are together, in whatever order members     *)
(* join, rejoin, leave, expire and sync.                                   *)
(***************************************************************************)
THEOREM GenerationsComplete == Spec => []GenerationComplete
<1>1. GroupInv => GenerationComplete
  <2> SUFFICES ASSUME GroupInv, NEW s \in Slots, NEW id \in Ids(group[s])
               PROVE  LET g == group[s] IN
                      /\ g.phase = "Joining" => g.members[id].assignment = NoValue
                      /\ g.phase # "Joining" =>
                           /\ id \in Joined(g)
                           /\ g.members[id].result.gen = g.gen
                           /\ g.members[id].result.leader = g.leader
                      /\ g.phase = "Stable" =>
                           /\ g.members[id].assignment # NoValue
                           /\ g.members[id].assignment = g.members[g.leader].assignment
    BY DEF GenerationComplete
  <2>1. group[s] # NoGroup
    BY NoGroupEmpty
  <2>2. Together(group[s])
    BY <2>1 DEF GroupInv, GroupParts, OneGroup, Sound
  <2> QED BY <2>2 DEF Together, Joined
<1> QED BY <1>1, GroupInvariant, PTL

(***************************************************************************)
(* A group's members share a protocol, so finalize_rebalance finds one.    *)
(***************************************************************************)
THEOREM ProtocolsCommon == Spec => []CommonProtocol
<1>1. GroupInv => CommonProtocol
  BY SelectedType, NoGroupEmpty DEF GroupInv, GroupParts, OneGroup, Sound, CommonProtocol, IsNone
<1> QED BY <1>1, GroupInvariant, PTL

(***************************************************************************)
(* What joins and syncs of one generation return agrees on its leader,     *)
(* protocol and plan.                                                      *)
(***************************************************************************)
THEOREM GenerationsAgree == Spec => []GenerationAgreed
<1>1. GroupInv => GenerationAgreed
  BY DEF GroupInv, GroupParts, Past, GenerationAgreed
<1> QED BY <1>1, GroupInvariant, PTL

\* ---------------------------------------------------------------- wakeups
\* This request still has to notify the waiters of its slot.
Owes(c) == pc[c] = "tail" \/ (call[c].changed /\ pc[c] \in {"load", "put", "notify"})

\* One request's step: everybody who has an answer has been notified, or will be.
LEMMA Hears ==
    ASSUME GroupInv, NoLostWakeup, NEW c \in Clients,
           \A d \in Clients \ {c} : pc'[d] = pc[d] /\ slot'[d] = slot[d] /\ call'[d] = call[d],
           woken \ {c} \subseteq woken',
           \/ Waiting(table) \ {c} \subseteq woken'
           \/ slot'[c] = table /\ Owes(c)'
           \/ /\ ~Owes(c)
              /\ \A q \in Requests : Answered(q, group'[table]) => Answered(q, group[table]),
           pc'[c] = "sleep" => ~Answered(call'[c], group'[slot'[c]])
    PROVE  NoLostWakeup'
<1> SUFFICES ASSUME NEW d \in Clients, pc'[d] = "sleep", Answered(call'[d], group'[slot'[d]])
             PROVE  d \in woken' \/ \E e \in Clients : slot'[e] = slot'[d] /\ Owes(e)'
  BY DEF NoLostWakeup, Owed, Owes, Holders
<1>1. d # c
  OBVIOUS
<1>2. pc'[d] = pc[d] /\ slot'[d] = slot[d] /\ call'[d] = call[d]
  BY <1>1
<1>3. slot[d] = table /\ d \in Waiting(table) /\ call[d] \in Requests
  BY <1>2 DEF GroupInv, GroupParts, TypeInv, SlotInv, Holding, Waiting, Holders
<1>4. CASE Waiting(table) \ {c} \subseteq woken'
  BY <1>1, <1>3, <1>4
<1>5. CASE slot'[c] = table /\ Owes(c)'
  BY <1>2, <1>3, <1>5
<1>6. CASE /\ ~Owes(c)
           /\ \A q \in Requests : Answered(q, group'[table]) => Answered(q, group[table])
  <2>1. Answered(call[d], group[slot[d]])
    BY <1>2, <1>3, <1>6
  <2>2. d \in woken \/ Owed(slot[d])
    BY <1>2, <2>1 DEF NoLostWakeup
  <2>3. CASE d \in woken
    BY <1>1, <2>3
  <2>4. CASE Owed(slot[d])
    <3>1. PICK e \in Clients : slot[e] = slot[d] /\ Owes(e)
      BY <2>4 DEF Owed, Owes, Holders
    <3>2. e # c
      BY <1>6, <3>1
    <3>3. Owes(e)' /\ slot'[e] = slot'[d]
      BY <1>2, <3>1, <3>2 DEF Owes
    <3> QED BY <3>3
  <2> QED BY <2>2, <2>3, <2>4
<1> QED BY <1>4, <1>5, <1>6

\* One request's step as the lemma above sees it.
LEMMA OnlyThis ==
    ASSUME SlotInv, GroupParts, NEW c \in Clients, NEW w, NEW s, NEW r,
           pc' = [pc EXCEPT ![c] = w],
           slot' = slot \/ slot' = [slot EXCEPT ![c] = s],
           call' = call \/ call' = [call EXCEPT ![c] = r]
    PROVE  /\ \A d \in Clients \ {c} : pc'[d] = pc[d] /\ slot'[d] = slot[d] /\ call'[d] = call[d]
           /\ pc'[c] = w
BY DEF SlotInv, GroupParts, TypeInv

\* A request that returns is the only one that moves.
LEMMA ReturnAlone ==
    ASSUME GroupInv, NEW c \in Clients, Return(c)
    PROVE  /\ \A d \in Clients \ {c} : pc'[d] = pc[d] /\ slot'[d] = slot[d] /\ call'[d] = call[d]
           /\ pc'[c] = "idle"
BY DEF Return, GroupInv, GroupParts, SlotInv, TypeInv

\* A heartbeat, leave or refused commit owes a notification if it changed the group.
LEMMA FinishOwes ==
    ASSUME GroupInv, NEW c \in Clients, pc[c] # "idle", NEW g, Finish(c, g)
    PROVE  /\ \A d \in Clients \ {c} : pc'[d] = pc[d] /\ slot'[d] = slot[d] /\ call'[d] = call[d]
           /\ pc'[c] # "sleep"
           /\ g # group[table] => slot'[c] = table /\ Owes(c)'
<1>1. slot[c] = table /\ table \in Slots
  BY Locked
<1>2. CASE Return(c) /\ g = group[table]
  BY <1>2, ReturnAlone
<1>3. CASE ~(Return(c) /\ g = group[table])
  <2>1. PICK changed \in BOOLEAN : changed = (g # group[slot[c]])
    OBVIOUS
  <2>2. PICK empty : empty = IsNone(g)
    OBVIOUS
  <2>3. /\ GoTo(c, IF changed THEN "notify" ELSE "reclaim")
        /\ call' = [call EXCEPT ![c] = [NoCall EXCEPT !.changed = changed, !.empty = empty]]
    BY <1>1, <1>3, <2>1, <2>2 DEF Finish
  <2>4. [NoCall EXCEPT !.changed = changed, !.empty = empty].changed = changed
    BY DEF NoCall
  <2>5. DOMAIN call = Clients /\ DOMAIN pc = Clients
    BY DEF GroupInv, GroupParts, SlotInv, TypeInv
  <2>6. call'[c].changed = changed /\ slot' = slot
    BY <2>3, <2>4, <2>5 DEF GoTo
  <2>7. pc'[c] = IF changed THEN "notify" ELSE "reclaim"
    BY <2>3, <2>5 DEF GoTo
  <2>8. \A d \in Clients \ {c} : pc'[d] = pc[d] /\ slot'[d] = slot[d] /\ call'[d] = call[d]
    BY <2>3, <2>5 DEF GoTo
  <2> QED BY <1>1, <2>1, <2>6, <2>7, <2>8 DEF Owes
<1> QED BY <1>1, <1>2, <1>3 DEF Finish

\* join, the locked sections before the loop: they notify who may have an answer.
LEMMA JoinsHear ==
    ASSUME GroupInv, NoLostWakeup, NEW c \in Clients, JoinAdmit(c) \/ JoinTail(c)
    PROVE  NoLostWakeup'
<1>1. CASE JoinAdmit(c)
  <2>1. PICK g : g = Advance(group[slot[c]], call[c].now)
    OBVIOUS
  <2>2. /\ pc[c] = "admit" /\ Notify(slot[c], g # group[slot[c]], {})
        /\ \/ SetGroup(slot[c], g) /\ Return(c)
           \/ GoTo(c, "tail") /\ \E r : call' = [call EXCEPT ![c] = r]
    BY <1>1, <2>1, Zenon DEF JoinAdmit
  <2>3. slot[c] = table /\ table \in Slots
    BY <2>2, Locked
  <2>4. /\ woken \subseteq woken'
        /\ g # group[table] => Waiting(table) \subseteq woken'
    BY <2>2, <2>3 DEF Notify
  <2>5. CASE SetGroup(slot[c], g) /\ Return(c)
    <3>1. group'[table] = g
      BY <2>3, <2>5, SetGroupAt
    <3>2. ~Owes(c)
      BY <2>2 DEF Owes
    <3>3. /\ \A d \in Clients \ {c} : pc'[d] = pc[d] /\ slot'[d] = slot[d] /\ call'[d] = call[d]
          /\ pc'[c] = "idle"
      BY <2>5, ReturnAlone
    <3>4. \/ Waiting(table) \ {c} \subseteq woken'
          \/ \A q \in Requests : Answered(q, group'[table]) => Answered(q, group[table])
      BY <2>4, <3>1
    <3> QED BY <2>4, <3>2, <3>3, <3>4, Hears
  <2>6. CASE GoTo(c, "tail") /\ \E r : call' = [call EXCEPT ![c] = r]
    <3>1. PICK r : call' = [call EXCEPT ![c] = r]
      BY <2>6
    <3>2. pc' = [pc EXCEPT ![c] = "tail"] /\ slot' = slot
      BY <2>6 DEF GoTo
    <3>3. /\ \A d \in Clients \ {c} : pc'[d] = pc[d] /\ slot'[d] = slot[d] /\ call'[d] = call[d]
          /\ pc'[c] = "tail"
      BY <3>1, <3>2, OnlyThis DEF GroupInv
    <3>4. slot'[c] = table /\ Owes(c)'
      BY <2>3, <3>2, <3>3 DEF Owes
    <3> QED BY <2>4, <3>3, <3>4, Hears
  <2> QED BY <2>2, <2>5, <2>6
<1>2. CASE JoinTail(c)
  <2>1. /\ pc[c] = "tail" /\ Notify(slot[c], TRUE, {}) /\ GoTo(c, "check") /\ UNCHANGED call
    BY <1>2 DEF JoinTail
  <2>2. slot[c] = table
    BY <2>1, Locked
  <2>3. woken \subseteq woken' /\ Waiting(table) \subseteq woken'
    BY <2>1, <2>2 DEF Notify
  <2>4. pc' = [pc EXCEPT ![c] = "check"] /\ slot' = slot /\ call' = call
    BY <2>1 DEF GoTo
  <2>5. /\ \A d \in Clients \ {c} : pc'[d] = pc[d] /\ slot'[d] = slot[d] /\ call'[d] = call[d]
        /\ pc'[c] = "check"
    BY <2>4, OnlyThis DEF GroupInv
  <2> QED BY <2>3, <2>5, Hears
<1> QED BY <1>1, <1>2

\* A request goes to sleep on its own slot.
LEMMA SleepAlone ==
    ASSUME GroupInv, NEW c \in Clients, NEW g, Sleep(c, g)
    PROVE  /\ \A d \in Clients \ {c} : pc'[d] = pc[d] /\ slot'[d] = slot[d] /\ call'[d] = call[d]
           /\ slot' = slot
BY DEF Sleep, GoTo, GroupInv, GroupParts, SlotInv, TypeInv

\* join, the loop: it sleeps only without an answer.
LEMMA JoinCheckHears ==
    ASSUME GroupInv, NoLostWakeup, NEW c \in Clients, JoinCheck(c)
    PROVE  NoLostWakeup'
<1>1. PICK g : g = Advance(group[slot[c]], clock)
  OBVIOUS
<1>2. PICK r \in Requests : r = call[c]
  BY DEF GroupInv, GroupParts, TypeInv
<1>3. /\ pc[c] = "check" /\ r.op = "join" /\ SetGroup(slot[c], g)
      /\ Notify(slot[c], g # group[slot[c]], IF Answered(r, g) THEN {c} ELSE {})
      /\ IF Answered(r, g) THEN Return(c) ELSE Sleep(c, g)
  BY <1>1, <1>2, Zenon DEF JoinCheck
<1>4. /\ slot[c] = table /\ table \in Slots
      /\ group[slot[c]] = NoGroup \/ Sound(group[slot[c]])
  BY <1>3, Locked
<1>5. group'[table] = g
  BY <1>3, <1>4, SetGroupAt
<1>6. /\ woken \ {c} \subseteq woken'
      /\ g # group[table] => Waiting(table) \ {c} \subseteq woken'
  BY <1>3, <1>4 DEF Notify
<1>7. ~Owes(c)
  BY <1>3 DEF Owes
<1>8. \/ Waiting(table) \ {c} \subseteq woken'
      \/ \A q \in Requests : Answered(q, group'[table]) => Answered(q, group[table])
  BY <1>5, <1>6
<1>9. CASE Answered(r, g)
  <2>1. /\ \A d \in Clients \ {c} : pc'[d] = pc[d] /\ slot'[d] = slot[d] /\ call'[d] = call[d]
        /\ pc'[c] = "idle"
    BY <1>3, <1>9, ReturnAlone
  <2> QED BY <1>6, <1>7, <1>8, <2>1, Hears
<1>10. CASE ~Answered(r, g)
  <2>1. Sleep(c, g)
    BY <1>3, <1>10
  <2>2. /\ \A d \in Clients \ {c} : pc'[d] = pc[d] /\ slot'[d] = slot[d] /\ call'[d] = call[d]
        /\ slot' = slot
    BY <2>1, SleepAlone
  <2>3. ~IsNone(g) /\ r.id \in Ids(g)
    BY <1>3, <1>10 DEF Answered
  <2>4. clock \in Nat
    BY DEF GroupInv, GroupParts, TypeInv
  <2>5. Sound(g)
    BY <1>1, <1>4, <2>3, <2>4, AdvanceMoved, NoGroupEmpty DEF IsNone
  <2>6. /\ call'[c].op = r.op /\ call'[c].id = r.id
        /\ call'[c].gen = r.gen /\ call'[c].target = r.target
    BY <1>2, <1>3, <2>1, <2>3, <2>5, SleepKeeps
  <2>7. ~Answered(call'[c], g)
    BY <1>10, <2>6 DEF Answered
  <2>8. ~Answered(call'[c], group'[slot'[c]])
    BY <1>4, <1>5, <2>2, <2>7
  <2> QED BY <1>6, <1>7, <1>8, <2>2, <2>8, Hears
<1> QED BY <1>9, <1>10

\* sync, the loop: it sleeps only before the plan is there.
LEMMA SyncCheckHears ==
    ASSUME GroupInv, NoLostWakeup, NEW c \in Clients, SyncCheck(c)
    PROVE  NoLostWakeup'
<1>1. PICK g : g = Advance(group[slot[c]], clock)
  OBVIOUS
<1>2. PICK r \in Requests : r = call[c]
  BY DEF GroupInv, GroupParts, TypeInv
<1>3. PICK h : SyncLook(c, g, r, h)
  BY <1>1, <1>2, SyncCheckFacts
<1>4. /\ h = IF SyncRefused(g, r) THEN g ELSE Submitted(g, r)
      /\ pc[c] = "check" /\ r.op = "sync" /\ SetGroup(slot[c], h)
      /\ Notify(slot[c], g # group[slot[c]] \/ h.phase # g.phase,
                IF SyncRefused(g, r) \/ h.phase = "Stable" THEN {c} ELSE {})
      /\ IF IsNone(g) THEN GoTo(c, "reclaim") /\ call' = [call EXCEPT ![c] = NoCall]
         ELSE IF SyncRefused(g, r) \/ h.phase = "Stable" THEN Return(c)
         ELSE Sleep(c, h)
  BY <1>3, Zenon DEF SyncLook
<1>5. /\ slot[c] = table /\ table \in Slots
      /\ group[slot[c]] = NoGroup \/ Sound(group[slot[c]])
  BY <1>4, Locked
<1>6. clock \in Nat /\ (r.ids = {} <=> r.value = NoValue)
  BY <1>2, <1>4 DEF GroupInv, GroupParts, TypeInv, Asked
<1>7. g = NoGroup \/ Sound(g)
  BY <1>1, <1>5, <1>6, AdvanceMoved
<1>8. group'[table] = h
  BY <1>4, <1>5, SetGroupAt
<1>9. /\ woken \ {c} \subseteq woken'
      /\ g # group[table] \/ h.phase # g.phase => Waiting(table) \ {c} \subseteq woken'
  BY <1>4, <1>5 DEF Notify
<1>10. ~Owes(c)
  BY <1>4 DEF Owes
<1>11. h.phase = g.phase => \A q \in Requests : Answered(q, h) => Answered(q, g)
  <2>1. CASE SyncRefused(g, r)
    BY <1>4, <2>1
  <2>2. CASE ~SyncRefused(g, r)
    BY <1>4, <1>6, <1>7, <2>2, SubmittedSound
  <2> QED BY <2>1, <2>2
<1>12. \/ Waiting(table) \ {c} \subseteq woken'
       \/ \A q \in Requests : Answered(q, group'[table]) => Answered(q, group[table])
  BY <1>8, <1>9, <1>11
<1>13. CASE Return(c)
  <2>1. /\ \A d \in Clients \ {c} : pc'[d] = pc[d] /\ slot'[d] = slot[d] /\ call'[d] = call[d]
        /\ pc'[c] = "idle"
    BY <1>13, ReturnAlone
  <2> QED BY <1>9, <1>10, <1>12, <2>1, Hears
<1>14. CASE GoTo(c, "reclaim") /\ call' = [call EXCEPT ![c] = NoCall]
  <2>1. pc' = [pc EXCEPT ![c] = "reclaim"] /\ slot' = slot
    BY <1>14 DEF GoTo
  <2>2. /\ \A d \in Clients \ {c} : pc'[d] = pc[d] /\ slot'[d] = slot[d] /\ call'[d] = call[d]
        /\ pc'[c] = "reclaim"
    BY <1>14, <2>1, OnlyThis DEF GroupInv
  <2> QED BY <1>9, <1>10, <1>12, <2>2, Hears
<1>15. CASE ~IsNone(g) /\ ~SyncRefused(g, r) /\ h.phase # "Stable"
  <2>1. Sleep(c, h)
    BY <1>4, <1>15
  <2>2. /\ \A d \in Clients \ {c} : pc'[d] = pc[d] /\ slot'[d] = slot[d] /\ call'[d] = call[d]
        /\ slot' = slot
    BY <2>1, SleepAlone
  <2>3. /\ Sound(h) /\ r.id \in Ids(h) /\ h.gen = g.gen /\ h.phase \in {"AwaitingSync", "Stable"}
    BY <1>4, <1>6, <1>7, <1>15, SubmittedSound
  <2>4. g.gen = r.gen
    BY <1>15 DEF SyncRefused, Active
  <2>5. /\ call'[c].op = r.op /\ call'[c].id = r.id
        /\ call'[c].gen = r.gen /\ call'[c].target = r.target
    BY <1>2, <1>4, <2>1, <2>3, SleepKeeps
  <2>6. ~Answered(call'[c], h)
    <3>1. ~IsNone(h) /\ h.phase = "AwaitingSync"
      BY <1>15, <2>3, FormedFacts DEF Sound
    <3> QED BY <1>4, <2>3, <2>4, <2>5, <3>1 DEF Answered, Active
  <2>7. ~Answered(call'[c], group'[slot'[c]])
    BY <1>5, <1>8, <2>2, <2>6
  <2> QED BY <1>9, <1>10, <1>12, <2>2, <2>7, Hears
<1> QED BY <1>4, <1>13, <1>14, <1>15

\* Heartbeat, leave and commit owe a notification if they changed the group.
LEMMA MembersHear ==
    ASSUME GroupInv, NoLostWakeup, NEW c \in Clients, Heartbeat(c) \/ Leave(c) \/ Commit(c)
    PROVE  NoLostWakeup'
<1>1. PICK g : g = Advance(group[slot[c]], clock)
  OBVIOUS
<1>2. /\ pc[c] \in {"heartbeat", "leave", "commit"} /\ woken' = woken
      /\ \E h : SetGroup(slot[c], h)
  BY DEF Heartbeat, Leave, Commit
<1>3. /\ slot[c] = table /\ table \in Slots
      /\ group[slot[c]] = NoGroup \/ Sound(group[slot[c]])
  BY <1>2, Locked
<1>4. pc[c] # "idle" /\ ~Owes(c)
  BY <1>2 DEF Owes
<1>5. ASSUME NEW h, NEW k, SetGroup(slot[c], h), Finish(c, k),
             k = group[table] => \A q \in Requests : Answered(q, h) => Answered(q, group[table])
      PROVE  NoLostWakeup'
  <2>1. group'[table] = h
    BY <1>3, <1>5, SetGroupAt
  <2>2. /\ \A d \in Clients \ {c} : pc'[d] = pc[d] /\ slot'[d] = slot[d] /\ call'[d] = call[d]
        /\ pc'[c] # "sleep"
        /\ k # group[table] => slot'[c] = table /\ Owes(c)'
    BY <1>4, <1>5, FinishOwes
  <2>3. CASE k # group[table]
    BY <1>2, <2>2, <2>3, Hears
  <2>4. CASE k = group[table]
    <3>1. \A q \in Requests : Answered(q, group'[table]) => Answered(q, group[table])
      BY <1>5, <2>1, <2>4
    <3> QED BY <1>2, <1>4, <2>2, <3>1, Hears
  <2> QED BY <2>3, <2>4
<1>6. CASE Heartbeat(c)
  <2>1. PICK h : h = IF Active(g, call[c].id, call[c].gen) THEN Touch(g, call[c].id, clock) ELSE g
    OBVIOUS
  <2>2. SetGroup(slot[c], h) /\ Finish(c, g)
    BY <1>1, <1>6, <2>1, Zenon DEF Heartbeat
  <2>3. ASSUME g = group[table]
        PROVE  \A q \in Requests : Answered(q, h) => Answered(q, group[table])
    <3>1. CASE Active(g, call[c].id, call[c].gen)
      <4>1. g # NoGroup /\ call[c].id \in Ids(g)
        BY <3>1, NoGroupEmpty DEF Active
      <4>2. Sound(g) /\ clock \in Nat
        BY <1>3, <2>3, <4>1 DEF GroupInv, GroupParts, TypeInv
      <4>3. h = Touch(g, call[c].id, clock)
        BY <2>1, <3>1
      <4> QED BY <2>3, <4>1, <4>2, <4>3, TouchAnswers
    <3>2. CASE ~Active(g, call[c].id, call[c].gen)
      BY <2>1, <2>3, <3>2
    <3> QED BY <3>1, <3>2
  <2> QED BY <1>5, <2>2, <2>3
<1>7. CASE Leave(c)
  <2>1. \E h : SetGroup(slot[c], h) /\ Finish(c, h)
    BY <1>7, Zenon DEF Leave
  <2> QED BY <1>5, <2>1
<1>8. CASE Commit(c)
  <2>1. /\ SetGroup(slot[c], g)
        /\ \/ Finish(c, g)
           \/ /\ GoTo(c, "load")
              /\ call' = [call EXCEPT ![c].changed = g # group[slot[c]], ![c].target = g.born]
    BY <1>1, <1>8, Zenon DEF Commit
  <2>2. CASE Finish(c, g)
    BY <1>5, <2>1, <2>2
  <2>3. CASE /\ GoTo(c, "load")
             /\ call' = [call EXCEPT ![c].changed = g # group[slot[c]], ![c].target = g.born]
    <3>1. DOMAIN call = Clients /\ DOMAIN pc = Clients /\ call[c] \in Requests
      BY DEF GroupInv, GroupParts, SlotInv, TypeInv
    <3>2. PICK changed \in BOOLEAN : changed = (g # group[slot[c]])
      OBVIOUS
    <3>3. call' = [call EXCEPT ![c].changed = changed, ![c].target = g.born]
      BY <2>3, <3>2
    <3>4. call'[c].changed = changed
      BY ONLY <3>1, <3>3, c \in Clients DEF Requests
    <3>5. \A d \in Clients \ {c} : call'[d] = call[d]
      BY ONLY <3>1, <3>3, c \in Clients
    <3>6. pc'[c] = "load" /\ slot' = slot /\ \A d \in Clients \ {c} : pc'[d] = pc[d]
      BY <2>3, <3>1 DEF GoTo
    <3>7. group'[table] = g
      BY <1>3, <2>1, SetGroupAt
    <3>8. CASE changed
      <4>1. slot'[c] = table /\ Owes(c)'
        BY <1>3, <3>4, <3>6, <3>8 DEF Owes
      <4> QED BY <1>2, <3>5, <3>6, <4>1, Hears
    <3>9. CASE ~changed
      <4>1. \A q \in Requests : Answered(q, group'[table]) => Answered(q, group[table])
        BY <1>3, <3>2, <3>7, <3>9
      <4> QED BY <1>2, <1>4, <3>5, <3>6, <4>1, Hears
    <3> QED BY <3>8, <3>9
  <2> QED BY <2>1, <2>2, <2>3
<1> QED BY <1>6, <1>7, <1>8

\* The end of a commit passes on what it owes.
LEMMA ReleaseOwes ==
    ASSUME GroupInv, NEW c \in Clients, pc[c] \in {"load", "put"}, Release(c)
    PROVE  /\ \A d \in Clients \ {c} : pc'[d] = pc[d] /\ slot'[d] = slot[d] /\ call'[d] = call[d]
           /\ pc'[c] # "sleep"
           /\ Owes(c) => slot'[c] = table /\ Owes(c)'
<1>1. slot[c] = table
  BY Locked
<1>2. DOMAIN call = Clients /\ DOMAIN pc = Clients
  BY DEF GroupInv, GroupParts, SlotInv, TypeInv
<1>3. CASE call[c].changed
  <2>1. GoTo(c, "notify") /\ call' = [call EXCEPT ![c] = [NoCall EXCEPT !.changed = TRUE]]
    BY <1>3 DEF Release
  <2>2. call'[c].changed /\ \A d \in Clients \ {c} : call'[d] = call[d]
    BY <1>2, <2>1 DEF NoCall
  <2>3. pc'[c] = "notify" /\ slot' = slot /\ \A d \in Clients \ {c} : pc'[d] = pc[d]
    BY <1>2, <2>1 DEF GoTo
  <2> QED BY <1>1, <2>2, <2>3 DEF Owes
<1>4. CASE ~call[c].changed
  <2>1. Return(c) /\ ~Owes(c)
    BY <1>4 DEF Release, Owes
  <2> QED BY <2>1, ReturnAlone
<1> QED BY <1>3, <1>4

\* The steps of a request that leave the group alone.
LEMMA QuietHears ==
    ASSUME GroupInv, NoLostWakeup, NEW c \in Clients,
           Wake(c) \/ LoadOffsets(c) \/ PutOffsets(c) \/ NotifyAfter(c) \/ Reclaim(c)
             \/ FailOffsets(c)
    PROVE  NoLostWakeup'
<1>1. DOMAIN call = Clients /\ DOMAIN pc = Clients /\ call[c] \in Requests
  BY DEF GroupInv, GroupParts, SlotInv, TypeInv
<1>2. \A q \in Requests : Answered(q, group'[table]) => Answered(q, group[table])
  BY DEF Wake, LoadOffsets, PutOffsets, NotifyAfter, Reclaim, FailOffsets
<1>3. pc[c] # "idle"
  BY DEF Wake, LoadOffsets, PutOffsets, NotifyAfter, Reclaim, FailOffsets
<1>4. slot[c] = table
  BY <1>3, Locked
<1>5. CASE Wake(c)
  <2>1. /\ pc[c] = "sleep" /\ woken' = woken \ {c}
        /\ pc' = [pc EXCEPT ![c] = "check"] /\ slot' = slot
        /\ call' = [call EXCEPT ![c].deadline = 0]
    BY <1>5 DEF Wake, GoTo
  <2>2. /\ \A d \in Clients \ {c} : pc'[d] = pc[d] /\ slot'[d] = slot[d] /\ call'[d] = call[d]
        /\ pc'[c] = "check"
    BY ONLY <1>1, <2>1, c \in Clients
  <2>3. ~Owes(c)
    BY <2>1 DEF Owes
  <2> QED BY <1>2, <2>1, <2>2, <2>3, Hears
<1>6. CASE LoadOffsets(c)
  <2>1. /\ pc[c] = "load" /\ woken' = woken /\ pc' = [pc EXCEPT ![c] = "put"] /\ slot' = slot
        /\ call' = [call EXCEPT ![c].rev = stored.rev, ![c].tries = @ + 1]
    BY <1>6 DEF LoadOffsets, GoTo
  <2>2. /\ \A d \in Clients \ {c} : pc'[d] = pc[d] /\ slot'[d] = slot[d] /\ call'[d] = call[d]
        /\ pc'[c] = "put"
    BY ONLY <1>1, <2>1, c \in Clients
  <2>3. call'[c].changed = call[c].changed
    BY ONLY <1>1, <2>1, c \in Clients DEF Requests
  <2>4. Owes(c) => slot'[c] = table /\ Owes(c)'
    BY <1>4, <2>1, <2>2, <2>3 DEF Owes
  <2> QED BY <1>2, <2>1, <2>2, <2>4, Hears
<1>7. CASE PutOffsets(c) \/ FailOffsets(c)
  <2>1. /\ pc[c] \in {"load", "put"} /\ woken' = woken
        /\ Release(c) \/ (GoTo(c, "load") /\ UNCHANGED call)
    BY <1>7 DEF PutOffsets, FailOffsets
  <2>2. CASE Release(c)
    BY <1>2, <2>1, <2>2, ReleaseOwes, Hears
  <2>3. CASE GoTo(c, "load") /\ UNCHANGED call
    <3>1. pc' = [pc EXCEPT ![c] = "load"] /\ slot' = slot /\ call' = call
      BY <2>3 DEF GoTo
    <3>2. /\ \A d \in Clients \ {c} : pc'[d] = pc[d] /\ slot'[d] = slot[d] /\ call'[d] = call[d]
          /\ pc'[c] = "load"
      BY <1>1, <3>1
    <3>3. Owes(c) => slot'[c] = table /\ Owes(c)'
      BY <1>4, <2>1, <3>1, <3>2 DEF Owes
    <3> QED BY <1>2, <2>1, <3>2, <3>3, Hears
  <2> QED BY <2>1, <2>2, <2>3
<1>8. CASE NotifyAfter(c)
  <2>1. woken \subseteq woken' /\ Waiting(table) \subseteq woken'
    BY <1>4, <1>8 DEF NotifyAfter, Notify
  <2>2. /\ \A d \in Clients \ {c} : pc'[d] = pc[d] /\ slot'[d] = slot[d] /\ call'[d] = call[d]
        /\ pc'[c] # "sleep"
    <3>1. CASE Return(c)
      BY <3>1, ReturnAlone
    <3>2. CASE GoTo(c, "reclaim") /\ UNCHANGED call
      BY <1>1, <3>2 DEF GoTo
    <3> QED BY <1>8, <3>1, <3>2 DEF NotifyAfter
  <2> QED BY <2>1, <2>2, Hears
<1>9. CASE Reclaim(c)
  <2>1. pc[c] = "reclaim" /\ woken' = woken /\ Return(c)
    BY <1>9 DEF Reclaim
  <2>2. ~Owes(c)
    BY <2>1 DEF Owes
  <2>3. /\ \A d \in Clients \ {c} : pc'[d] = pc[d] /\ slot'[d] = slot[d] /\ call'[d] = call[d]
        /\ pc'[c] = "idle"
    BY <2>1, ReturnAlone
  <2> QED BY <1>2, <2>1, <2>2, <2>3, Hears
<1> QED BY <1>5, <1>6, <1>7, <1>8, <1>9

\* A request that begins waits for nothing yet.
LEMMA CallHears ==
    ASSUME GroupInv, NoLostWakeup, NEW c \in Clients, Call(c)
    PROVE  NoLostWakeup'
<1>1. \E where \in Busy \ {"sleep"} : \E r : Begin(c, table', where, r)
  BY DEF Call, CallJoin, CallSync, CallMember, Busy
<1>2. PICK where \in Busy \ {"sleep"} : \E r : Begin(c, table', where, r)
  BY <1>1
<1>7. PICK r : Begin(c, table', where, r)
  BY <1>2
<1>3. pc[c] = "idle"
  BY DEF Call, CallJoin, CallSync, CallMember, May
<1>4. /\ slot' = [slot EXCEPT ![c] = table'] /\ pc' = [pc EXCEPT ![c] = where]
      /\ call' = [call EXCEPT ![c] = r] /\ woken' = woken /\ group' = group
  BY <1>7 DEF Begin
<1>5. /\ \A d \in Clients \ {c} : pc'[d] = pc[d] /\ slot'[d] = slot[d] /\ call'[d] = call[d]
      /\ pc'[c] = where
  BY <1>4, OnlyThis DEF GroupInv
<1>6. ~Owes(c)
  BY <1>3 DEF Owes
<1> QED BY <1>4, <1>5, <1>6, Hears

\* Sweeping, replacing the broker, late writes and time.
LEMMA OthersHear ==
    ASSUME GroupInv, NoLostWakeup, LatePut \/ Sweep \/ Replace \/ Tick \/ UNCHANGED vars
    PROVE  NoLostWakeup'
<1>1. CASE LatePut \/ Tick \/ UNCHANGED vars
  <2>1. UNCHANGED <<pc, slot, call, group, woken>>
    BY <1>1 DEF LatePut, Tick, vars
  <2> QED BY <2>1 DEF NoLostWakeup, Owed, Holders
<1>2. CASE Sweep
  <2>1. \A c \in Clients : pc[c] = "idle"
    BY <1>2 DEF Sweep, Holders, GroupInv, SlotInv, Holding
  <2>2. pc' = pc
    BY <1>2 DEF Sweep
  <2> QED BY <2>1, <2>2 DEF NoLostWakeup
<1>3. CASE Replace
  <2>1. pc' = [c \in Clients |-> "idle"]
    BY <1>3 DEF Replace
  <2> QED BY <2>1 DEF NoLostWakeup
<1> QED BY <1>1, <1>2, <1>3

(***************************************************************************)
(* No wakeup is lost: whoever sleeps although the group has its answer has *)
(* been notified or is about to be, whichever request, expired session or  *)
(* passed deadline gave the group that answer.                             *)
(***************************************************************************)
THEOREM WakeupsKept == Spec => []NoLostWakeup
<1>1. Init => NoLostWakeup
  BY DEF Init, NoLostWakeup
<1>2. GroupInv /\ NoLostWakeup /\ [Next]_vars => NoLostWakeup'
  <2> SUFFICES ASSUME GroupInv, NoLostWakeup, [Next]_vars PROVE NoLostWakeup'
    OBVIOUS
  <2>1. ASSUME NEW c \in Clients, Step(c) PROVE NoLostWakeup'
    BY <2>1, JoinsHear, JoinCheckHears, SyncCheckHears, MembersHear, QuietHears DEF Step
  <2>2. ASSUME NEW c \in Clients, Call(c) \/ FailOffsets(c) PROVE NoLostWakeup'
    BY <2>2, CallHears, QuietHears
  <2> QED BY <2>1, <2>2, OthersHear DEF Next
<1> QED BY <1>1, <1>2, GroupInvariant, PTL DEF Spec

\* ---------------------------------------------------------------- offsets
\* The commit that talks to the store, if there is one, is the only section under way.
LEMMA NobodyStores ==
    ASSUME GroupInv, NEW c \in Clients, pc[c] # "idle", ~Storing(c), Free(slot[c])
    PROVE  \A d \in Clients : ~Storing(d)
BY DEF GroupInv, SlotInv, Holding, Free, Holders, Storing

\* The group only moves on, so what was dated stays so.
LEMMA DatedOn ==
    ASSUME GroupInv, GroupInv', Onward, NEW m \in Manifests, Dated(m)
    PROVE  Dated(m)'
<1>1. births \in Nat /\ births' \in Nat /\ m.born \in Nat /\ m.gen \in Nat
  BY DEF GroupInv, GroupParts, TypeInv, Manifests
<1>2. \A s \in Slots : group[s] # NoGroup => group[s].born \in Nat /\ group[s].gen \in Nat
  BY FormedFacts DEF GroupInv, GroupParts, OneGroup, Sound
<1>3. \A s \in Slots : group'[s] # NoGroup => group'[s].born \in Nat /\ group'[s].gen \in Nat
  BY FormedFacts DEF GroupInv, GroupParts, OneGroup, Sound
<1> QED BY <1>1, <1>2, <1>3 DEF Dated, Onward

\* What is stored, or late, and stays so.
LEMMA StoreKept ==
    ASSUME GroupInv, GroupInv', Onward, StoreDated, stored' = stored, late' \subseteq late
    PROVE  StoreDated'
<1>1. stored \in Manifests /\ late \subseteq Manifests
  BY DEF GroupInv, GroupParts, TypeInv
<1>2. PICK k \in Manifests : k = stored
  BY <1>1
<1>3. Dated(k)'
  BY <1>2, DatedOn DEF StoreDated
<1>4. ASSUME NEW m \in late'
      PROVE  Dated(m)' /\ m.rev <= k.rev + 1 /\ (m.rev = k.rev + 1 => NotOlder(k, m))
  BY <1>1, <1>2, <1>4, DatedOn DEF StoreDated
<1>5. stored' = k
  BY <1>2
<1> QED BY <1>3, <1>4, <1>5 DEF StoreDated, Dated

\* A step after which this request does not talk to the store.
LEMMA OneLess ==
    ASSUME GroupInv, OffsetsInv, NEW c \in Clients, UNCHANGED group,
           \A d \in Clients \ {c} : pc'[d] = pc[d] /\ slot'[d] = slot[d] /\ call'[d] = call[d],
           pc'[c] \notin {"load", "put"}, stored'.rev \in Nat, stored.rev <= stored'.rev
    PROVE  CommitsHold' /\ ReadsPast'
<1>1. stored.rev \in Nat /\ \A d \in Clients : call[d].rev \in Nat
  BY DEF GroupInv, GroupParts, TypeInv, Manifests, Requests
<1>2. \A d \in Clients : Storing(d)' => d # c /\ Storing(d)
  BY DEF Storing
<1>3. CommitsHold'
  BY <1>2 DEF OffsetsInv, CommitsHold
<1>4. ReadsPast'
  BY <1>1 DEF OffsetsInv, ReadsPast
<1> QED BY <1>3, <1>4

\* Sections that need the lock: only an accepted commit then talks to the store.
LEMMA LockedOffsets ==
    ASSUME GroupInv, GroupInv', OffsetsInv, Onward, NEW c \in Clients,
           JoinAdmit(c) \/ JoinTail(c) \/ JoinCheck(c) \/ SyncCheck(c) \/ Heartbeat(c) \/ Leave(c)
             \/ Commit(c)
    PROVE  OffsetsInv'
<1>1. /\ pc[c] \notin {"idle", "load", "put"} /\ Free(slot[c])
      /\ stored' = stored /\ late' = late
  BY DEF JoinAdmit, JoinTail, JoinCheck, SyncCheck, Heartbeat, Leave, Commit
<1>2. \A d \in Clients : ~Storing(d)
  BY <1>1, NobodyStores DEF Storing
<1>3. StoreDated'
  BY <1>1, StoreKept DEF OffsetsInv
<1>4. DOMAIN pc = Clients
  BY DEF GroupInv, SlotInv
<1>5. ASSUME NEW w, w \notin {"load", "put"}, pc' = [pc EXCEPT ![c] = w]
      PROVE  OffsetsInv'
  <2>1. \A d \in Clients : ~Storing(d)'
    BY <1>2, <1>4, <1>5 DEF Storing
  <2> QED BY <1>3, <2>1 DEF OffsetsInv, CommitsHold, ReadsPast, Storing
<1>6. CASE JoinAdmit(c)
  BY <1>5, <1>6 DEF JoinAdmit, Return, GoTo
<1>7. CASE JoinTail(c) \/ JoinCheck(c)
  BY <1>5, <1>7 DEF JoinTail, JoinCheck, Sleep, Return, GoTo
<1>8. CASE SyncCheck(c)
  BY <1>5, <1>8 DEF SyncCheck, Sleep, Return, GoTo
<1>9. CASE Heartbeat(c) \/ Leave(c)
  BY <1>5, <1>9 DEF Heartbeat, Leave, Finish, Return, GoTo
<1>10. CASE Commit(c)
  <2>1. PICK g : g = Advance(group[slot[c]], clock)
    OBVIOUS
  <2>2. /\ pc[c] = "commit" /\ SetGroup(slot[c], g)
        /\ \/ Finish(c, g)
           \/ /\ MayCommit(g, call[c])
              /\ GoTo(c, "load")
              /\ call' = [call EXCEPT ![c].changed = g # group[slot[c]], ![c].target = g.born]
    BY <1>10, <2>1, Zenon DEF Commit
  <2>3. CASE Finish(c, g)
    BY <1>5, <2>3 DEF Finish, Return, GoTo
  <2>4. CASE /\ MayCommit(g, call[c])
             /\ GoTo(c, "load")
             /\ call' = [call EXCEPT ![c].changed = g # group[slot[c]], ![c].target = g.born]
    <3>1. slot[c] = table /\ table \in Slots
      BY <1>1, Locked
    <3>2. group'[slot[c]] = g
      BY <2>2, <3>1, SetGroupAt
    <3>3. g # NoGroup /\ g.gen = call[c].gen
      BY <2>4, NoGroupEmpty DEF MayCommit, Active
    <3>4. DOMAIN call = Clients /\ call[c] \in Requests
      BY DEF GroupInv, GroupParts, TypeInv
    <3>5. PICK changed : changed = (g # group[slot[c]])
      OBVIOUS
    <3>6. call' = [call EXCEPT ![c].changed = changed, ![c].target = g.born]
      BY <2>4, <3>5
    <3>7. call'[c].target = g.born /\ call'[c].gen = call[c].gen
      BY ONLY <3>4, <3>6, c \in Clients DEF Requests
    <3>8. pc' = [pc EXCEPT ![c] = "load"] /\ slot' = slot
      BY <2>4 DEF GoTo
    <3>9. \A d \in Clients : Storing(d)' => d = c
      BY <1>2, <1>4, <3>8 DEF Storing
    <3>10. CommitsHold'
      BY <3>2, <3>3, <3>7, <3>8, <3>9 DEF CommitsHold
    <3>11. ReadsPast'
      BY <1>4, <3>8, <3>9 DEF ReadsPast, Storing
    <3> QED BY <1>3, <3>10, <3>11 DEF OffsetsInv
  <2> QED BY <2>2, <2>3, <2>4
<1> QED BY <1>6, <1>7, <1>8, <1>9, <1>10

\* The manifest of a commit that talks to the store is not older than what is stored.
LEMMA ManifestFits ==
    ASSUME GroupInv, OffsetsInv, NEW c \in Clients, Storing(c)
    PROVE  /\ Manifest(call[c]) \in Manifests
           /\ Dated(Manifest(call[c])) /\ NotOlder(stored, Manifest(call[c]))
<1>1. PICK r \in Requests : r = call[c]
  BY DEF GroupInv, GroupParts, TypeInv
<1>2. PICK m \in Manifests : m = Manifest(r) /\ m.born = r.target /\ m.gen = r.gen
  BY ManifestType DEF Manifest
<1>3. /\ slot[c] = table /\ table \in Slots /\ group[table] # NoGroup
      /\ r.target = group[table].born /\ r.gen = group[table].gen
  <2>1. pc[c] # "idle"
    BY DEF Storing
  <2> QED BY <1>1, <2>1, Locked DEF OffsetsInv, CommitsHold
<1>4. group[table].born = births /\ births \in Nat /\ group[table].gen \in Nat
  BY <1>3, FormedFacts DEF GroupInv, GroupParts, TypeInv, OneGroup, Sound
<1>5. \A s \in Slots : group[s] # NoGroup => s = table
  BY DEF GroupInv, GroupParts, OneGroup
<1>6. Dated(m)
  BY <1>2, <1>3, <1>4, <1>5 DEF Dated
<1>7. stored.born \in Nat /\ stored.gen \in Nat
  BY DEF GroupInv, GroupParts, TypeInv, Manifests
<1>8. stored.born <= births /\ (stored.born = births => stored.gen <= group[table].gen)
  BY <1>3, <1>4 DEF OffsetsInv, StoreDated, Dated
<1>9. NotOlder(stored, m)
  BY <1>2, <1>3, <1>4, <1>7, <1>8 DEF NotOlder
<1> QED BY <1>1, <1>2, <1>6, <1>9

\* One commit stops talking to the store.
LEMMA ReleaseEnds ==
    ASSUME GroupInv, NEW c \in Clients, pc[c] # "idle", Release(c)
    PROVE  /\ \A d \in Clients \ {c} : pc'[d] = pc[d] /\ slot'[d] = slot[d] /\ call'[d] = call[d]
           /\ pc'[c] \notin {"load", "put"}
<1>1. DOMAIN call = Clients /\ DOMAIN pc = Clients
  BY DEF GroupInv, GroupParts, SlotInv, TypeInv
<1>2. CASE Return(c)
  BY <1>2, ReturnAlone
<1>3. CASE ~Return(c)
  <2>1. GoTo(c, "notify") /\ call' = [call EXCEPT ![c] = [NoCall EXCEPT !.changed = TRUE]]
    BY <1>3 DEF Release
  <2> QED BY <1>1, <2>1 DEF GoTo
<1> QED BY <1>2, <1>3

\* One attempt of GroupStore::commit: read, replace, or fail.
LEMMA StoreCallOffsets ==
    ASSUME GroupInv, GroupInv', OffsetsInv, Onward, NEW c \in Clients,
           LoadOffsets(c) \/ PutOffsets(c) \/ FailOffsets(c)
    PROVE  OffsetsInv'
<1>1. /\ DOMAIN call = Clients /\ DOMAIN pc = Clients /\ call[c] \in Requests
      /\ \A d \in Clients : call[d].rev \in Nat
  BY DEF GroupInv, GroupParts, SlotInv, TypeInv, Requests
<1>2. stored \in Manifests /\ stored.rev \in Nat /\ late \subseteq Manifests
  BY DEF GroupInv, GroupParts, TypeInv, Manifests
<1>3. Storing(c) /\ pc[c] # "idle" /\ group' = group
  BY DEF LoadOffsets, PutOffsets, FailOffsets, Storing
<1>4. PICK m \in Manifests : m = Manifest(call[c]) /\ m.rev = call[c].rev + 1
                              /\ Dated(m) /\ NotOlder(stored, m)
  BY <1>3, ManifestFits DEF Manifest
<1>5. CASE LoadOffsets(c)
  <2>1. /\ pc' = [pc EXCEPT ![c] = "put"] /\ slot' = slot /\ stored' = stored /\ late' = late
        /\ call' = [call EXCEPT ![c].rev = stored.rev, ![c].tries = @ + 1]
    BY <1>5 DEF LoadOffsets, GoTo
  <2>2. /\ \A d \in Clients \ {c} : pc'[d] = pc[d] /\ slot'[d] = slot[d] /\ call'[d] = call[d]
        /\ pc'[c] = "put"
    BY ONLY <1>1, <2>1, c \in Clients
  <2>3. call'[c].target = call[c].target /\ call'[c].gen = call[c].gen /\ call'[c].rev = stored.rev
    BY ONLY <1>1, <2>1, c \in Clients DEF Requests
  <2>4. \A d \in Clients : Storing(d)' => Storing(d)
    BY <1>3, <2>2 DEF Storing
  <2>5. CommitsHold'
    <3>1. \A d \in Clients : call'[d].target = call[d].target /\ call'[d].gen = call[d].gen
      BY <2>2, <2>3
    <3>2. slot' = slot /\ group' = group /\ CommitsHold
      BY <1>3, <2>1 DEF OffsetsInv
    <3> QED BY ONLY <2>4, <3>1, <3>2 DEF CommitsHold
  <2>6. ReadsPast'
    <3>1. ASSUME NEW d \in Clients, pc'[d] = "put" PROVE call'[d].rev <= stored.rev
      <4>1. CASE d = c
        BY <1>2, <2>3, <4>1
      <4>2. CASE d # c
        BY <2>2, <3>1, <4>2 DEF OffsetsInv, ReadsPast
      <4> QED BY <4>1, <4>2
    <3> QED BY <2>1, <3>1 DEF ReadsPast
  <2>7. StoreDated'
    BY <2>1, StoreKept DEF OffsetsInv
  <2> QED BY <2>5, <2>6, <2>7 DEF OffsetsInv
<1>6. CASE PutOffsets(c) /\ stored' = stored
  <2>1. late' = late /\ (Release(c) \/ (GoTo(c, "load") /\ UNCHANGED call))
    BY <1>6 DEF PutOffsets
  <2>2. CommitsHold' /\ ReadsPast'
    <3>1. CASE Release(c)
      BY <1>2, <1>3, <1>6, <3>1, ReleaseEnds, OneLess
    <3>2. CASE GoTo(c, "load") /\ UNCHANGED call
      <4>1. pc' = [pc EXCEPT ![c] = "load"] /\ slot' = slot /\ call' = call
        BY <3>2 DEF GoTo
      <4>2. \A d \in Clients : (Storing(d)' => Storing(d)) /\ (pc'[d] = "put" => pc[d] = "put")
        BY <1>1, <1>3, <4>1 DEF Storing
      <4>3. CommitsHold'
        BY <1>3, <4>1, <4>2 DEF OffsetsInv, CommitsHold
      <4>4. ReadsPast'
        BY <1>6, <4>1, <4>2 DEF OffsetsInv, ReadsPast
      <4> QED BY <4>3, <4>4
    <3> QED BY <2>1, <3>1, <3>2
  <2>3. StoreDated'
    BY <1>6, <2>1, StoreKept DEF OffsetsInv
  <2> QED BY <2>2, <2>3 DEF OffsetsInv
<1>7. CASE PutOffsets(c) /\ stored' # stored
  <2>1. stored.rev + 1 = m.rev /\ stored' = m /\ Release(c) /\ late' = late
    BY <1>4, <1>7 DEF PutOffsets, Wins
  <2>2. m.rev \in Nat /\ stored.rev <= m.rev
    BY <1>2, <2>1
  <2>3. CommitsHold' /\ ReadsPast'
    BY <1>3, <2>1, <2>2, ReleaseEnds, OneLess
  <2>4. Dated(m)'
    BY <1>4, DatedOn
  <2>5. ASSUME NEW n \in late
        PROVE  Dated(n)' /\ n.rev <= m.rev + 1 /\ n.rev # m.rev + 1
    <3>1. n \in Manifests /\ n.rev \in Nat /\ n.rev <= stored.rev + 1 /\ Dated(n)
      BY <1>2 DEF OffsetsInv, StoreDated, Manifests
    <3>2. Dated(n)'
      BY <3>1, DatedOn
    <3> QED BY <1>2, <2>1, <2>2, <3>1, <3>2
  <2>6. StoreDated'
    BY <2>1, <2>4, <2>5 DEF StoreDated, Dated
  <2> QED BY <2>3, <2>6 DEF OffsetsInv
<1>8. CASE FailOffsets(c)
  <2>1. /\ Release(c) /\ stored' = stored
        /\ late' = late \/ (pc[c] = "put" /\ late' = late \cup {m})
    BY <1>4, <1>8 DEF FailOffsets
  <2>2. CommitsHold' /\ ReadsPast'
    BY <1>2, <1>3, <2>1, ReleaseEnds, OneLess
  <2>3. CASE late' = late
    BY <2>1, <2>2, <2>3, StoreKept DEF OffsetsInv
  <2>4. CASE pc[c] = "put" /\ late' = late \cup {m}
    <3>1. call[c].rev <= stored.rev
      BY <2>4 DEF OffsetsInv, ReadsPast
    <3>2. m.rev <= stored.rev + 1
      BY <1>1, <1>2, <1>4, <3>1
    <3>3. \A n \in late \cup {m} :
            /\ n \in Manifests /\ Dated(n)
            /\ n.rev <= stored.rev + 1 /\ (n.rev = stored.rev + 1 => NotOlder(stored, n))
      BY <1>2, <1>4, <3>2 DEF OffsetsInv, StoreDated
    <3>4. \A n \in late \cup {m} : Dated(n)'
      BY <3>3, DatedOn
    <3>5. PICK k \in Manifests : k = stored
      BY <1>2
    <3>6. Dated(k)'
      BY <3>5, DatedOn DEF OffsetsInv, StoreDated
    <3>7. StoreDated'
      BY <2>1, <2>4, <3>3, <3>4, <3>5, <3>6 DEF StoreDated, Dated
    <3> QED BY <2>2, <3>7 DEF OffsetsInv
  <2> QED BY <2>1, <2>3, <2>4
<1> QED BY <1>5, <1>6, <1>7, <1>8

\* The other steps of a request.
LEMMA QuietOffsets ==
    ASSUME GroupInv, GroupInv', OffsetsInv, Onward, NEW c \in Clients,
           Call(c) \/ Wake(c) \/ NotifyAfter(c) \/ Reclaim(c)
    PROVE  OffsetsInv'
<1>1. /\ group' = group /\ stored' = stored /\ late' = late
  BY DEF Call, CallJoin, CallSync, CallMember, Begin, Wake, NotifyAfter, Reclaim
<1>2. StoreDated'
  BY <1>1, StoreKept DEF OffsetsInv
<1>3. stored.rev \in Nat /\ DOMAIN pc = Clients /\ DOMAIN slot = Clients /\ DOMAIN call = Clients
  BY DEF GroupInv, GroupParts, SlotInv, TypeInv, Manifests
<1>4. ASSUME \A d \in Clients \ {c} : pc'[d] = pc[d] /\ slot'[d] = slot[d] /\ call'[d] = call[d],
             pc'[c] \notin {"load", "put"}
      PROVE  OffsetsInv'
  BY <1>1, <1>2, <1>3, <1>4, OneLess DEF OffsetsInv
<1>5. CASE Call(c)
  <2>1. PICK where \in Busy \ {"sleep", "load", "put"} : \E r : Begin(c, table', where, r)
    <3>1. \E where \in Busy \ {"sleep", "load", "put"} : \E r : Begin(c, table', where, r)
      BY <1>5 DEF Call, CallJoin, CallSync, CallMember, Busy
    <3> QED BY <3>1
  <2>2. PICK r : Begin(c, table', where, r)
    BY <2>1
  <2> QED BY <1>3, <1>4, <2>2 DEF Begin
<1>6. CASE Wake(c)
  BY <1>3, <1>4, <1>6 DEF Wake, GoTo
<1>7. CASE NotifyAfter(c)
  BY <1>3, <1>4, <1>7 DEF NotifyAfter, GoTo, Return
<1>8. CASE Reclaim(c)
  BY <1>3, <1>4, <1>8 DEF Reclaim, Return
<1> QED BY <1>5, <1>6, <1>7, <1>8

\* A late write that wins is not older than what it replaces.
LEMMA LateOffsets ==
    ASSUME GroupInv, GroupInv', OffsetsInv, Onward, LatePut
    PROVE  OffsetsInv'
<1>1. stored \in Manifests /\ stored.rev \in Nat /\ late \subseteq Manifests
  BY DEF GroupInv, GroupParts, TypeInv, Manifests
<1>2. PICK m \in late : /\ late' = late \ {m}
                        /\ \/ stored.rev + 1 = m.rev /\ stored' = m
                           \/ stored' = stored
  BY DEF LatePut, Wins
<1>3. UNCHANGED <<group, pc, slot, call>>
  BY DEF LatePut
<1>4. CommitsHold'
  BY <1>3 DEF OffsetsInv, CommitsHold, Storing
<1>5. \A d \in Clients : call[d].rev \in Nat
  BY DEF GroupInv, GroupParts, TypeInv, Requests
<1>6. CASE stored' = stored
  <2>1. StoreDated'
    BY <1>2, <1>6, StoreKept DEF OffsetsInv
  <2>2. ReadsPast'
    BY <1>3, <1>6 DEF OffsetsInv, ReadsPast
  <2> QED BY <1>4, <2>1, <2>2 DEF OffsetsInv
<1>7. CASE stored.rev + 1 = m.rev /\ stored' = m
  <2>1. ReadsPast'
    BY <1>1, <1>3, <1>5, <1>7 DEF OffsetsInv, ReadsPast
  <2>2. \A n \in late : n \in Manifests /\ n.rev \in Nat /\ n.rev <= stored.rev + 1 /\ Dated(n)
    BY <1>1 DEF OffsetsInv, StoreDated, Manifests
  <2>3. \A n \in late : Dated(n)' /\ n.rev <= m.rev + 1 /\ n.rev # m.rev + 1
    BY <1>1, <1>7, <2>2, DatedOn
  <2>4. StoreDated'
    BY <1>2, <1>7, <2>3 DEF StoreDated, Dated
  <2> QED BY <1>4, <2>1, <2>4 DEF OffsetsInv
<1> QED BY <1>2, <1>6, <1>7

\* Sweeping, replacing the broker and time.
LEMMA OthersOffsets ==
    ASSUME GroupInv, GroupInv', OffsetsInv, Onward, Sweep \/ Replace \/ Tick \/ UNCHANGED vars
    PROVE  OffsetsInv'
<1>1. stored \in Manifests /\ stored.rev \in Nat /\ late \subseteq Manifests
  BY DEF GroupInv, GroupParts, TypeInv, Manifests
<1>2. CASE Tick \/ UNCHANGED vars
  <2>1. UNCHANGED <<group, pc, slot, call, stored, late>>
    BY <1>2 DEF Tick, vars
  <2>2. StoreDated'
    BY <2>1, StoreKept DEF OffsetsInv
  <2> QED BY <2>1, <2>2 DEF OffsetsInv, CommitsHold, ReadsPast, Storing
<1>3. CASE Sweep
  <2>1. \A c \in Clients : pc[c] = "idle"
    BY <1>3 DEF Sweep, Holders, GroupInv, SlotInv, Holding
  <2>2. pc' = pc /\ stored' = stored /\ late' = late
    BY <1>3 DEF Sweep
  <2>3. StoreDated'
    BY <2>2, StoreKept DEF OffsetsInv
  <2> QED BY <2>1, <2>2, <2>3 DEF OffsetsInv, CommitsHold, ReadsPast, Storing
<1>4. CASE Replace
  <2>1. /\ pc' = [c \in Clients |-> "idle"] /\ stored' = stored
        /\ late' = late \cup {Manifest(call[c]) : c \in {d \in Clients : pc[d] = "put"}}
    BY <1>4 DEF Replace
  <2>2. ASSUME NEW n \in late'
        PROVE  /\ n \in Manifests /\ Dated(n)
               /\ n.rev <= stored.rev + 1 /\ (n.rev = stored.rev + 1 => NotOlder(stored, n))
    <3>1. CASE n \in late
      BY <1>1, <3>1 DEF OffsetsInv, StoreDated
    <3>2. CASE n \notin late
      <4>1. PICK c \in Clients : pc[c] = "put" /\ n = Manifest(call[c])
        BY <2>1, <2>2, <3>2
      <4>2. n \in Manifests /\ Dated(n) /\ NotOlder(stored, n)
        BY <4>1, ManifestFits DEF Storing
      <4>3. call[c].rev \in Nat /\ call[c].rev <= stored.rev
        BY <4>1 DEF OffsetsInv, ReadsPast, GroupInv, GroupParts, TypeInv, Requests
      <4>4. n.rev = call[c].rev + 1
        BY <4>1 DEF Manifest
      <4>5. n.rev <= stored.rev + 1
        BY ONLY <1>1, <4>3, <4>4
      <4> QED BY <4>2, <4>5
    <3> QED BY <3>1, <3>2
  <2>3. \A n \in late' : Dated(n)'
    BY <2>2, DatedOn
  <2>4. PICK k \in Manifests : k = stored
    BY <1>1
  <2>5. Dated(k)'
    BY <2>4, DatedOn DEF OffsetsInv, StoreDated
  <2>6. StoreDated'
    BY <2>1, <2>2, <2>3, <2>4, <2>5 DEF StoreDated, Dated
  <2> QED BY <2>1, <2>6 DEF OffsetsInv, CommitsHold, ReadsPast, Storing
<1> QED BY <1>2, <1>3, <1>4

\* The offsets' invariant holds in every reachable state, beside the group's.
LEMMA OffsetsKept ==
    ASSUME GroupInv, GroupInv', OffsetsInv, [Next]_vars
    PROVE  OffsetsInv'
<1>1. Onward
  BY CallKeeps, StepKeeps, OthersKeep DEF Next
<1>2. ASSUME NEW c \in Clients, Call(c) \/ Step(c) \/ FailOffsets(c)
      PROVE  OffsetsInv'
  BY <1>1, <1>2, LockedOffsets, StoreCallOffsets, QuietOffsets DEF Step
<1> QED BY <1>1, <1>2, LateOffsets, OthersOffsets DEF Next

(***************************************************************************)
(* Offsets are fenced: whatever commits, late writes and broker            *)
(* replacements do, what is stored never gives way to what an older        *)
(* generation, or an older incarnation of the group, committed.            *)
(***************************************************************************)
THEOREM StoreFenced == Spec => OffsetsFenced
<1>1. Init => OffsetsInv
  BY DEF Init, OffsetsInv, CommitsHold, ReadsPast, StoreDated, Storing, Dated
<1>2. GroupInv /\ GroupInv' /\ OffsetsInv /\ [Next]_vars => OffsetsInv'
  BY OffsetsKept
<1>3. GroupInv /\ OffsetsInv /\ [Next]_vars => [NotOlder(stored, stored')]_stored
  <2> SUFFICES ASSUME GroupInv, OffsetsInv, [Next]_vars, stored' # stored
               PROVE  NotOlder(stored, stored')
    OBVIOUS
  <2>1. LatePut \/ \E c \in Clients : PutOffsets(c)
    <3>1. \A c \in Clients : ~Call(c) /\ ~FailOffsets(c)
      <4>1. ASSUME NEW c \in Clients, FailOffsets(c) PROVE FALSE
        BY <4>1 DEF FailOffsets
      <4>2. ASSUME NEW c \in Clients, CallJoin(c) \/ CallSync(c) PROVE FALSE
        BY <4>2 DEF CallJoin, CallSync, Begin
      <4>3. ASSUME NEW c \in Clients, CallMember(c) PROVE FALSE
        BY <4>3 DEF CallMember, Begin
      <4> QED BY <4>1, <4>2, <4>3 DEF Call
    <3>2. \A c \in Clients : ~(JoinAdmit(c) \/ JoinTail(c) \/ JoinCheck(c) \/ SyncCheck(c))
      BY DEF JoinAdmit, JoinTail, JoinCheck, SyncCheck
    <3>3. \A c \in Clients : ~(Wake(c) \/ Heartbeat(c) \/ Leave(c) \/ Commit(c) \/ LoadOffsets(c)
                                 \/ NotifyAfter(c) \/ Reclaim(c))
      BY DEF Wake, Heartbeat, Leave, Commit, LoadOffsets, NotifyAfter, Reclaim
    <3>4. ~(Sweep \/ Replace \/ Tick \/ UNCHANGED vars)
      BY DEF Sweep, Replace, Tick, vars
    <3> QED BY <3>1, <3>2, <3>3, <3>4 DEF Next, Step
  <2>2. CASE LatePut
    BY <2>2 DEF LatePut, Wins, OffsetsInv, StoreDated
  <2>3. ASSUME NEW c \in Clients, PutOffsets(c)
        PROVE  NotOlder(stored, stored')
    <3>1. stored' = Manifest(call[c]) /\ Storing(c)
      BY <2>3 DEF PutOffsets, Storing
    <3> QED BY <3>1, ManifestFits
  <2> QED BY <2>1, <2>2, <2>3
<1> QED BY <1>1, <1>2, <1>3, GroupInvariant, PTL DEF Spec, OffsetsFenced
============================================================================
