-------------------------- MODULE GroupMembership --------------------------
(***************************************************************************)
(* The state of one consumer group and the functions that move it between  *)
(* its phases (src/coordinator.rs: GroupState, advance_group,              *)
(* start_rebalance, finalize_rebalance, protocols_compatible,              *)
(* select_protocol, exact_assignments).                                    *)
(*                                                                         *)
(* Member ids are numbers, because the code takes the first id in order as *)
(* the next leader.  A protocol's metadata and the bytes of an assignment  *)
(* are opaque: an offer is the sequence of protocol names, an assignment   *)
(* one value.  A leader's plan gives all its members the same value, the   *)
(* name of that plan.                                                      *)
(***************************************************************************)
EXTENDS Integers, Sequences, FiniteSets, Functions, FiniteSetsExt

CONSTANTS
    MemberIds,      \* ids a new member may be given
    Protocols,      \* protocol names
    Offers,         \* sequences of protocols a member may offer
    Timeouts,       \* session and rebalance timeouts, in ticks
    Values,         \* assignment contents
    NoValue         \* no assignment

ASSUME MemberIdsAssumption == MemberIds \subseteq Nat \ {0} /\ IsFiniteSet(MemberIds)
ASSUME OffersAssumption == Offers \subseteq Seq(Protocols) \ {<<>>}
ASSUME TimeoutsAssumption == Timeouts \subseteq [session : Nat \ {0}, rebalance : Nat \ {0}]
ASSUME NoValueAssumption == NoValue \notin Values

NoResult == [gen |-> 0, leader |-> 0, protocol |-> <<>>]

\* What join returns to a member.
Results == [gen : Nat, leader : MemberIds, protocol : {<<p>> : p \in Protocols}]

Members ==
    [offer : Offers, timeouts : Timeouts, deadline : Nat, joined : Nat,
     assignment : Values \cup {NoValue}, result : Results \cup {NoResult}]

\* None: a slot without a group.
NoGroup ==
    [born |-> 0, gen |-> 0, reb |-> 0, phase |-> "None", deadline |-> 0,
     leader |-> 0, members |-> <<>>]

IsNone(g) == g.phase = "None"

Ids(g) == DOMAIN g.members

Joined(g) == {id \in Ids(g) : g.members[id].joined = g.reb}

\* The longest rebalance timeout of the members.
Longest(ms) == Max({ms[id].timeouts.rebalance : id \in DOMAIN ms})

----------------------------------------------------------------------------

(***************************************************************************)
(* Only these members stay.  The first of them succeeds a leader that is   *)
(* gone (ensure_leader); a group without members is dropped.               *)
(***************************************************************************)
Keep(g, ids) ==
    IF ids = {} THEN NoGroup
    ELSE [g EXCEPT !.members = Restrict(g.members, ids),
                   !.leader = IF g.leader \in ids THEN g.leader ELSE Min(ids)]

\* Mutant: a rebalance leaves the old assignments in place.
StartRebalanceKeeping(g, now) ==
    [g EXCEPT !.reb = g.reb + 1, !.phase = "Joining", !.deadline = now + Longest(g.members)]

StartRebalance(g, now) ==
    [g EXCEPT !.reb = g.reb + 1,
              !.phase = "Joining",
              !.deadline = now + Longest(g.members),
              !.members = [id \in Ids(g) |-> [g.members[id] EXCEPT !.assignment = NoValue,
                                                                   !.result = NoResult]]]

\* Protocols that every member but one offers, and so does that one's new offer.
Common(ms, id, offer) ==
    {p \in Range(offer) : \A other \in DOMAIN ms \ {id} : p \in Range(ms[other].offer)}

\* Mutant: a newcomer is compared with the leader alone.
CompatibleWithLeader(g, id, offer) ==
    \E p \in Range(offer) : id = g.leader \/ p \in Range(g.members[g.leader].offer)

\* protocols_compatible: the offer leaves the group a common protocol.
Compatible(g, id, offer) == Common(g.members, id, offer) # {}

\* select_protocol: the leader's first choice that all members offer.
Selected(g) ==
    LET offer == g.members[g.leader].offer
    IN  offer[Min({i \in DOMAIN offer : offer[i] \in Common(g.members, g.leader, offer)})]

Agreed(g) == Common(g.members, g.leader, g.members[g.leader].offer) # {}

\* Mutant: the generation keeps its number.
FinalizeSameGeneration(g, now) ==
    [g EXCEPT !.phase = "AwaitingSync",
              !.deadline = now + Longest(g.members),
              !.members =
                  [id \in Ids(g) |->
                     [g.members[id] EXCEPT
                        !.assignment = NoValue,
                        !.deadline = now + g.members[id].timeouts.session,
                        !.result = [gen |-> g.gen, leader |-> g.leader,
                                    protocol |-> <<Selected(g)>>]]]]

(***************************************************************************)
(* finalize_rebalance: the next generation, and its outcome for every      *)
(* member.  Without a common protocol it fails and changes nothing.        *)
(***************************************************************************)
Finalize(g, now) ==
    IF ~Agreed(g) THEN g
    ELSE [g EXCEPT
            !.gen = g.gen + 1,
            !.phase = "AwaitingSync",
            !.deadline = now + Longest(g.members),
            !.members =
                [id \in Ids(g) |->
                   [g.members[id] EXCEPT
                      !.assignment = NoValue,
                      !.deadline = now + g.members[id].timeouts.session,
                      !.result = [gen |-> g.gen + 1, leader |-> g.leader,
                                  protocol |-> <<Selected(g)>>]]]]

----------------------------------------------------------------------------

Live(g, now) == {id \in Ids(g) : g.members[id].deadline > now}

\* advance_group, first half: members whose session ended are removed.
Expire(g, now) ==
    LET kept == Keep(g, Live(g, now))
    IN  IF IsNone(g) \/ Live(g, now) = Ids(g) THEN g
        ELSE IF kept.phase \in {"None", "Joining"} THEN kept
        ELSE StartRebalance(kept, now)

\* The members a rebalance goes on with at this time.
Rejoined(g, now) == IF now >= g.deadline THEN Joined(g) ELSE Ids(g)

(***************************************************************************)
(* advance_group, second half: a rebalance ends when all its members have  *)
(* rejoined, without the late ones once its deadline has passed; a leader  *)
(* that does not sync in time causes another rebalance.                    *)
(***************************************************************************)
Settle(g, now) ==
    LET kept == Keep(g, Rejoined(g, now))
    IN  IF g.phase = "Joining" THEN
            IF ~IsNone(kept) /\ Joined(kept) = Ids(kept) THEN Finalize(kept, now) ELSE kept
        ELSE IF g.phase = "AwaitingSync" /\ now >= g.deadline THEN StartRebalance(g, now)
        ELSE g

Advance(g, now) == Settle(Expire(g, now), now)

----------------------------------------------------------------------------

\* The record of a member that joins, or joins again.
Joiner(g, offer, timeouts, now) ==
    [offer |-> offer, timeouts |-> timeouts, deadline |-> now + timeouts.session,
     joined |-> g.reb, assignment |-> NoValue, result |-> NoResult]

\* Mutant: the founder is not the leader.
AdmitLeaderless(g, id, offer, timeouts, now, born) ==
    LET base == CASE IsNone(g)            -> [NoGroup EXCEPT !.born = born, !.reb = 1,
                                                             !.phase = "Joining"]
                  [] g.phase = "Joining"  -> g
                  [] OTHER                -> StartRebalance(g, now)
        ms   == [i \in Ids(base) \cup {id} |->
                   IF i = id THEN Joiner(base, offer, timeouts, now) ELSE base.members[i]]
    IN  [base EXCEPT !.members = ms, !.deadline = now + Longest(ms)]

\* The group a member enters: a new one, or one that rebalances.
Entering(g, id, now, born) ==
    CASE IsNone(g)            -> [NoGroup EXCEPT !.born = born, !.reb = 1, !.phase = "Joining",
                                                 !.leader = id]
      [] g.phase = "Joining"  -> g
      [] OTHER                -> StartRebalance(g, now)

\* A member joins a group that exists, or founds one.
Admit(g, id, offer, timeouts, now, born) ==
    LET base == Entering(g, id, now, born)
        ms   == [i \in Ids(base) \cup {id} |->
                   IF i = id THEN Joiner(base, offer, timeouts, now) ELSE base.members[i]]
    IN  [base EXCEPT !.members = ms, !.deadline = now + Longest(ms)]

\* A member leaves: the others rebalance, or end the rebalance that waited for it.
Without(g, id, now) ==
    LET kept == Keep(g, Ids(g) \ {id})
    IN  IF IsNone(kept) THEN kept
        ELSE IF kept.phase # "Joining" THEN StartRebalance(kept, now)
        ELSE IF Joined(kept) = Ids(kept) THEN Finalize(kept, now)
        ELSE kept

\* exact_assignments: one for each member and for nobody else.
Exact(g, ids) == ids = Ids(g)

\* The leader's assignments make the generation stable; every session starts anew.
Install(g, value, now) ==
    [g EXCEPT !.phase = "Stable",
              !.members = [id \in Ids(g) |->
                             [g.members[id] EXCEPT
                                !.assignment = value,
                                !.deadline = now + g.members[id].timeouts.session]]]

\* A member is heard from.
Touch(g, id, now) ==
    [g EXCEPT !.members[id].deadline = now + g.members[id].timeouts.session]

\* active_group: the caller is a member of the current generation.
Active(g, id, gen) == ~IsNone(g) /\ id \in Ids(g) /\ g.gen = gen

\* A member that may heartbeat and commit.
Settled(g, id) == g.phase = "Stable" /\ g.members[id].assignment # NoValue

============================================================================
