--------------------------- MODULE TopicMetadata ---------------------------
(***************************************************************************)
(* The partition count of one topic (src/log.rs: ensure_topic,             *)
(* create_topic_metadata, topic_partition_count), as brokers with          *)
(* different configured defaults create and query the topic on one object  *)
(* store.                                                                  *)
(*                                                                         *)
(* The count is an object that is created once.  A topic older than these  *)
(* objects has a manifest of partition 0 and no count: it has one          *)
(* partition by inference.  Both questions take two reads, and brokers     *)
(* interleave between them.  Count 0 stands for an absent object.          *)
(***************************************************************************)
EXTENDS Integers, FiniteSets

CONSTANTS
    Brokers,
    Configured,     \* default_topic_partitions of each broker
    Partitions,     \* partition numbers clients ask for
    MaxCalls,       \* bound: calls of each broker
    MaxFailures     \* bound: crashes and transport errors

ASSUME BrokersAssumption == Configured \in [Brokers -> Nat \ {0}]
ASSUME PartitionsAssumption == Partitions \subseteq Nat
ASSUME CallsAssumption == {MaxCalls, MaxFailures} \subseteq Nat

DefaultPartitions == 1

VARIABLES
    meta,           \* the stored count
    manifests,      \* partitions that have a manifest
    lateCreates,    \* counts of creations whose caller saw an error
    pc,             \* where each broker's call is
    call,           \* what it was asked
    proposed,       \* the count it is about to store
    reply,          \* the outcome of its last call
    created,        \* whether its current call stored the count
    calls, failures

vars == <<meta, manifests, lateCreates, pc, call, proposed, reply, created, calls, failures>>

Kinds == {"ensure", "append", "query"}

NoReply == [kind |-> "none", result |-> "none", count |-> 0]

Init ==
    /\ meta = 0
    /\ manifests \in {{}, {0}}
    /\ lateCreates = {}
    /\ pc = [b \in Brokers |-> "idle"]
    /\ call = [b \in Brokers |-> [kind |-> "query", part |-> 0]]
    /\ proposed = [b \in Brokers |-> 0]
    /\ reply = [b \in Brokers |-> NoReply]
    /\ created = [b \in Brokers |-> FALSE]
    /\ calls = [b \in Brokers |-> 0]
    /\ failures = 0

----------------------------------------------------------------------------

(***************************************************************************)
(* A Metadata request that may create the topic, an append, or a question  *)
(* for the count (fetch, offsets, maintain, topic_exists, Metadata).       *)
(***************************************************************************)
Call(b) ==
    /\ pc[b] = "idle"
    /\ calls[b] < MaxCalls
    /\ calls' = [calls EXCEPT ![b] = @ + 1]
    /\ \E k \in Kinds, p \in Partitions : call' = [call EXCEPT ![b] = [kind |-> k, part |-> p]]
    /\ pc' = [pc EXCEPT ![b] = "meta"]
    /\ proposed' = [proposed EXCEPT ![b] = 0]
    /\ created' = [created EXCEPT ![b] = FALSE]
    /\ UNCHANGED <<meta, manifests, lateCreates, reply, failures>>

Return(b, result, count) ==
    /\ pc' = [pc EXCEPT ![b] = "idle"]
    /\ reply' = [reply EXCEPT ![b] = [kind |-> call[b].kind, result |-> result,
                                      count |-> count]]

\* Mutant: the partition is not checked against the count that won.
CheckedOnce(b, count) ==
    IF call[b].kind = "append"
    THEN pc' = [pc EXCEPT ![b] = "append"] /\ UNCHANGED reply
    ELSE Return(b, "ok", count)

\* The end of ensure_topic: validate_partition; an append goes on.
Checked(b, count) ==
    IF call[b].part >= count THEN Return(b, "UnsupportedPartition", 0)
    ELSE IF call[b].kind = "append"
    THEN pc' = [pc EXCEPT ![b] = "append"] /\ UNCHANGED reply
    ELSE Return(b, "ok", count)

\* load_topic_metadata: a stored count settles either question.
LoadMeta(b) ==
    /\ pc[b] = "meta"
    /\ \/ meta = 0 /\ pc' = [pc EXCEPT ![b] = "manifest"] /\ UNCHANGED reply
       \/ meta # 0 /\ call[b].kind = "query" /\ Return(b, "ok", meta)
       \/ meta # 0 /\ call[b].kind # "query" /\ Checked(b, meta)
    /\ UNCHANGED <<meta, manifests, lateCreates, call, proposed, created, calls, failures>>

Inferred == IF 0 \in manifests THEN DefaultPartitions ELSE 0

\* Mutant: a legacy topic is created with the configured count.
ProposalConfigured(b) == Configured[b]

\* The count ensure_topic creates: legacy topics keep their one partition.
Proposal(b) == IF Inferred # 0 THEN Inferred ELSE Configured[b]

\* The second read, of the manifest of partition 0.
LoadManifest(b) ==
    /\ pc[b] = "manifest"
    /\ \/ /\ call[b].kind = "query"
          /\ Return(b, IF Inferred = 0 THEN "UnknownTopic" ELSE "ok", Inferred)
          /\ UNCHANGED proposed
       \/ /\ call[b].kind # "query" /\ call[b].part >= Proposal(b)
          /\ Return(b, "UnsupportedPartition", 0)
          /\ UNCHANGED proposed
       \/ /\ call[b].kind # "query" /\ call[b].part < Proposal(b)
          /\ proposed' = [proposed EXCEPT ![b] = Proposal(b)]
          /\ pc' = [pc EXCEPT ![b] = "create"]
          /\ UNCHANGED reply
    /\ UNCHANGED <<meta, manifests, lateCreates, call, created, calls, failures>>

\* Mutant: the loser of the creation keeps its own count.
CreateOwn(b) ==
    /\ pc[b] = "create"
    /\ meta' = IF meta = 0 THEN proposed[b] ELSE meta
    /\ created' = [created EXCEPT ![b] = meta = 0]
    /\ Checked(b, proposed[b])
    /\ UNCHANGED <<manifests, lateCreates, call, proposed, calls, failures>>

\* create_topic_metadata: PutMode::Create; the loser reads the winner's count.
Create(b) ==
    /\ pc[b] = "create"
    /\ \/ /\ meta = 0
          /\ meta' = proposed[b]
          /\ created' = [created EXCEPT ![b] = TRUE]
          /\ Checked(b, proposed[b])
       \/ /\ meta # 0
          /\ pc' = [pc EXCEPT ![b] = "reload"]
          /\ UNCHANGED <<meta, created, reply>>
    /\ UNCHANGED <<manifests, lateCreates, call, proposed, calls, failures>>

\* Counts are never removed, so the reload always finds one.
Reload(b) ==
    /\ pc[b] = "reload"
    /\ Checked(b, meta)
    /\ UNCHANGED <<meta, manifests, lateCreates, call, proposed, created, calls, failures>>

\* The append commits: the partition has a manifest from now on.
Append(b) ==
    /\ pc[b] = "append"
    /\ manifests' = manifests \cup {call[b].part}
    /\ Return(b, "ok", 0)
    /\ UNCHANGED <<meta, lateCreates, call, proposed, created, calls, failures>>

\* The append is refused by its sequence number, after ensure_topic.
Refuse(b) ==
    /\ pc[b] = "append"
    /\ Return(b, "OutOfOrderSequence", 0)
    /\ UNCHANGED <<meta, manifests, lateCreates, call, proposed, created, calls, failures>>

\* A crash or a transport error; the creation may still reach the store,
\* and the append may have committed.
Fail(b) ==
    /\ pc[b] # "idle"
    /\ failures < MaxFailures
    /\ failures' = failures + 1
    /\ \/ UNCHANGED <<lateCreates, manifests>>
       \/ /\ pc[b] = "create"
          /\ lateCreates' = lateCreates \cup {proposed[b]}
          /\ UNCHANGED manifests
       \/ /\ pc[b] = "append"
          /\ manifests' = manifests \cup {call[b].part}
          /\ UNCHANGED lateCreates
    /\ Return(b, "Unavailable", 0)
    /\ UNCHANGED <<meta, call, proposed, created, calls>>

LateCreate ==
    /\ \E n \in lateCreates :
           /\ lateCreates' = lateCreates \ {n}
           /\ meta' = IF meta = 0 THEN n ELSE meta
    /\ UNCHANGED <<manifests, pc, call, proposed, reply, created, calls, failures>>

Next ==
    \/ \E b \in Brokers : \/ Call(b) \/ LoadMeta(b) \/ LoadManifest(b) \/ Create(b)
                          \/ Reload(b) \/ Append(b) \/ Refuse(b) \/ Fail(b)
    \/ LateCreate

Spec == Init /\ [][Next]_vars

----------------------------------------------------------------------------

(***************************************************************************)
(* The type invariant.                                                     *)
(***************************************************************************)
TypeOK ==
    /\ meta \in Nat
    /\ manifests \subseteq Partitions \cup {0}
    /\ lateCreates \subseteq Nat \ {0}
    /\ pc \in [Brokers -> {"idle", "meta", "manifest", "create", "reload", "append"}]
    /\ call \in [Brokers -> [kind: Kinds, part: Partitions \cup {0}]]
    /\ proposed \in [Brokers -> Nat]
    /\ created \in [Brokers -> BOOLEAN]

\* What the store says the topic has: 0 when there is no topic.
Durable == IF meta # 0 THEN meta ELSE Inferred

(***************************************************************************)
(* Once a topic has a partition count, stored or inferred, it never has    *)
(* another: no configuration of a later broker, no race of creators and no *)
(* creation that arrives late reinterprets it (docs/architecture.md:11).   *)
(***************************************************************************)
CountFixed == [][Durable # 0 => Durable' = Durable]_vars

(***************************************************************************)
(* Records only ever go to partitions the topic has, also when brokers     *)
(* with different defaults create it at the same time.                     *)
(***************************************************************************)
AppendsInRange == \A p \in manifests : p < Durable

(***************************************************************************)
(* A broker that creates a topic tells its client the count that was       *)
(* stored, whoever stored it.                                              *)
(***************************************************************************)
CreatorsConverge ==
    \A b \in Brokers :
        reply[b].kind = "ensure" /\ reply[b].result = "ok" => reply[b].count = meta

(***************************************************************************)
(* A count topic_partition_count reports is the durable one ("Return a     *)
(* topic's durable partition count, including legacy inference.").         *)
(***************************************************************************)
QueriesDurable ==
    \A b \in Brokers :
        reply[b].kind = "query" /\ reply[b].result = "ok" => reply[b].count = Durable

(***************************************************************************)
(* A Produce request that is refused has not created the topic ("rejected  *)
(* Produce requests remain side-effect free").                             *)
(***************************************************************************)
RefusalsSideEffectFree ==
    \A b \in Brokers :
        pc[b] = "idle" /\ reply[b].result = "OutOfOrderSequence" => ~created[b]
============================================================================
