-------------------------- MODULE RequestHandlers --------------------------
(***************************************************************************)
(* What the handlers of Kafka requests answer, as functions of the request *)
(* and of the durable state an item of it reads: topics, partition logs,   *)
(* the group's offsets and the producer-ID counter.                        *)
(***************************************************************************)
EXTENDS GroupOffsets

CONSTANTS
    DefaultPartitions,  \* partitions of a topic that is created
    MaxPayload,         \* the broker's own limit on a fetch
    BaseReserve,        \* bytes reserved for the envelope of a fetch response
    ItemReserve,        \* and for each topic and partition in it
    NoProducer          \* producer ID of batches without idempotence

\* What the object of the producer-ID counter holds.
Counters == [next_id : Nat]

ASSUME HandlersAssumption ==
    /\ DefaultPartitions \in 1 .. MaxTopicPartitions
    /\ MaxPayload \in Nat /\ BaseReserve \in Nat /\ ItemReserve \in Nat
    /\ Missing \notin Counters

VARIABLES
    topics,    \* partitions of each topic; 0 if it does not exist
    logs,      \* of each key: first retained offset, every batch ever appended
    offsets,   \* the group's manifest, or Missing
    counter    \* the object that holds the next producer ID, or Missing

SupportedApis ==
    [Produce |-> 7 .. 7, InitProducerId |-> 0 .. 4, Fetch |-> 4 .. 4, ListOffsets |-> 3 .. 3,
     Metadata |-> 4 .. 4, OffsetCommit |-> 2 .. 2, OffsetFetch |-> 3 .. 3,
     FindCoordinator |-> 2 .. 2, JoinGroup |-> 2 .. 2, Heartbeat |-> 1 .. 1,
     LeaveGroup |-> 1 .. 1, SyncGroup |-> 1 .. 1, ApiVersions |-> 0 .. 3]

\* Requests as they are decoded.
FetchRequests ==
    [api : {"Fetch"}, version : Int, follower : BOOLEAN, max : Int,
     items : Seq([key : Names, from : Int, max : Int])]

ListRequests ==
    [api : {"ListOffsets"}, version : Int, follower : BOOLEAN,
     items : Seq([key : Names, timestamp : Int])]

CommitRequests ==
    [api : {"OffsetCommit"}, version : Int, retention : Int, items : Seq(CommitEntries)]

OffsetRequests ==
    [api : {"OffsetFetch"}, version : Int, items : Seq([key : Names])]

ProduceRequests ==
    [api : {"Produce"}, version : Int, acks : Int, transactional : BOOLEAN,
     items : Seq([key : Names,
                  batches : Seq([pid : Int \cup {NoProducer}, count : Nat, bytes : Nat \ {0}])])]

MetadataRequests ==
    [api : {"Metadata"}, version : Int, all : BOOLEAN, create : BOOLEAN, items : Seq(STRING)]

InitRequests ==
    [api : {"InitProducerId"}, version : Int, transactional : BOOLEAN, id : Int, epoch : Int,
     items : {<<>>}]

\* Requests of other APIs are not handled here.
OtherRequests ==
    [api : {"FindCoordinator", "JoinGroup", "Heartbeat", "LeaveGroup", "SyncGroup",
            "ApiVersions", "Unknown"},
     version : Int, items : {<<>>}]

Requests ==
    FetchRequests \cup ListRequests \cup CommitRequests \cup OffsetRequests
        \cup ProduceRequests \cup MetadataRequests \cup InitRequests \cup OtherRequests

(***************************************************************************)
(* What becomes of a frame: it is handled, it gets the one error response  *)
(* a client needs to negotiate versions, or its connection is closed.  An  *)
(* ill-formed frame is of no API.                                          *)
(***************************************************************************)
Admission(req) ==
    IF req.api \notin DOMAIN SupportedApis THEN "close"
    ELSE IF req.version \in SupportedApis[req.api] THEN "handle"
    ELSE IF req.api = "ApiVersions" /\ req.version \in 0 .. 4 THEN "negotiate"
    ELSE "close"

\* Only a Produce without acknowledgement gets no response.
Silent(req) == req.api = "Produce" /\ req.acks = 0

\* The response code of every failure of the log.
LogErrorCode ==
    [InvalidTopic |-> "InvalidTopicException",
     UnknownTopic |-> "UnknownTopicOrPartition",
     UnsupportedPartition |-> "UnknownTopicOrPartition",
     EmptyBatch |-> "InvalidRequest",
     InvalidOffset |-> "OffsetOutOfRange",
     OffsetOutOfRange |-> "OffsetOutOfRange",
     ObjectStore |-> "KafkaStorageError",
     ContentionExhausted |-> "KafkaStorageError"]

\* Why the log refuses a key it is asked to read.
Unreadable(k) ==
    IF k[1] \notin Topics THEN "InvalidTopic"
    ELSE IF topics[k[1]] = 0 THEN "UnknownTopic"
    ELSE IF k[2] \notin 0 .. topics[k[1]] - 1 THEN "UnsupportedPartition"
    ELSE "none"

Total(numbers) ==
    LET sum[i \in 0 .. Len(numbers)] == IF i = 0 THEN 0 ELSE sum[i - 1] + numbers[i]
    IN  sum[Len(numbers)]

Beyond(b) == b.base + b.count

End(log) == IF log.batches = <<>> THEN 0 ELSE Beyond(log.batches[Len(log.batches)])

\* The elements of a sequence at these places, in their order.
Those(s, places) ==
    LET taken[i \in 0 .. Len(s)] ==
            IF i = 0 THEN <<>>
            ELSE IF i \in places THEN Append(taken[i - 1], s[i]) ELSE taken[i - 1]
    IN  taken[Len(s)]

\* The batches with records from an offset on.
Eligible(log, from) ==
    Those(log.batches, {i \in DOMAIN log.batches : Beyond(log.batches[i]) > from})

\* The bytes of the first n batches.
Weight(batches, n) == Total([i \in 1 .. n |-> batches[i].bytes])

\* How many whole batches fit; the first may be sent although it does not.
Selected(batches, limit, oversized) ==
    Max({0} \cup {n \in DOMAIN batches :
                     Weight(batches, n) <= limit \/ (n = 1 /\ oversized)})

\* ---------------------------------------------------------------- Fetch
Saturating(n) == IF n < 0 THEN 0 ELSE n

LeastOf(a, b) == IF a < b THEN a ELSE b

\* The bytes of records a response may hold.
FetchBudget(req) ==
    LET named == {req.items[i].key[1] : i \in DOMAIN req.items}
        parts == Cardinality(named) + Len(req.items) IN
    Saturating(LeastOf(Saturating(req.max), MaxPayload) - (BaseReserve + ItemReserve * parts))

\* high: the next offset of the partition; until: that of the records sent.
NoRecords(code) == [code |-> code, high |-> 0, batches |-> 0, until |-> -1, bytes |-> 0]

\* What the log answers when these batches have records from the offset on.
FetchBounded(k, from, eligible, limit, oversized) ==
    IF Unreadable(k) # "none" THEN NoRecords(LogErrorCode[Unreadable(k)])
    ELSE IF from < 0 THEN NoRecords(LogErrorCode["InvalidOffset"])
    ELSE IF from \notin logs[k].start .. End(logs[k])
    THEN NoRecords(LogErrorCode["OffsetOutOfRange"])
    ELSE LET n == Selected(eligible, limit, oversized) IN
         [code |-> "none", high |-> End(logs[k]), batches |-> n, bytes |-> Weight(eligible, n),
          until |-> IF n = 0 THEN from ELSE Beyond(eligible[n])]

\* The limit of one partition, when the response has so many bytes left.
FetchLimit(item, left) == LeastOf(LeastOf(item.max, MaxPayload), left)

FetchItem(req, item, eligible, limit, first) ==
    IF req.max <= 0 \/ item.max <= 0 THEN NoRecords("InvalidFetchSize")
    ELSE IF req.follower THEN NoRecords("InvalidRequest")
    ELSE FetchBounded(item.key, item.from, eligible, limit, first)

\* Mutant: any partition that is answered ends the exception for a large batch.
StillFirstAnswered(first, answer) == first /\ answer.code # "none"

\* Mutant: every partition may send an oversized batch.
StillFirstAlways(first, answer) == TRUE

\* Whether the next partition may still send an oversized batch.
StillFirst(first, answer) == first /\ answer.batches = 0

\* ---------------------------------------------------------- ListOffsets
\* Mutant: the two special timestamps are swapped.
ListItemSwapped(req, item) ==
    LET log == logs[item.key] IN
    IF item.timestamp = -2 THEN [code |-> "none", offset |-> End(log)]
    ELSE [code |-> "none", offset |-> log.start]

ListItem(req, item) ==
    LET log == logs[item.key]
        refused(code) == [code |-> code, offset |-> -1] IN
    IF req.follower THEN refused("InvalidRequest")
    ELSE IF Unreadable(item.key) # "none" THEN refused(LogErrorCode[Unreadable(item.key)])
    ELSE IF item.timestamp = -2 THEN [code |-> "none", offset |-> log.start]
    ELSE IF item.timestamp = -1 THEN [code |-> "none", offset |-> End(log)]
    ELSE refused("InvalidRequest")

\* ------------------------------------------- OffsetCommit and OffsetFetch
\* The error that is local to one partition of a commit or an offset fetch.
TopicCheck(k) ==
    IF Unreadable(k) = "none" THEN "none" ELSE LogErrorCode[Unreadable(k)]

\* An offset fetch checks the key itself first.
SelectionCheck(k) ==
    IF k \notin Keys THEN "UnknownTopicOrPartition" ELSE TopicCheck(k)

(***************************************************************************)
(* Local errors are kept by key: of two items with one key, both get the   *)
(* error of the last that failed, also if the other was accepted.          *)
(***************************************************************************)
LocalError(req, checks, k) ==
    LET failed == {i \in DOMAIN checks : req.items[i].key = k /\ checks[i].code # "none"} IN
    IF failed = {} THEN "none" ELSE checks[Max(failed)].code

ValidCommits(req, checks) ==
    Those(req.items, {i \in DOMAIN checks : checks[i].code = "none"})

\* Mutant: an error of the group does not reach the partitions.
CommitAnswersLocal(req, checks, fault) ==
    [i \in DOMAIN req.items |-> [code |-> LocalError(req, checks, req.items[i].key)]]

\* An error of the request or of the group is every partition's.
CommitAnswers(req, checks, fault) ==
    [i \in DOMAIN req.items |->
        [code |-> IF fault # "none" THEN fault ELSE LocalError(req, checks, req.items[i].key)]]

\* An error of the group is the response's own; partitions then have none.
OffsetAnswers(req, checks, manifest, fault) ==
    [i \in DOMAIN req.items |->
        LET k == req.items[i].key
            selected == \E j \in DOMAIN checks : req.items[j].key = k /\ checks[j].code = "none" IN
        IF fault # "none" THEN [code |-> "none", offset |-> -1]
        ELSE [code |-> LocalError(req, checks, k),
              offset |-> IF selected THEN Committed(manifest, k) ELSE -1]]

\* ------------------------------------------------------- InitProducerId
InitFault(req) ==
    IF req.transactional THEN "UnsupportedForMessageFormat"
    ELSE IF req.id < -1 \/ req.epoch < -1 \/ (req.id = -1) # (req.epoch = -1)
    THEN "InvalidRequest" ELSE "none"

NextId(object) == IF object = Missing THEN 0 ELSE object.next_id

\* --------------------------------------------------------------- Produce
\* An empty batch among them refuses the records of a partition.
DecodeFault(batches) ==
    IF batches = <<>> \/ \E i \in DOMAIN batches : batches[i].count = 0
    THEN "InvalidRequest" ELSE "none"

\* Plain batches are appended as one; otherwise each keeps its identity.
Decoded(batches) ==
    IF \A i \in DOMAIN batches : batches[i].pid = NoProducer
    THEN <<[count |-> Total([i \in DOMAIN batches |-> batches[i].count]),
            bytes |-> Total([i \in DOMAIN batches |-> batches[i].bytes])]>>
    ELSE [i \in DOMAIN batches |-> [count |-> batches[i].count, bytes |-> batches[i].bytes]]

\* A log with more batches at its end.  PartitionLog recognises repeated ones.
Appended(log, added) ==
    LET base(i) == End(log) + Total([j \in 1 .. i - 1 |-> added[j].count]) IN
    [log EXCEPT !.batches = @ \o
        [i \in DOMAIN added |->
            [base |-> base(i), count |-> added[i].count, bytes |-> added[i].bytes]]]

ProduceFault(req, item) ==
    IF req.acks \notin -1 .. 1 THEN "InvalidRequiredAcks"
    ELSE IF req.transactional THEN "UnsupportedForMessageFormat"
    ELSE IF DecodeFault(item.batches) # "none" THEN DecodeFault(item.batches)
    ELSE IF req.acks # -1 /\ \E i \in DOMAIN item.batches : item.batches[i].pid # NoProducer
    THEN "InvalidRequiredAcks"
    ELSE "none"

\* The partitions a topic has once it is ensured for partition p.
Ensured(t) == IF topics[t] = 0 THEN DefaultPartitions ELSE topics[t]

Unwritable(k) ==
    IF k[1] \notin Topics THEN "InvalidTopic"
    ELSE IF k[2] \notin 0 .. Ensured(k[1]) - 1 THEN "UnsupportedPartition"
    ELSE "none"

\* -------------------------------------------------------------- Metadata
\* The topics a request asks about; without a list, all that exist.
Requested(req) ==
    IF req.all THEN {t \in Topics : topics[t] # 0}
    ELSE {req.items[i] : i \in DOMAIN req.items}

MetadataItem(req, t) ==
    IF t \notin Topics THEN [code |-> "InvalidTopicException", count |-> 0]
    ELSE IF topics[t] # 0 THEN [code |-> "none", count |-> topics[t]]
    ELSE IF req.create THEN [code |-> "none", count |-> DefaultPartitions]
    ELSE [code |-> "UnknownTopicOrPartition", count |-> 0]
=============================================================================
