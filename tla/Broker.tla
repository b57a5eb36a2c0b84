------------------------------- MODULE Broker -------------------------------
(***************************************************************************)
(* Brokers that serve Kafka connections, and their clients.  A connection  *)
(* handles one request at a time; a step of a handler is what it does      *)
(* between two awaits.  Requests to the log are one step each: PartitionLog*)
(* and TopicMetadata show that they look so.  The steps of the producer-ID *)
(* counter and of the group's offsets are their reads and writes.          *)
(***************************************************************************)
EXTENDS RequestHandlers, SequencesExt

CONSTANTS
    Conns, Brokers, Clients,
    BrokerOf,      \* the broker a connection leads to
    Dials,         \* the connections a client may use; it starts with First
    First,
    Workloads,     \* possible worlds: the clients, the logs, passes of retention
    FetchMax,      \* a consumer's limits
    PartitionMax,
    MaxAttempts,   \* tries of a conditional write
    MaxFailures,
    Nobody, Unread

ASSUME BrokerAssumption ==
    /\ BrokerOf \in [Conns -> Brokers]
    /\ Dials \in [Clients -> SUBSET Conns] /\ \A k \in Clients : First[k] \in Dials[k]
    /\ FetchMax \in Nat /\ PartitionMax \in Nat
    /\ MaxAttempts \in Nat \ {0} /\ MaxFailures \in Nat

\* Logs that appends can have made and retention cut: batches follow each other.
Logs ==
    {log \in [start : Nat, batches : Seq([base : Nat, count : Nat \ {0}, bytes : Nat \ {0}])] :
        /\ log.start <= End(log)
        /\ \A i, j \in DOMAIN log.batches :
               i < j => Beyond(log.batches[i]) <= log.batches[j].base}

ASSUME WorldsAssumption ==
    \A w \in Workloads :
        /\ w.topics \in [Topics -> 0 .. MaxTopicPartitions] /\ w.logs \in [Keys -> Logs]
        /\ w.scripts \in [Clients -> Seq(Requests)]
        /\ w.subscribed \in [Clients -> Seq(Keys)]
        /\ w.commits \in [Clients -> Nat] /\ w.trims \in Nat

(***************************************************************************)
(* Consumers do nothing else, and who is no consumer commits at most the   *)
(* first offset: nothing can be said of the records behind other commits.  *)
(***************************************************************************)
ASSUME ScriptsAssumption ==
    \A w \in Workloads : \A k \in Clients :
        /\ w.subscribed[k] # <<>> => w.scripts[k] = <<>>
        /\ \A i \in DOMAIN w.scripts[k] :
               LET req == w.scripts[k][i] IN
               req.api = "OffsetCommit" => \A n \in DOMAIN req.items : req.items[n].offset <= 0

VARIABLES
    job,       \* of each connection: the request it handles
    lock,      \* of each broker: the connection that holds the group's slot
    late,      \* writes under way of handlers that are gone
    client,    \* of each client: connection, position and what it will send
    failures,  \* failures that may still happen
    trims,     \* passes of retention that may still happen
    latest,    \* history: the offset last stored for each key
    seen,      \* history: records delivered, as keys and offsets
    issued     \* history: producer IDs that clients received, in order

store == <<topics, logs, offsets, counter>>
bounds == <<failures, trims>>
history == <<latest, seen, issued>>
vars == <<store, job, lock, late, client, bounds, history>>

\* The state of a connection without a request.
Idle == [phase |-> "idle"]

\* Positions of a consumer before it has asked, and where nothing is committed.
Unasked == -2
Nowhere == -1

Init ==
    \E w \in Workloads :
        /\ topics = w.topics /\ logs = w.logs
        /\ offsets = Missing /\ counter = Missing
        /\ job = [c \in Conns |-> Idle] /\ lock = [b \in Brokers |-> Nobody]
        /\ late = {}
        /\ client = [k \in Clients |->
               [at |-> First[k], waiting |-> FALSE, script |-> w.scripts[k],
                commits |-> w.commits[k],
                keys |-> w.subscribed[k],
                pos |-> [key \in Range(w.subscribed[k]) |-> Unasked]]]
        /\ failures = MaxFailures /\ trims = w.trims
        /\ latest = [k \in {} |-> 0] /\ seen = {} /\ issued = <<>>

\* ------------------------------------------------------------- the clients
Consumer(k) == client[k].keys # <<>>

\* The keys, in the order of the subscription, whose position is pos.
Located(k, pos) ==
    LET keys == client[k].keys IN
    Those(keys, {i \in DOMAIN keys : client[k].pos[keys[i]] = pos})

AskOffsets(keys) ==
    [api |-> "OffsetFetch", version |-> 3, items |-> [i \in DOMAIN keys |-> [key |-> keys[i]]]]

AskEarliest(keys) ==
    [api |-> "ListOffsets", version |-> 3, follower |-> FALSE,
     items |-> [i \in DOMAIN keys |-> [key |-> keys[i], timestamp |-> -2]]]

FetchAt(keys, pos) ==
    [api |-> "Fetch", version |-> 4, follower |-> FALSE, max |-> FetchMax,
     items |-> [i \in DOMAIN keys |->
                   [key |-> keys[i], from |-> pos[keys[i]], max |-> PartitionMax]]]

CommitAt(keys, pos) ==
    [api |-> "OffsetCommit", version |-> 2, retention |-> -1,
     items |-> [i \in DOMAIN keys |-> [key |-> keys[i], offset |-> pos[keys[i]]]]]

(***************************************************************************)
(* What a client may send: the head of its script, or, as a consumer, what *)
(* it needs to know its positions, then fetches and commits in any order.  *)
(***************************************************************************)
Sendable(k) ==
    LET me == client[k] IN
    IF me.script # <<>> THEN {Head(me.script)}
    ELSE IF ~Consumer(k) THEN {}
    ELSE IF Located(k, Unasked) # <<>> THEN {AskOffsets(Located(k, Unasked))}
    ELSE IF Located(k, Nowhere) # <<>> THEN {AskEarliest(Located(k, Nowhere))}
    ELSE {FetchAt(me.keys, me.pos)}
         \cup (IF me.commits > 0 THEN {CommitAt(me.keys, me.pos)} ELSE {})

\* What a consumer makes of a response.
Position(req, answers, key, pos) ==
    LET mine == {i \in DOMAIN req.items : req.items[i].key = key} IN
    IF mine = {} THEN pos
    ELSE LET a == answers[CHOOSE i \in mine : TRUE] IN
         CASE a.code = "OffsetOutOfRange" -> Nowhere
           [] a.code = "none" /\ req.api = "Fetch" -> a.until
           [] a.code = "none" /\ req.api \in {"OffsetFetch", "ListOffsets"} -> a.offset
           [] OTHER -> pos

\* Records of a fetch response from the offset asked for on.
Delivered(req, answers) ==
    UNION {{<<req.items[i].key, o>> : o \in req.items[i].from .. answers[i].until - 1} :
              i \in DOMAIN req.items}

(***************************************************************************)
(* A client that waits on a connection that is lost dials again.  If it is *)
(* scripted it sends its request once more; a consumer goes on, or, fresh, *)
(* is a new one.                                                           *)
(***************************************************************************)
Redialled(k, d, fresh) ==
    [client[k] EXCEPT
        !.at = d, !.waiting = FALSE,
        !.script = IF Consumer(k) THEN @ ELSE <<job[client[k].at].req>> \o @,
        !.pos = IF fresh THEN [key \in DOMAIN @ |-> Unasked] ELSE @]

Lose(conns) ==
    \E dial \in [Clients -> Conns], fresh \in BOOLEAN :
        /\ \A k \in Clients : dial[k] \in Dials[k]
        /\ client' = [k \in Clients |->
               IF client[k].waiting /\ client[k].at \in conns
               THEN Redialled(k, dial[k], fresh) ELSE client[k]]

\* ------------------------------------------------------------ the handlers
\* Where a handler goes once n items of its request are answered.
Following(req, n) ==
    IF n < Len(req.items) THEN "items"
    ELSE CASE req.api = "OffsetCommit" -> "fence"
           [] req.api = "OffsetFetch" -> "load"
           [] OTHER -> "reply"

RequestFault(req) ==
    CASE req.api = "InitProducerId" -> InitFault(req)
      [] req.api = "OffsetCommit" /\ req.retention # -1 -> "InvalidRequest"
      [] OTHER -> "none"

Begun(req) ==
    [req |-> req, base |-> Unread, tries |-> 0,
     answers |-> IF req.api = "OffsetCommit" /\ RequestFault(req) # "none"
                 THEN CommitAnswers(req, <<>>, RequestFault(req)) ELSE <<>>,
     fault |-> RequestFault(req), commits |-> <<>>, stored |-> <<>>,
     first |-> TRUE, left |-> IF req.api = "Fetch" THEN FetchBudget(req) ELSE 0,
     phase |-> IF RequestFault(req) # "none" THEN "reply"
               ELSE IF req.api = "InitProducerId" \/ (req.api = "Metadata" /\ req.all) THEN "load"
               ELSE Following(req, 0)]

\* A frame is read: it is handled, answered at once, or ends the connection.
Send(k) ==
    LET c == client[k].at IN
    /\ ~client[k].waiting /\ job[c] = Idle
    /\ \E req \in Sendable(k) :
           /\ job' = IF Admission(req) = "handle" THEN [job EXCEPT ![c] = Begun(req)] ELSE job
           /\ client' = [client EXCEPT
                  ![k].waiting = Admission(req) = "handle" /\ ~Silent(req),
                  ![k].script = IF @ = <<>> THEN @ ELSE Tail(@),
                  ![k].commits = IF Consumer(k) /\ req.api = "OffsetCommit" THEN @ - 1 ELSE @]
    /\ UNCHANGED <<store, lock, late, bounds, history>>

Asking(c, api, phase) ==
    /\ job[c] # Idle
    /\ job[c].req.api = api /\ job[c].phase = phase

\* The item a handler is at, and the handler once it is answered.
At(c) == job[c].req.items[Len(job[c].answers) + 1]

With(c, answer) ==
    [job[c] EXCEPT !.answers = Append(@, answer),
                   !.phase = Following(job[c].req, Len(job[c].answers) + 1)]

Keep == UNCHANGED <<lock, late, client, bounds, history>>

ServeFetch(c) ==
    /\ Asking(c, "Fetch", "items")
    /\ \E item \in {At(c)} :
       \E limit \in {FetchLimit(item, job[c].left)},
          batches \in {Eligible(logs[item.key], item.from)} :
       \E answer \in {FetchItem(job[c].req, item, batches, limit, job[c].first)} :
       job' = [job EXCEPT ![c] =
                  [With(c, answer) EXCEPT !.left = Saturating(@ - answer.bytes),
                                          !.first = StillFirst(@, answer)]]
    /\ UNCHANGED store /\ Keep

ServeListOffsets(c) ==
    /\ Asking(c, "ListOffsets", "items")
    /\ job' = [job EXCEPT ![c] = With(c, ListItem(job[c].req, At(c)))]
    /\ UNCHANGED store /\ Keep

\* topic_exists, once for each item of a commit or an offset fetch.
CheckTopic(c) ==
    /\ \/ /\ Asking(c, "OffsetCommit", "items")
          /\ job' = [job EXCEPT ![c] = With(c, [code |-> TopicCheck(At(c).key)])]
       \/ /\ Asking(c, "OffsetFetch", "items")
          /\ job' = [job EXCEPT ![c] = With(c, [code |-> SelectionCheck(At(c).key)])]
    /\ UNCHANGED store /\ Keep

\* The topic has these partitions from now on.
Creates(t, count) ==
    /\ topics' = [topics EXCEPT ![t] = count]
    /\ UNCHANGED <<logs, offsets, counter>>

\* Records are appended; the topic is created before, if need be.
Appends(item) ==
    /\ topics' = [topics EXCEPT ![item.key[1]] = Ensured(item.key[1])]
    /\ logs' = [logs EXCEPT ![item.key] = Appended(@, Decoded(item.batches))]
    /\ UNCHANGED <<offsets, counter>>

ServeProduce(c) ==
    /\ Asking(c, "Produce", "items")
    /\ LET item == At(c)
           fault == IF ProduceFault(job[c].req, item) # "none" THEN ProduceFault(job[c].req, item)
                    ELSE IF Unwritable(item.key) # "none" THEN LogErrorCode[Unwritable(item.key)]
                    ELSE "none" IN
       IF fault # "none"
       THEN /\ job' = [job EXCEPT ![c] = With(c, [code |-> fault, base |-> -1])]
            /\ UNCHANGED store
       ELSE /\ Appends(item)
            /\ job' = [job EXCEPT ![c] =
                          With(c, [code |-> "none", base |-> End(logs[item.key])])]
    /\ Keep

ServeMetadata(c) ==
    /\ Asking(c, "Metadata", "items")
    /\ LET t == At(c) answer == MetadataItem(job[c].req, t) IN
       /\ job' = [job EXCEPT ![c] = With(c, answer)]
       /\ IF answer.code = "none" THEN Creates(t, answer.count) ELSE UNCHANGED store
    /\ Keep

\* Without a list of topics the handler first lists those that exist.
ListTopics(c) ==
    /\ Asking(c, "Metadata", "load")
    /\ LET req == [job[c].req EXCEPT !.items = SetToSeq(Requested(job[c].req))] IN
       job' = [job EXCEPT ![c].req = req, ![c].phase = Following(req, 0)]
    /\ UNCHANGED store /\ Keep

\* ------------------------------------------------ conditional writes
Response(j, fault, base) ==
    CASE j.req.api = "OffsetCommit" -> CommitAnswers(j.req, j.answers, fault)
      [] j.req.api = "OffsetFetch" -> OffsetAnswers(j.req, j.answers, base, fault)
      [] OTHER -> j.answers

\* The handler has its response.
Finished(c, fault) ==
    [job EXCEPT ![c].phase = "reply", ![c].fault = fault,
                ![c].answers = Response(job[c], fault, offsets)]

\* Mutant: a commit that ends does not give the slot back.
UnlockedNever(c) == lock

Unlocked(c) == [b \in Brokers |-> IF lock[b] = c THEN Nobody ELSE lock[b]]

\* The write a handler makes of what it has read.
Write(c) ==
    [object |-> IF job[c].req.api = "InitProducerId" THEN "counter" ELSE "offsets",
     base |-> job[c].base, commits |-> job[c].commits]

Current(object) == IF object = "counter" THEN counter ELSE offsets

\* Mutant: the first write of an object does not demand that there is none.
HoldsOrCreates(w) == w.base = Missing \/ Current(w.object) = w.base

Holds(w) == Current(w.object) = w.base

Lands(w) ==
    /\ UNCHANGED <<topics, logs, seen, issued>>
    /\ IF w.object = "counter"
       THEN counter' = [next_id |-> NextId(w.base) + 1] /\ UNCHANGED <<offsets, latest>>
       ELSE /\ offsets' = Revised(w.base, w.commits)
            /\ latest' = Overlaid(latest, w.commits)
            /\ UNCHANGED counter

Put(c) ==
    /\ job[c] # Idle /\ job[c].phase = "put"
    /\ IF Holds(Write(c))
       THEN /\ Lands(Write(c))
            /\ job' = [Finished(c, "none") EXCEPT ![c].stored = job[c].commits]
            /\ lock' = Unlocked(c)
       ELSE /\ UNCHANGED <<store, history>>
            /\ IF job[c].tries + 1 = MaxAttempts
               THEN job' = Finished(c, "KafkaStorageError") /\ lock' = Unlocked(c)
               ELSE /\ job' = [job EXCEPT ![c].tries = @ + 1, ![c].phase = "load"]
                    /\ UNCHANGED lock
    /\ UNCHANGED <<late, client, bounds>>

LoadCounter(c) ==
    /\ Asking(c, "InitProducerId", "load")
    /\ job' = [job EXCEPT ![c].base = counter, ![c].phase = "put"]
    /\ UNCHANGED store /\ Keep

(***************************************************************************)
(* The coordinator admits the commit of a current member and holds the     *)
(* group's slot until it is stored; GroupCoordinator shows whom it admits. *)
(***************************************************************************)
Fence(c) ==
    LET commits == ValidCommits(job[c].req, job[c].answers) IN
    /\ Asking(c, "OffsetCommit", "fence")
    /\ lock[BrokerOf[c]] = Nobody
    /\ \/ /\ job' = Finished(c, "RebalanceInProgress")
          /\ UNCHANGED lock
       \/ /\ commits = <<>> \/ CommitFault(commits) # "none"
          /\ job' = Finished(c, IF commits = <<>> THEN "none" ELSE CommitFault(commits))
          /\ UNCHANGED lock
       \/ /\ commits # <<>> /\ CommitFault(commits) = "none"
          /\ job' = [job EXCEPT ![c].phase = "load", ![c].commits = commits]
          /\ lock' = [lock EXCEPT ![BrokerOf[c]] = c]
    /\ UNCHANGED <<store, late, client, bounds, history>>

LoadForCommit(c) ==
    /\ Asking(c, "OffsetCommit", "load")
    /\ IF Readable(offsets) /\ UnderLimit(offsets, job[c].commits)
       THEN /\ job' = [job EXCEPT ![c].base = offsets, ![c].phase = "put"]
            /\ UNCHANGED lock
       ELSE /\ job' = Finished(c, IF Readable(offsets) THEN "InvalidRequest"
                                  ELSE "KafkaStorageError")
            /\ lock' = Unlocked(c)
    /\ UNCHANGED <<store, late, client, bounds, history>>

LoadForFetch(c) ==
    /\ Asking(c, "OffsetFetch", "load")
    /\ job' = Finished(c, IF Readable(offsets) THEN "none" ELSE "KafkaStorageError")
    /\ UNCHANGED store /\ Keep

\* Whom the response of a connection reaches; nobody if the client hung up.
Reader(c) == {k \in Clients : client[k].waiting /\ client[k].at = c}

\* A response is written and read.  A consumer looks at the group's error first.
Reply(c) ==
    /\ job[c] # Idle /\ job[c].phase = "reply"
    /\ LET j == job[c] IN
       /\ client' = [k \in Clients |->
              IF k \notin Reader(c) THEN client[k]
              ELSE [client[k] EXCEPT !.waiting = FALSE,
                        !.pos = IF j.fault # "none" THEN @
                                ELSE [key \in DOMAIN @ |->
                                         Position(j.req, j.answers, key, @[key])]]]
       /\ seen' = IF Reader(c) # {} /\ j.req.api = "Fetch"
                  THEN seen \cup Delivered(j.req, j.answers) ELSE seen
       /\ issued' = IF Reader(c) # {} /\ j.req.api = "InitProducerId" /\ j.fault = "none"
                    THEN Append(issued, NextId(j.base)) ELSE issued
    /\ job' = [job EXCEPT ![c] = Idle]
    /\ UNCHANGED <<store, lock, late, bounds, latest>>

\* ----------------------------------------------------- failures and the rest
CanFail == failures > 0 /\ failures' = failures - 1

FailedItem(req) ==
    CASE req.api = "Fetch" -> NoRecords(LogErrorCode["ObjectStore"])
      [] req.api = "ListOffsets" -> [code |-> LogErrorCode["ObjectStore"], offset |-> -1]
      [] req.api = "Produce" -> [code |-> LogErrorCode["ObjectStore"], base |-> -1]
      [] req.api = "Metadata" -> [code |-> LogErrorCode["ObjectStore"], count |-> 0]
      [] OTHER -> [code |-> LogErrorCode["ObjectStore"]]

\* What a failed item has done for all that: created its topic, appended its records.
DoneBefore(req, item) ==
    \/ UNCHANGED store
    \/ /\ req.api = "Produce"
       /\ ProduceFault(req, item) = "none" /\ Unwritable(item.key) = "none"
       /\ Appends(item) \/ Creates(item.key[1], Ensured(item.key[1]))
    \/ /\ req.api = "Metadata"
       /\ MetadataItem(req, item).code = "none"
       /\ Creates(item, MetadataItem(req, item).count)

\* The object store fails an item.
ItemFails(c) ==
    /\ job[c] # Idle /\ job[c].phase = "items"
    /\ CanFail
    /\ job' = [job EXCEPT ![c] = With(c, FailedItem(job[c].req))]
    /\ DoneBefore(job[c].req, At(c))
    /\ UNCHANGED <<lock, late, client, trims, history>>

\* A failed read or write of the counter or of the offsets; the write may arrive.
StoreFails(c) ==
    /\ job[c] # Idle /\ job[c].phase \in {"load", "put"} /\ job[c].req.api # "Metadata"
    /\ CanFail
    /\ job' = Finished(c, "KafkaStorageError")
    /\ lock' = Unlocked(c)
    /\ late' = IF job[c].phase = "put" THEN late \cup {Write(c)} ELSE late
    /\ UNCHANGED <<store, client, trims, history>>

\* If topics cannot be listed there is no response: the connection is closed.
ListingFails(c) ==
    /\ Asking(c, "Metadata", "load")
    /\ CanFail
    /\ job' = [job EXCEPT ![c] = Idle]
    /\ Lose({c})
    /\ UNCHANGED <<store, lock, late, trims, history>>

\* A client gives up waiting.  Its request goes on; nobody reads the response.
HangUp(k) ==
    /\ client[k].waiting
    /\ CanFail
    /\ \E d \in Dials[k] \ {client[k].at}, fresh \in BOOLEAN :
           client' = [client EXCEPT ![k] = Redialled(k, d, fresh)]
    /\ UNCHANGED <<store, job, lock, late, trims, history>>

(***************************************************************************)
(* A broker is shut down and started again: every handler ends at the      *)
(* await it is at.  The group's slot is free, writes may still arrive.     *)
(***************************************************************************)
Shutdown(b) ==
    LET conns == {c \in Conns : BrokerOf[c] = b /\ job[c] # Idle} IN
    /\ conns # {}
    /\ CanFail
    /\ job' = [c \in Conns |-> IF c \in conns THEN Idle ELSE job[c]]
    /\ lock' = [lock EXCEPT ![b] = Nobody]
    /\ late' = late \cup {Write(c) : c \in {d \in conns : job[d].phase = "put"}}
    /\ Lose(conns)
    /\ UNCHANGED <<store, trims, history>>

LateWrite ==
    \E w \in late :
        /\ late' = late \ {w}
        /\ IF Holds(w) THEN Lands(w) ELSE UNCHANGED <<store, history>>
        /\ UNCHANGED <<job, lock, client, bounds>>

\* Retention moves the start of a log to the end of a batch.
Trim(k) ==
    /\ trims > 0 /\ trims' = trims - 1
    /\ \E i \in DOMAIN logs[k].batches :
           /\ Beyond(logs[k].batches[i]) > logs[k].start
           /\ logs' = [logs EXCEPT ![k].start = Beyond(logs[k].batches[i])]
    /\ UNCHANGED <<topics, offsets, counter, job, lock, late, client, failures, history>>

Handle(c) ==
    \/ ServeFetch(c) \/ ServeListOffsets(c) \/ CheckTopic(c)
    \/ ServeProduce(c) \/ ServeMetadata(c) \/ ListTopics(c)
    \/ LoadCounter(c) \/ Fence(c) \/ LoadForCommit(c) \/ LoadForFetch(c)
    \/ Put(c) \/ Reply(c)

Next ==
    \/ \E c \in Conns : Handle(c) \/ ItemFails(c) \/ StoreFails(c) \/ ListingFails(c)
    \/ \E k \in Clients : Send(k) \/ HangUp(k)
    \/ \E b \in Brokers : Shutdown(b)
    \/ \E k \in Keys : Trim(k)
    \/ LateWrite

(***************************************************************************)
(* Tasks of a running broker are scheduled and the store answers; clients  *)
(* go on.  Nothing is assumed of failures, late writes and retention.      *)
(***************************************************************************)
Fairness ==
    /\ \A c \in Conns : WF_vars(Handle(c))
    /\ \A k \in Clients : WF_vars(Send(k))

Spec == Init /\ [][Next]_vars /\ Fairness

\* -------------------------------------------------------------- properties
(***************************************************************************)
(* Types, and the bookkeeping of the slot: a connection that holds it is   *)
(* on that broker and between the admission and the end of its commit.     *)
(***************************************************************************)
TypeOK ==
    /\ topics \in [Topics -> 0 .. MaxTopicPartitions]
    /\ \A k \in Keys : logs[k].start \in 0 .. End(logs[k])
    /\ \A c \in Conns : job[c] # Idle =>
           /\ job[c].phase \in {"items", "fence", "load", "put", "reply"}
           /\ job[c].tries \in 0 .. MaxAttempts /\ job[c].left \in 0 .. MaxPayload
    /\ \A k \in Clients :
           client[k].at \in Dials[k] /\ (client[k].waiting => job[client[k].at] # Idle)
    /\ \A b \in Brokers : lock[b] # Nobody =>
           /\ BrokerOf[lock[b]] = b
           /\ Asking(lock[b], "OffsetCommit", "load") \/ Asking(lock[b], "OffsetCommit", "put")

(***************************************************************************)
(* No two InitProducerId responses carry one ID, although requests are     *)
(* repeated, answers lost and writes late: idempotence rests on it.        *)
(***************************************************************************)
IdsUnique == \A i, j \in DOMAIN issued : i # j => issued[i] # issued[j]

(***************************************************************************)
(* The manifest is what all commits that were stored make of it, in the    *)
(* order they were stored: concurrent commits of different partitions      *)
(* through several brokers, retries and late writes lose no offset.        *)
(***************************************************************************)
NoLostCommit == Loaded(offsets).offsets = latest

(***************************************************************************)
(* A group never gets a manifest that its own readers refuse, at whatever  *)
(* limit its commits arrive.                                               *)
(***************************************************************************)
ManifestReadable == Readable(offsets)

(***************************************************************************)
(* A partition is told its commit succeeded only if that very offset was   *)
(* stored by this request, whatever happened to the other partitions, to   *)
(* the group or to the topic while the request ran.                        *)
(***************************************************************************)
CommitAnswersTrue ==
    \A c \in Conns : Asking(c, "OffsetCommit", "reply") =>
        \A i \in DOMAIN job[c].req.items :
            job[c].answers[i].code = "none" =>
                \E n \in DOMAIN job[c].stored : job[c].stored[n] = job[c].req.items[i]

(***************************************************************************)
(* A fetch response stays within the client's and the broker's limits,     *)
(* envelope included, or carries a single batch.                           *)
(***************************************************************************)
FetchWithinBudget ==
    \A c \in Conns : Asking(c, "Fetch", "reply") =>
        LET answers == job[c].answers
            bytes == Total([i \in DOMAIN answers |-> answers[i].bytes])
            batches == Total([i \in DOMAIN answers |-> answers[i].batches]) IN
        bytes <= FetchBudget(job[c].req) \/ batches = 1

(***************************************************************************)
(* A fetch response without records means there was nothing to read: each  *)
(* partition that was answered was at its end.                             *)
(***************************************************************************)
FetchServes ==
    \A c \in Conns : Asking(c, "Fetch", "reply") =>
        LET answers == job[c].answers
            read == {i \in DOMAIN answers : answers[i].code = "none"} IN
        (\A i \in read : answers[i].batches = 0)
            => \A i \in read : job[c].req.items[i].from = answers[i].high

(***************************************************************************)
(* At least once: a committed offset is never past a record that was not   *)
(* delivered to some consumer of the group and is still retained, although *)
(* consumers are replaced, requests abandoned and the log trimmed.         *)
(***************************************************************************)
CommittedWasDelivered ==
    \A k \in DOMAIN Loaded(offsets).offsets :
        \A o \in logs[k].start .. Committed(offsets, k) - 1 : <<k, o>> \in seen

(***************************************************************************)
(* Consumers that go on fetching reach the end of every partition, however *)
(* small their limits and however large a batch, and whatever is trimmed.  *)
(***************************************************************************)
ConsumersCatchUp ==
    <>[](\A k \in Clients : \A key \in DOMAIN client[k].pos :
            client[k].pos[key] = End(logs[key]))
=============================================================================
