---------------------------- MODULE AbstractLog ----------------------------
(***************************************************************************)
(* What the durable log promises its clients: one sequence of batches that *)
(* only grows at the end, a retained range that only shrinks at the front, *)
(* and replies that are true of the sequence for ever.                     *)
(***************************************************************************)
EXTENDS Integers, Sequences

CONSTANTS
    NoProducer,   \* producer ID of batches without idempotence
    Requests,     \* the requests clients send
    SeqModulus    \* sequence numbers wrap here

VARIABLES
    log,      \* committed batches with their base offsets, in offset order
    start,    \* first retained offset
    acks      \* successful replies to append requests

absVars == <<log, start, acks>>

Next(entries) ==
    IF entries = <<>> THEN 0
    ELSE entries[Len(entries)].base + entries[Len(entries)].batch.count

\* Offsets are dense: every batch starts where the previous one ends.
Dense(entries) ==
    \A i \in DOMAIN entries :
        entries[i].base = IF i = 1 THEN 0
                          ELSE entries[i - 1].base + entries[i - 1].batch.count

\* The place of the previous batch of the same producer; 0 if there is none.
Before(entries, i) ==
    LET earlier == {j \in 1 .. i - 1 : entries[j].batch.pid = entries[i].batch.pid}
    IN  IF earlier = {} THEN 0
        ELSE CHOOSE j \in earlier : \A k \in earlier : k <= j

(***************************************************************************)
(* A producer's batches appear once each, in sequence and without a gap,   *)
(* epoch after epoch; each epoch starts with sequence zero.                *)
(***************************************************************************)
InSequence(entries) ==
    \A i \in DOMAIN entries :
        LET b == entries[i].batch
            p == Before(entries, i) IN
        b.pid # NoProducer =>
            IF p = 0 \/ entries[p].batch.epoch < b.epoch THEN b.seq = 0
            ELSE /\ entries[p].batch.epoch = b.epoch
                 /\ b.seq = (entries[p].batch.seq + entries[p].batch.count) % SeqModulus

\* The reply names the offsets of the first and of the last batch.
Held(entries, k) ==
    /\ \E i \in DOMAIN entries :
           entries[i].batch = k.req[1] /\ entries[i].base = k.base
    /\ \E i \in DOMAIN entries :
           LET b == k.req[Len(k.req)] IN
           entries[i].batch = b /\ entries[i].base + b.count - 1 = k.last

AbsInit ==
    /\ Dense(log) /\ InSequence(log)
    /\ start = 0
    /\ acks = {}

\* Every new reply is true of the log.
Answers == acks \subseteq acks' /\ \A k \in acks' \ acks : Held(log', k)

(***************************************************************************)
(* A request is committed as a whole: what is added comes from it, and     *)
(* afterwards each of its batches is in the log.                           *)
(***************************************************************************)
Commit ==
    /\ Len(log') > Len(log)
    /\ SubSeq(log', 1, Len(log)) = log
    /\ Dense(log') /\ InSequence(log')
    /\ \E r \in Requests :
           /\ \A i \in Len(log) + 1 .. Len(log') : \E j \in DOMAIN r : log'[i].batch = r[j]
           /\ \A j \in DOMAIN r : \E i \in DOMAIN log' : log'[i].batch = r[j]
    /\ start' = start
    /\ Answers

\* A reply without a commit: a retry of what is already there.
Answer ==
    /\ log' = log /\ start' = start
    /\ acks' # acks
    /\ Answers

\* Retention moves the start to a batch boundary, possibly to the very end.
Trim ==
    /\ log' = log /\ acks' = acks
    /\ start' > start
    /\ \/ start' = Next(log)
       \/ \E i \in DOMAIN log : start' = log[i].base

AbsNext == Commit \/ Answer \/ Trim

AbsSpec == AbsInit /\ [][AbsNext]_absVars
============================================================================
