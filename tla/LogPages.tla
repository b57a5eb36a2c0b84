------------------------------ MODULE LogPages -----------------------------
(***************************************************************************)
(* A partition's root with its two page trees in full, over a long run of  *)
(* appends and passes: what prepare_append and maintain_attempts           *)
(* write into the pages.  PartitionLog interleaves those operations; here  *)
(* each one is a single step, because its pages are its own until the root *)
(* is published and PartitionLog shows that a published root is built from *)
(* the one it replaces.                                                    *)
(*                                                                         *)
(* Clients send the batches of a workload in its order.  Brokers stamp     *)
(* them with clocks that need not agree.                                   *)
(***************************************************************************)
EXTENDS OffsetIndex, ProducerDirectory, FiniteSets

CONSTANTS
    Workloads,      \* sequences of batches [pid, count, bytes, at]
    Inherited,      \* <<schema, n>>: a root an older version left behind
    MaxRequest,     \* bound: batches of one append
    MaxPasses,      \* bound: maintenance passes
    Ages, Limits,   \* --max-age-ms and --max-bytes, or NoLimit
    NoLimit,
    Clocks,         \* readings of a broker's clock
    MaxMillis,      \* the largest u64
    MaxObjects,     \* values of --max-objects
    Budgets         \* byte budgets of a fetch

VARIABLES
    load,       \* the workload
    root,       \* the manifest with the pages it reaches
    log,        \* every segment ever committed
    latest,     \* per producer ID the state of its last batch
    passes,
    reply       \* outcome of the last operation

vars == <<load, root, log, latest, passes, reply>>

Ids == {load[i].pid : i \in DOMAIN load}

\* Batches first .. last of the workload as segments from the given offset on.
SegmentsOf(first, last, start, at) ==
    [i \in 1 .. last - first + 1 |->
        [base  |-> FoldLeft(LAMBDA n, b : n + b.count, start, SubSeq(load, first, first + i - 2)),
         count |-> load[first + i - 1].count, bytes |-> load[first + i - 1].bytes, at |-> at]]

\* A root that an older version left behind: nothing in it has a receipt time.
Legacy(schema, n) ==
    LET segs == SegmentsOf(1, n, 0, Untimed)
        new  == IF schema = 1
                THEN [DefaultRoot(NoDirectory) EXCEPT !.tail = segs]
                ELSE FoldLeft(PushSegment, DefaultRoot(NoDirectory), segs)
    IN  [new EXCEPT !.schema = schema, !.rev = n, !.next = SegmentsEnd(segs, 0),
                    !.adopted = Untimed]

Init ==
    /\ load \in Workloads
    /\ root \in {DefaultRoot(NoDirectory)} \cup {Legacy(p[1], p[2]) : p \in Inherited}
    /\ log = Segments(root)
    /\ latest = [id \in Ids |-> <<>>]
    /\ passes = 0
    /\ reply = "none"

----------------------------------------------------------------------------
(* Append: the new batches of a request, decided as in PartitionLog.  The  *)
(* request reads the clock once.  Pages that their writer or the next      *)
(* reader would refuse are not a branch here: PagesReadable says that none *)
(* is ever written.                                                        *)

\* append_root before it seals: the root in today's format.
Adopted(r, now) ==
    CASE r.schema = 1 -> Migrate(r, now)
      [] r.schema \in 2 .. 3 ->
             [r EXCEPT !.schema = 4, !.adopted = IF @ = Untimed THEN now ELSE @]
      [] OTHER -> r

\* The batches of a request of n batches, received when the first one was.
NewSegments(n) ==
    SegmentsOf(Len(log) + 1, Len(log) + n, root.next, load[Len(log) + 1].at)

\* The root with the first n of them in its tail and tree.
Grown(n) == FoldLeft(PushSegment, Adopted(root, load[Len(log) + 1].at), NewSegments(n))

\* The states prepare_append writes back, in the order of their IDs.
NewStates(n) ==
    LET range   == Len(log) + 1 .. Len(log) + n
        ids     == SetToSortSeq({load[i].pid : i \in range}, <)
        last(id) == CHOOSE i \in range :
                        load[i].pid = id /\ \A j \in range : load[j].pid = id => j <= i
    IN  [k \in DOMAIN ids |->
            [id |-> ids[k], end |-> LastOffset(NewSegments(n)[last(ids[k]) - Len(log)]) + 1]]

AppendedRoot(n) ==
    [Grown(n) EXCEPT !.rev = @ + n, !.next = SegmentsEnd(NewSegments(n), 0),
                     !.dir = FoldLeft(UpdateProducer, @, NewStates(n))]

AppendBatches(n) ==
    /\ Len(log) + n <= Len(load)
    /\ \/ /\ \E i \in 0 .. n - 1 : Exhausted(Grown(i))
          /\ reply' = "OffsetOverflow"
          /\ UNCHANGED <<root, log, latest>>
       \/ /\ \A i \in 0 .. n - 1 : ~Exhausted(Grown(i))
          /\ root' = AppendedRoot(n)
          /\ log' = log \o NewSegments(n)
          /\ latest' = [id \in Ids |->
                 LET new == SelectSeq(NewStates(n), LAMBDA s : s.id = id)
                 IN  IF new = <<>> THEN latest[id] ELSE new]
          /\ reply' = "appended"
    /\ UNCHANGED <<load, passes>>

----------------------------------------------------------------------------
(* Maintenance with --apply.                                               *)

\* The objects of the live graph: trace_manifest compares each with the budget.
LiveObjects(r) == Len(Segments(r)) + PageObjects(r.tree) + DirectoryObjects(r.dir)

Bytes(segs) ==
    LET sum[i \in 0 .. Len(segs)] == IF i = 0 THEN 0 ELSE sum[i - 1] + segs[i].bytes
    IN  sum[Len(segs)]

\* A receipt time that would leave the range of u64 never expires.
AgeExpired(s, adoption, age, now) ==
    LET received == IF s.at = Untimed THEN adoption ELSE s.at
    IN  age # NoLimit /\ received + age <= MaxMillis /\ received + age <= now

SizeExpired(retained, limit) == limit # NoLimit /\ retained > limit

\* Mutant: the scan goes on behind a batch that stays.
ExpiredAnywhere(segs, adoption, age, limit, now) ==
    Cardinality({i \in DOMAIN segs :
        \/ AgeExpired(segs[i], adoption, age, now)
        \/ SizeExpired(Bytes(SubSeq(segs, i, Len(segs))), limit)})

(***************************************************************************)
(* How many of the oldest batches go: the scan stops at the first one that *)
(* is neither too old nor in front of too many bytes.                      *)
(***************************************************************************)
Expired(segs, adoption, age, limit, now) ==
    LET total == Bytes(segs)
        scan[i \in 1 .. Len(segs) + 1] ==
            IF /\ i <= Len(segs)
               /\ \/ AgeExpired(segs[i], adoption, age, now)
                  \/ SizeExpired(total - Bytes(SubSeq(segs, 1, i - 1)), limit)
            THEN scan[i + 1] ELSE i - 1
    IN  scan[1]

Adoption(now) == IF root.adopted = Untimed THEN now ELSE root.adopted

Start(segs, k) == IF k = Len(segs) THEN root.next ELSE segs[k + 1].base

RetainedRoot(k, now) ==
    LET segs == Segments(root)
        kept == IF k = 0 /\ root.schema # 1 THEN root
                ELSE Rebuild(SubSeq(segs, k + 1, Len(segs)), Start(segs, k), root.next, root.dir)
    IN  [kept EXCEPT !.schema = 4, !.adopted = Adoption(now), !.rev = root.rev + 1]

Maintain(age, limit, now, maximum) ==
    LET segs == Segments(root)
        k    == Expired(segs, Adoption(now), age, limit, now)
        over == \/ LiveObjects(root) > maximum
                \/ /\ k # 0 \/ root.schema = 1
                   /\ RebuildCount(Len(segs) - k) > maximum
    IN  /\ passes < MaxPasses
        /\ passes' = passes + 1
        /\ \/ /\ over
              /\ reply' = "MaintenanceBudget"
              /\ UNCHANGED root
           \/ /\ ~over
              /\ root' = RetainedRoot(k, now)
              /\ reply' = IF LiveObjects(root') > maximum
                          THEN "MaintenanceIncomplete" ELSE "maintained"
        /\ UNCHANGED <<load, log, latest>>

Next ==
    \/ \E n \in 1 .. MaxRequest : AppendBatches(n)
    \/ \E age \in Ages, limit \in Limits, now \in Clocks, maximum \in MaxObjects :
           Maintain(age, limit, now, maximum)

Spec == Init /\ [][Next]_vars

----------------------------------------------------------------------------
(* Properties.                                                             *)

(***************************************************************************)
(* The pages hold the log: the tree and the tail together are the segments *)
(* from the start offset to the end, in order, none twice, however often   *)
(* tails were sealed into trees that retention had rebuilt                 *)
(* (insert_leaf, seal_tail, rebuild_index, migrate_manifest).              *)
(***************************************************************************)
TreeHoldsLog ==
    LET segs == Segments(root)
    IN  /\ segs = SubSeq(log, Len(log) - Len(segs) + 1, Len(log))
        /\ root.start = IF segs = <<>> THEN root.next ELSE segs[1].base
        /\ root.next = SegmentsEnd(log, 0)

(***************************************************************************)
(* No operation leaves a root or a page that read_page, read_producer_page *)
(* or the root's validation would refuse: full leaves, full inner children,*)
(* equal levels, matching ranges, no empty tail beside a tree.  A refusal  *)
(* would end the partition's service for good.                             *)
(***************************************************************************)
PagesReadable ==
    /\ ValidRoot(root)
    /\ root.tree # NoTree => Readable(root.tree)
    /\ root.dir # NoDirectory => ReadableDirectory(root.dir, root.next)

\* The run of segments a fetch should get, said without pages or a scan.
Wanted(segs, offset, maximum, oversized) ==
    LET rest == SelectSeq(segs, LAMBDA s : LastOffset(s) >= offset)
        fits == {k \in 0 .. Len(rest) : Bytes(SubSeq(rest, 1, k)) <= maximum}
        most == CHOOSE k \in fits : \A j \in fits : j <= k
    IN  SubSeq(rest, 1, IF most = 0 /\ oversized THEN 1 ELSE most)

(***************************************************************************)
(* A bounded fetch (indexed_segments and Selection::push) of any retained  *)
(* offset returns exactly the longest run of batches from the one that     *)
(* holds the offset that fits the budget, or one oversized batch if that   *)
(* is allowed: skipping pages by their ranges loses and adds nothing.      *)
(***************************************************************************)
SelectionExact ==
    \A offset \in root.start .. root.next - 1, maximum \in Budgets, oversized \in BOOLEAN :
        LET sel == Select(root, offset, maximum, oversized)
        IN  /\ sel.segs = Wanted(Segments(root), offset, maximum, oversized)
            /\ sel.oversized = (Bytes(sel.segs) > maximum)

(***************************************************************************)
(* The directory finds the last state of every producer, and none for an   *)
(* ID that never wrote, however the pages were split and whatever retention*)
(* removed (update_producer, producer_state).                              *)
(***************************************************************************)
LookupExact ==
    \A id \in Ids \cup {-1} :
        Lookup(root.dir, id) = IF id \in Ids THEN latest[id] ELSE <<>>

(***************************************************************************)
(* Retention for every option and clock reading: the oldest batch that is  *)
(* kept has not expired, what is kept fits the size limit, and the newest  *)
(* one that goes was over a limit (maintain_attempts).  So a batch with a  *)
(* later clock in front keeps older ones behind it.                        *)
(***************************************************************************)
RetentionExact ==
    \A age \in Ages, limit \in Limits, now \in Clocks :
        LET segs == Segments(root)
            a    == Adoption(now)
            k    == Expired(segs, a, age, limit, now)
            kept == SubSeq(segs, k + 1, Len(segs))
        IN  /\ kept # <<>> => ~AgeExpired(kept[1], a, age, now)
            /\ limit # NoLimit => Bytes(kept) <= limit
            /\ k > 0 => \/ AgeExpired(segs[k], a, age, now)
                        \/ limit # NoLimit /\ Bytes(<<segs[k]>> \o kept) > limit

(***************************************************************************)
(* Maintenance that publishes a root never runs out of objects when it     *)
(* traces that root again: the budget it checked before, on the old graph  *)
(* and in rebuild_index, covers every page it wrote.                       *)
(***************************************************************************)
BudgetForeseen == reply # "MaintenanceIncomplete"
============================================================================
