--------------------------- MODULE PartitionLog ----------------------------
(***************************************************************************)
(* One partition of the durable log (src/log.rs, src/log/index.rs,         *)
(* src/log/producer.rs, src/log/maintenance.rs): brokers that append,      *)
(* brokers that fetch and operators that run maintenance, all on one       *)
(* object store and with no other coordination than a conditional write    *)
(* of the partition's manifest (the root).                                 *)
(*                                                                         *)
(* The store keeps immutable objects under fresh UUID names (record        *)
(* segments, offset-index pages, producer-directory pages) and the root,   *)
(* whose version is its content (an ETag): a conditional write succeeds    *)
(* iff the root still equals the one the writer loaded.  The root with     *)
(* revision 0 stands for a manifest that does not exist yet.               *)
(*                                                                         *)
(* What is abstracted: the shape of the two page trees is reduced to the   *)
(* set of page objects a root reaches, the descriptors they hold to the    *)
(* ordered sequence segs, and the producer states they hold to a function. *)
(* A path read touches some of those pages, a path rewrite replaces some   *)
(* of them: which ones is a nondeterministic choice.  Retention expires    *)
(* any prefix of the batches.                                              *)
(*                                                                         *)
(* Reads that succeed one by one are modelled as one step.  That is sound  *)
(* because object names are never reused: an object present when it is     *)
(* read was present at every earlier moment since its creation, so all the *)
(* reads could have been made right after the root was loaded.  A read     *)
(* that finds its object missing is a step of its own (MissingRead).       *)
(***************************************************************************)
EXTENDS ProducerState, FiniteSets

CONSTANTS
    Appenders, Maintainers, Fetchers,   \* operations that may run concurrently
    Producers,        \* producer IDs of idempotent clients
    NoProducer,       \* producer ID of a plain batch (-1 in the code)
    Contents,         \* fingerprints of record content
    Requests,         \* produce requests clients send: sequences of batches
    InitialRoots,     \* a missing root, and legacy (schema 1) roots
    PageEntries,      \* descriptors in a full tail or leaf (64 in the code)
    MaxPathPages,     \* bound: pages one path rewrite writes (MAX_LEVEL + 2)
    MaxAttempts,      \* bound: attempts of one operation (MAX_CAS_ATTEMPTS)
    MaxObjects,       \* the --max-objects budget of maintenance
    MaxOmissions,     \* bound: objects one listing may miss
    MaxCalls,         \* bound: operations of each actor
    MaxFailures       \* bound: crashes and transport errors

Actors == Appenders \cup Maintainers \cup Fetchers

ObjectIds == [kind: {"seg", "idx", "dir"}, by: Actors \cup {"legacy"}, n: Nat]

Descriptors ==
    [obj: ObjectIds, base: Nat,
     batch: Batches(Producers \cup {NoProducer}, Contents)]

Roots ==
    [rev: Nat, start: Nat, next: Nat, legacy: BOOLEAN, segs: Seq(Descriptors),
     tail: Nat, pages: SUBSET ObjectIds, dir: SUBSET ObjectIds,
     producers: [Producers -> States(Contents)]]

EmptyRoot ==
    [rev |-> 0, start |-> 0, next |-> 0, legacy |-> FALSE, segs |-> <<>>,
     tail |-> 0, pages |-> {}, dir |-> {},
     producers |-> [p \in Producers |-> NewState(0)]]

ASSUME ActorsAssumption ==
    /\ Appenders \cap Maintainers = {}
    /\ Appenders \cap Fetchers = {}
    /\ Maintainers \cap Fetchers = {}
    /\ "legacy" \notin Actors
    /\ NoProducer \notin Producers

ASSUME RequestsAssumption ==
    Requests \subseteq Seq(Batches(Producers \cup {NoProducer}, Contents)) \ {<<>>}

ASSUME BoundsAssumption ==
    /\ PageEntries \in Nat \ {0}
    /\ MaxPathPages \in Nat \ {0}
    /\ {MaxAttempts, MaxObjects, MaxOmissions, MaxFailures} \subseteq Nat
    /\ MaxCalls \in [Actors -> Nat]

End(d) == d.base + d.batch.count

(***************************************************************************)
(* A schema 1 manifest (Manifest::validate): offsets are dense from zero,  *)
(* the revision counts the segments, and neither pages nor producers were  *)
(* kept yet.  Indexed, all its segments are in the tail.                   *)
(***************************************************************************)
LegacyManifest(r) ==
    LET s == r.segs IN
    /\ r = [EmptyRoot EXCEPT !.rev = Len(s), !.legacy = TRUE, !.segs = s, !.tail = Len(s),
                             !.next = IF s = <<>> THEN 0 ELSE End(s[Len(s)])]
    /\ \A i \in DOMAIN s :
           /\ s[i].obj.by = "legacy" /\ s[i].batch.pid = NoProducer
           /\ s[i].base = IF i = 1 THEN 0 ELSE End(s[i - 1])

ASSUME RootsAssumption ==
    /\ InitialRoots \subseteq Roots
    /\ \A r \in InitialRoots : r = EmptyRoot \/ LegacyManifest(r)

VARIABLES
    objects,    \* names of the objects in the store
    root,       \* the manifest
    latePuts, lateDels, lateCas,
                \* requests whose caller saw an error or died, still to arrive
    pc,         \* the phase of each operation
    loaded,     \* the root an operation works from
    draft,      \* the root it means to publish
    todo,       \* objects it has yet to create
    made,       \* how many UUIDs it has drawn so far
    tries,      \* attempts of the current call
    work,       \* append: the request and the decisions on its batches
    cand,       \* maintenance: objects that may be removed
    mode,       \* maintenance: listing position, --apply, a published root
    want,       \* fetch: the offset and the selected descriptors
    calls, failures,
    reply,      \* outcome of the last call
    got,        \* the result of the last successful fetch
    history,    \* every batch ever committed, in commit order
    acked       \* every successful append reply

store == <<objects, root, history>>
late == <<latePuts, lateDels, lateCas>>
op == <<loaded, draft, todo, work, cand, mode, want>>
vars == <<store, late, op, pc, made, tries, calls, failures, reply, got, acked>>

----------------------------------------------------------------------------
(* Roots and what they reach.                                              *)

SegObjects(segs) == {segs[i].obj : i \in DOMAIN segs}

Reach(r) == SegObjects(r.segs) \cup r.pages \cup r.dir

NoWork == [req |-> <<>>, results |-> <<>>, adds |-> <<>>, next |-> 0,
           states |-> [p \in Producers |-> NewState(0)]]

NoMode == [ns |-> 1, apply |-> FALSE, published |-> FALSE]

NoWant == [offset |-> 0, segs |-> <<>>]

Init ==
    /\ root \in InitialRoots
    /\ objects = SegObjects(root.segs)
    /\ history = root.segs
    /\ latePuts = {} /\ lateDels = {} /\ lateCas = {}
    /\ pc = [x \in Actors |-> "idle"]
    /\ loaded = [x \in Actors |-> EmptyRoot]
    /\ draft = [x \in Actors |-> EmptyRoot]
    /\ todo = [x \in Actors |-> {}]
    /\ made = [x \in Actors |-> 0]
    /\ tries = [x \in Actors |-> 0]
    /\ work = [x \in Actors |-> NoWork]
    /\ cand = [x \in Actors |-> {}]
    /\ mode = [x \in Actors |-> NoMode]
    /\ want = [x \in Actors |-> NoWant]
    /\ calls = [x \in Actors |-> 0]
    /\ failures = 0
    /\ reply = [x \in Actors |-> "none"]
    /\ got = [x \in Actors |-> NoWant]
    /\ acked = {}

----------------------------------------------------------------------------
(* The end of a call or of an attempt.  Local state of a finished          *)
(* operation is forgotten: it is on the stack in the code.                 *)

Return(x, outcome) ==
    /\ pc' = [pc EXCEPT ![x] = "idle"]
    /\ reply' = [reply EXCEPT ![x] = outcome]
    /\ tries' = [tries EXCEPT ![x] = 0]
    /\ loaded' = [loaded EXCEPT ![x] = EmptyRoot]
    /\ draft' = [draft EXCEPT ![x] = EmptyRoot]
    /\ todo' = [todo EXCEPT ![x] = {}]
    /\ work' = [work EXCEPT ![x] = NoWork]
    /\ cand' = [cand EXCEPT ![x] = {}]
    /\ mode' = [mode EXCEPT ![x] = NoMode]
    /\ want' = [want EXCEPT ![x] = NoWant]

\* An error of maintenance after a publication is reported as incomplete.
Outcome(x, error) == IF mode[x].published THEN "MaintenanceIncomplete" ELSE error

\* Mutant: the lost attempt is repeated with the objects and root it has.
AgainSameRoot(x) ==
    /\ UNCHANGED <<op, pc, reply, tries>>

(***************************************************************************)
(* `continue`: the next attempt starts from nothing but the request; the   *)
(* objects of the lost attempt are abandoned.                              *)
(***************************************************************************)
Again(x) ==
    \/ /\ tries[x] >= MaxAttempts
       /\ Return(x, Outcome(x, "ContentionExhausted"))
    \/ /\ tries[x] < MaxAttempts
       /\ pc' = [pc EXCEPT ![x] = IF x \in Maintainers THEN "list" ELSE "load"]
       /\ tries' = [tries EXCEPT ![x] = @ + 1]
       /\ loaded' = [loaded EXCEPT ![x] = EmptyRoot]
       /\ draft' = [draft EXCEPT ![x] = EmptyRoot]
       /\ todo' = [todo EXCEPT ![x] = {}]
       /\ work' = [work EXCEPT ![x] = [NoWork EXCEPT !.req = work[x].req]]
       /\ cand' = [cand EXCEPT ![x] = {}]
       /\ mode' = [mode EXCEPT ![x].ns = 1]
       /\ want' = [want EXCEPT ![x].segs = <<>>]
       /\ UNCHANGED reply

Start(x, phase) ==
    /\ pc[x] = "idle"
    /\ calls[x] < MaxCalls[x]
    /\ calls' = [calls EXCEPT ![x] = @ + 1]
    /\ pc' = [pc EXCEPT ![x] = phase]
    /\ tries' = [tries EXCEPT ![x] = 1]
    /\ UNCHANGED <<store, late, loaded, draft, todo, made, cand, failures,
                   reply, got, acked>>

\* load_manifest: GET the root together with its version.
Load(x, phase) ==
    /\ pc[x] = "load"
    /\ loaded' = [loaded EXCEPT ![x] = root]
    /\ pc' = [pc EXCEPT ![x] = phase]
    /\ UNCHANGED <<store, late, draft, todo, made, tries, cand, mode, calls,
                   failures, reply, got, acked>>

----------------------------------------------------------------------------
(* The store.                                                              *)

\* Mutant: the manifest is overwritten whatever its version.
HoldsBlind(expect) == TRUE

\* The precondition of the conditional write: PutMode::Create or Update.
Holds(expect) == root = expect

(***************************************************************************)
(* A conditional write that takes effect.  History gains the batches the   *)
(* new root has beyond the old one (none when maintenance publishes).      *)
(***************************************************************************)
Publish(expect, new) ==
    /\ root' = new
    /\ history' = history \o SubSeq(new.segs, Len(expect.segs) + 1, Len(new.segs))

\* PutMode::Create of an object under a fresh UUID.
PutObject(x) ==
    /\ pc[x] = "write"
    /\ \E o \in todo[x] :
           /\ objects' = objects \cup {o}
           /\ todo' = [todo EXCEPT ![x] = @ \ {o}]
    /\ UNCHANGED <<root, history, late, pc, loaded, draft, made, tries, work,
                   cand, mode, want, calls, failures, reply, got, acked>>

\* The conditional write of the root finds another version.
LoseRace(x) ==
    /\ pc[x] = "write" /\ todo[x] = {}
    /\ ~Holds(loaded[x])
    /\ Again(x)
    /\ UNCHANGED <<store, late, made, calls, failures, got, acked>>

(***************************************************************************)
(* A GET or HEAD of an object the loaded root reaches returns NotFound.    *)
(* An append reads pages of both trees, its own new pages included, until  *)
(* its last object is written; a fetch reads pages and the selected        *)
(* segments, maintenance everything.                                       *)
(***************************************************************************)
Reads(x) ==
    CASE pc[x] = "decide" -> loaded[x].dir
      [] pc[x] = "write" /\ x \in Appenders /\ todo[x] # {} ->
             loaded[x].pages \cup loaded[x].dir \cup (Reach(draft[x]) \ todo[x])
      [] pc[x] = "read" -> loaded[x].pages \cup SegObjects(want[x].segs)
      [] pc[x] \in {"trace", "retrace"} -> Reach(loaded[x])
      [] OTHER -> {}

MissingRead(x) ==
    /\ ~(Reads(x) \subseteq objects)
    /\ pc' = [pc EXCEPT ![x] = "check"]
    /\ UNCHANGED <<store, late, op, made, tries, calls, failures, reply, got, acked>>

\* Mutant: a missing object is an integrity failure without a second look.
StaleMissingNoReload(x) ==
    /\ pc[x] = "check"
    /\ Return(x, "IntegrityFailure")
    /\ UNCHANGED <<store, late, made, calls, failures, got, acked>>

(***************************************************************************)
(* stale_missing: reload the root.  Another version excuses the missing    *)
(* object and the attempt is repeated; the same version is an integrity    *)
(* failure (wrapped in MaintenanceIncomplete after a publication).         *)
(***************************************************************************)
StaleMissing(x) ==
    /\ pc[x] = "check"
    /\ \/ loaded[x] # root /\ Again(x)
       \/ loaded[x] = root /\ Return(x, "IntegrityFailure")
    /\ UNCHANGED <<store, late, made, calls, failures, got, acked>>

\* Maintenance that does not know whether it published reports that, too.
Failure(x) ==
    IF x \in Maintainers /\ pc[x] = "write" /\ todo[x] = {}
    THEN "MaintenanceIncomplete" ELSE Outcome(x, "Unavailable")

(***************************************************************************)
(* A transport error, or the crash of the process: the caller gets no      *)
(* success, and the request it was making may still reach the store later. *)
(***************************************************************************)
Fail(x) ==
    /\ pc[x] # "idle"
    /\ failures < MaxFailures
    /\ failures' = failures + 1
    /\ \/ UNCHANGED late
       \/ /\ pc[x] = "write"
          /\ \E o \in todo[x] : latePuts' = latePuts \cup {o}
          /\ UNCHANGED <<lateDels, lateCas>>
       \/ /\ pc[x] = "write" /\ todo[x] = {}
          /\ lateCas' = lateCas \cup {[expect |-> loaded[x], new |-> draft[x]]}
          /\ UNCHANGED <<latePuts, lateDels>>
       \/ /\ pc[x] = "delete"
          /\ \E o \in cand[x] : lateDels' = lateDels \cup {o}
          /\ UNCHANGED <<latePuts, lateCas>>
    /\ Return(x, Failure(x))
    /\ UNCHANGED <<store, made, calls, got, acked>>

LatePut ==
    /\ \E o \in latePuts :
           /\ objects' = objects \cup {o}
           /\ latePuts' = latePuts \ {o}
    /\ UNCHANGED <<root, history, lateDels, lateCas, op, pc, made, tries, calls,
                   failures, reply, got, acked>>

LateDelete ==
    /\ \E o \in lateDels :
           /\ objects' = objects \ {o}
           /\ lateDels' = lateDels \ {o}
    /\ UNCHANGED <<root, history, latePuts, lateCas, op, pc, made, tries, calls,
                   failures, reply, got, acked>>

LateCas ==
    /\ \E q \in lateCas :
           /\ lateCas' = lateCas \ {q}
           /\ \/ Holds(q.expect) /\ Publish(q.expect, q.new)
              \/ ~Holds(q.expect) /\ UNCHANGED <<root, history>>
    /\ UNCHANGED <<objects, latePuts, lateDels, op, pc, made, tries, calls,
                   failures, reply, got, acked>>

----------------------------------------------------------------------------
(* append_batches.                                                         *)

StartAppend(a) ==
    /\ \E r \in Requests : work' = [work EXCEPT ![a].req = r]
    /\ Start(a, "load")
    /\ UNCHANGED <<mode, want>>

LoadAppend(a) ==
    /\ Load(a, "decide")
    /\ work' = [work EXCEPT ![a].next = root.next, ![a].states = root.producers]
    /\ UNCHANGED want

\* The next batch of the request, judged against the private snapshot.
Current(w) == w.req[Len(w.results) + 1]

\* A plain batch is always new; its producer state is not consulted.
Judge(w) ==
    LET b == Current(w) IN
    IF b.pid = NoProducer THEN "new" ELSE Verdict(w.states[b.pid], b)

Result(base, b) == [base |-> base, last |-> base + b.count - 1]

\* The private states after a new batch.
Learned(states, b, next) ==
    IF b.pid = NoProducer THEN states
    ELSE [states EXCEPT ![b.pid] = Remember(states[b.pid], b, next)]

Addition(w) ==
    LET b == Current(w) IN
    [w EXCEPT !.results = Append(@, Result(w.next, b)),
              !.adds = Append(@, [base |-> w.next, batch |-> b]),
              !.next = @ + b.count,
              !.states = Learned(@, b, w.next)]

Duplicate(w) ==
    LET b == Current(w) IN
    [w EXCEPT !.results = Append(@, Result(Original(w.states[b.pid], b).base, b))]

\* One turn of the decision loop of prepare_append; nothing is written yet.
Decide(a) ==
    /\ pc[a] = "decide"
    /\ Len(work[a].results) < Len(work[a].req)
    /\ \/ /\ Judge(work[a]) = "new"
          /\ work' = [work EXCEPT ![a] = Addition(work[a])]
          /\ UNCHANGED <<pc, loaded, draft, todo, tries, cand, mode, want, reply>>
       \/ /\ Judge(work[a]) = "duplicate"
          /\ work' = [work EXCEPT ![a] = Duplicate(work[a])]
          /\ UNCHANGED <<pc, loaded, draft, todo, tries, cand, mode, want, reply>>
       \/ /\ Judge(work[a]) \notin {"new", "duplicate"}
          /\ Return(a, Judge(work[a]))
    /\ UNCHANGED <<store, late, made, calls, failures, got, acked>>

Decided(a) ==
    /\ pc[a] = "decide"
    /\ Len(work[a].results) = Len(work[a].req)

\* AppendResult: the base of the first batch and the last offset of the last.
Ack(w) == [req |-> w.req, base |-> w.results[1].base,
           last |-> w.results[Len(w.results)].last]

\* A request of recognised duplicates only is answered without any write.
AnswerDuplicates(a) ==
    /\ Decided(a)
    /\ work[a].adds = <<>>
    /\ acked' = acked \cup {Ack(work[a])}
    /\ Return(a, "ok")
    /\ UNCHANGED <<store, late, made, calls, failures, got>>

Fresh(kind, x, from, count) ==
    {[kind |-> kind, by |-> x, n |-> i] : i \in from .. from + count - 1}

NewSegments(x, w) ==
    [i \in 1 .. Len(w.adds) |->
        [obj |-> [kind |-> "seg", by |-> x, n |-> made[x] + i - 1],
         base |-> w.adds[i].base, batch |-> w.adds[i].batch]]

\* The tail is sealed into a leaf whenever it is full and another one comes.
Seals(r, n) == (r.tail + n - 1) \div PageEntries

NewTail(tail, n) == ((tail + n - 1) % PageEntries) + 1

(***************************************************************************)
(* The root prepare_append builds: the new descriptors, one revision each, *)
(* the sealed pages and the producer states, all in one value.             *)
(***************************************************************************)
AppendedRoot(r, w, segs, pages, dir) ==
    [r EXCEPT !.rev = @ + Len(segs), !.next = w.next, !.legacy = FALSE,
              !.segs = @ \o segs, !.tail = NewTail(@, Len(segs)),
              !.pages = pages, !.dir = dir, !.producers = w.states]

\* A rewrite of n paths creates at least one page for each, and keeps some of
\* the old and some of the new pages; without a rewrite nothing changes.
Rewrites(n) == IF n = 0 THEN {0} ELSE n .. n * MaxPathPages

Rewritten(old, new) ==
    IF new = {} THEN {old} ELSE {s \in SUBSET (old \cup new) : s \cap new # {}}

\* One private state, and one path rewrite, per idempotent producer of the
\* request: the places where a producer occurs first.
StateEntries(w) ==
    {i \in DOMAIN w.req : /\ w.req[i].pid # NoProducer
                          /\ \A j \in 1 .. i - 1 : w.req[j].pid # w.req[i].pid}

Prepare(a) ==
    /\ Decided(a)
    /\ work[a].adds # <<>>
    /\ LET w == work[a]
           r == loaded[a]
           n == Len(w.adds)
           segs == NewSegments(a, w) IN
       \E ip \in Rewrites(Seals(r, n)),
          dp \in Rewrites(Cardinality(StateEntries(w))) :
       LET idx == Fresh("idx", a, made[a] + n, ip)
           dir == Fresh("dir", a, made[a] + n + ip, dp) IN
       \E ps \in Rewritten(r.pages, idx), ds \in Rewritten(r.dir, dir) :
           /\ draft' = [draft EXCEPT ![a] = AppendedRoot(r, w, segs, ps, ds)]
           /\ todo' = [todo EXCEPT ![a] = SegObjects(segs) \cup idx \cup dir]
           /\ made' = [made EXCEPT ![a] = @ + n + ip + dp]
    /\ pc' = [pc EXCEPT ![a] = "write"]
    /\ UNCHANGED <<store, late, loaded, tries, work, cand, mode, want, calls,
                   failures, reply, got, acked>>

\* The conditional write succeeds: records and producer states are committed.
CommitAppend(a) ==
    /\ pc[a] = "write" /\ todo[a] = {}
    /\ Holds(loaded[a])
    /\ Publish(loaded[a], draft[a])
    /\ acked' = acked \cup {Ack(work[a])}
    /\ Return(a, "ok")
    /\ UNCHANGED <<objects, late, made, calls, failures, got>>

----------------------------------------------------------------------------
(* fetch_bounded.                                                          *)

StartFetch(f) ==
    /\ \E o \in 0 .. root.next + 1 : want' = [want EXCEPT ![f].offset = o]
    /\ Start(f, "load")
    /\ UNCHANGED <<work, mode>>

\* Places of the descriptors whose last offset reaches the wanted one.
From(segs, offset) == {i \in DOMAIN segs : End(segs[i]) > offset}

\* Mutant: the selection starts after the batch that holds the offset.
FirstSkipped(segs, offset) ==
    {i \in From(segs, offset) : Cardinality(From(segs, offset)) = Len(segs) - i + 2}

\* Where the selection starts: earlier descriptors are skipped.
First(segs, offset) ==
    {i \in From(segs, offset) : \A j \in From(segs, offset) : i <= j}

(***************************************************************************)
(* fetch_snapshot up to the first GET of a segment.  Selection takes a run *)
(* of complete batches; the byte budget decides where it ends, possibly    *)
(* before the first batch.                                                 *)
(***************************************************************************)
LoadFetch(f) ==
    LET offset == want[f].offset IN
    \/ /\ pc[f] = "load"
       /\ offset < root.start \/ offset > root.next
       /\ Return(f, "OffsetOutOfRange")
       /\ UNCHANGED <<store, late, made, calls, failures, got, acked>>
    \/ /\ pc[f] = "load"
       /\ offset = root.next
       /\ got' = [got EXCEPT ![f] = want[f]]
       /\ Return(f, "ok")
       /\ UNCHANGED <<store, late, made, calls, failures, acked>>
    \/ /\ offset >= root.start /\ offset < root.next
       /\ Load(f, "read")
       /\ \E i \in First(root.segs, offset) : \E j \in i - 1 .. Len(root.segs) :
              want' = [want EXCEPT ![f].segs = SubSeq(root.segs, i, j)]
       /\ UNCHANGED work

\* Every selected object was read and its length and checksum match.
FinishFetch(f) ==
    /\ pc[f] = "read"
    /\ SegObjects(want[f].segs) \subseteq objects
    /\ got' = [got EXCEPT ![f] = want[f]]
    /\ Return(f, "ok")
    /\ UNCHANGED <<store, late, made, calls, failures, acked>>

----------------------------------------------------------------------------
(* maintain.                                                               *)

StartMaintain(m) ==
    /\ \E apply \in BOOLEAN : mode' = [mode EXCEPT ![m].apply = apply]
    /\ Start(m, "list")
    /\ UNCHANGED <<work, want>>

Namespaces == <<"seg", "idx", "dir">>

Listed(m) == {o \in objects : o.kind = Namespaces[mode[m].ns]}

(***************************************************************************)
(* inventory: list one namespace after the other.  A listing may miss      *)
(* objects; it is closed before the root is loaded.                        *)
(***************************************************************************)
ListObjects(m) ==
    /\ pc[m] = "list"
    /\ \E s \in SUBSET Listed(m) :
           /\ Cardinality(Listed(m) \ s) <= MaxOmissions
           /\ \/ /\ Cardinality(cand[m] \cup s) > MaxObjects
                 /\ Return(m, Outcome(m, "MaintenanceBudget"))
              \/ /\ Cardinality(cand[m] \cup s) <= MaxObjects
                 /\ cand' = [cand EXCEPT ![m] = @ \cup s]
                 /\ IF mode[m].ns = Len(Namespaces)
                    THEN pc' = [pc EXCEPT ![m] = "load"] /\ UNCHANGED mode
                    ELSE mode' = [mode EXCEPT ![m].ns = @ + 1] /\ UNCHANGED pc
                 /\ UNCHANGED <<loaded, draft, todo, tries, work, want, reply>>
    /\ UNCHANGED <<store, late, made, calls, failures, got, acked>>

LoadMaintain(m) ==
    /\ Load(m, "trace")
    /\ UNCHANGED <<work, want>>

\* Mutant: a rebuild seals every full leaf and may leave no tail.
LeavesAll(n) == n \div PageEntries

\* Full leaves of a rebuilt index: the tail keeps at least one descriptor.
Leaves(n) == IF n = 0 THEN 0 ELSE (n - 1) \div PageEntries

\* The root without its first k batches; its index is `pages`.
Trimmed(r, k, pages) ==
    LET kept == SubSeq(r.segs, k + 1, Len(r.segs)) IN
    [r EXCEPT !.start = IF kept = <<>> THEN r.next ELSE kept[1].base,
              !.legacy = FALSE, !.segs = kept,
              !.tail = IF k = 0 /\ ~r.legacy THEN @
                       ELSE Len(kept) - Leaves(Len(kept)) * PageEntries,
              !.pages = pages]

\* Mutant: a pass without expiry republishes the same bytes.
RetainedRootSameRevision(r, k, pages) ==
    [Trimmed(r, k, pages) EXCEPT !.rev = IF k = 0 /\ ~r.legacy THEN @ ELSE @ + 1]

\* Mutant: an emptied log starts over at offset zero.
RetainedRootRestart(r, k, pages) ==
    [Trimmed(r, k, pages) EXCEPT
        !.rev = @ + 1,
        !.start = IF k = Len(r.segs) THEN 0 ELSE @,
        !.next = IF k = Len(r.segs) THEN 0 ELSE @]

\* Mutant: a rebuilt root starts with an empty producer directory.
RetainedRootNoProducers(r, k, pages) ==
    [Trimmed(r, k, pages) EXCEPT
        !.rev = @ + 1,
        !.producers = IF k = 0 /\ ~r.legacy THEN @
                      ELSE [p \in Producers |-> NewState(0)]]

(***************************************************************************)
(* The root maintenance publishes: the next offset and the producer        *)
(* directory survive, and the revision grows even when nothing expired.    *)
(***************************************************************************)
RetainedRoot(r, k, pages) == [Trimmed(r, k, pages) EXCEPT !.rev = @ + 1]

(***************************************************************************)
(* The traced graph is complete: plan the retained range, then preview it  *)
(* or prepare its publication.  An index is rebuilt from fresh pages when  *)
(* batches expire or the root is a legacy one, and reused otherwise.       *)
(***************************************************************************)
Plan(m) ==
    /\ pc[m] = "trace"
    /\ Reach(loaded[m]) \subseteq objects
    /\ Cardinality(Reach(loaded[m])) <= MaxObjects
    /\ \E k \in 0 .. Len(loaded[m].segs) :
       LET r == loaded[m]
           rebuild == k # 0 \/ r.legacy
           n == Len(r.segs) - k IN
       \E ip \in Rewrites(IF rebuild THEN Leaves(n) ELSE 0) :
       LET idx == Fresh("idx", m, made[m], ip)
           next == RetainedRoot(r, k, IF rebuild THEN idx ELSE r.pages) IN
           \/ /\ ~mode[m].apply
              /\ Return(m, "preview")
              /\ UNCHANGED made
           \/ /\ mode[m].apply /\ rebuild /\ n + ip > MaxObjects
              /\ Return(m, Outcome(m, "MaintenanceBudget"))
              /\ UNCHANGED made
           \/ /\ mode[m].apply /\ (rebuild => n + ip <= MaxObjects)
              /\ draft' = [draft EXCEPT ![m] = next]
              /\ todo' = [todo EXCEPT ![m] = idx]
              /\ made' = [made EXCEPT ![m] = @ + ip]
              /\ cand' = [cand EXCEPT ![m] = @ \ Reach(next)]
              /\ pc' = [pc EXCEPT ![m] = "write"]
              /\ UNCHANGED <<loaded, tries, work, mode, want, reply>>
    /\ UNCHANGED <<store, late, calls, failures, got, acked>>

\* The live graph exceeds the budget: nothing more is published or deleted.
TraceBudget(m) ==
    /\ pc[m] \in {"trace", "retrace"}
    /\ Cardinality(Reach(loaded[m])) > MaxObjects
    /\ Return(m, Outcome(m, "MaintenanceBudget"))
    /\ UNCHANGED <<store, late, made, calls, failures, got, acked>>

\* The conditional write succeeds: from here on deletion may be authorised.
PublishRetention(m) ==
    /\ pc[m] = "write" /\ todo[m] = {}
    /\ Holds(loaded[m])
    /\ Publish(loaded[m], draft[m])
    /\ loaded' = [loaded EXCEPT ![m] = draft[m]]
    /\ draft' = [draft EXCEPT ![m] = EmptyRoot]
    /\ mode' = [mode EXCEPT ![m].published = TRUE]
    /\ pc' = [pc EXCEPT ![m] = "retrace"]
    /\ UNCHANGED <<objects, late, todo, made, tries, work, cand, want, calls,
                   failures, reply, got, acked>>

\* The published graph is complete: what it does not reach may be deleted.
AuthoriseDeletion(m) ==
    /\ pc[m] = "retrace"
    /\ Reach(loaded[m]) \subseteq objects
    /\ Cardinality(Reach(loaded[m])) <= MaxObjects
    /\ cand' = [cand EXCEPT ![m] = @ \ Reach(loaded[m])]
    /\ pc' = [pc EXCEPT ![m] = "delete"]
    /\ UNCHANGED <<store, late, loaded, draft, todo, made, tries, work, mode,
                   want, calls, failures, reply, got, acked>>

\* DELETE of one candidate; one that is already gone counts as collected.
DeleteObject(m) ==
    /\ pc[m] = "delete"
    /\ \E o \in cand[m] :
           /\ objects' = objects \ {o}
           /\ cand' = [cand EXCEPT ![m] = @ \ {o}]
    /\ UNCHANGED <<root, history, late, pc, loaded, draft, todo, made, tries,
                   work, mode, want, calls, failures, reply, got, acked>>

FinishMaintain(m) ==
    /\ pc[m] = "delete" /\ cand[m] = {}
    /\ Return(m, "ok")
    /\ UNCHANGED <<store, late, made, calls, failures, got, acked>>

----------------------------------------------------------------------------

AppendStep(a) ==
    \/ LoadAppend(a) \/ Decide(a) \/ AnswerDuplicates(a) \/ Prepare(a)
    \/ CommitAppend(a)

FetchStep(f) == LoadFetch(f) \/ FinishFetch(f)

MaintainStep(m) ==
    \/ ListObjects(m) \/ LoadMaintain(m) \/ Plan(m) \/ TraceBudget(m)
    \/ PublishRetention(m) \/ AuthoriseDeletion(m) \/ DeleteObject(m)
    \/ FinishMaintain(m)

\* What an operation that is under way does next, whatever its kind.
Step(x) ==
    \/ x \in Appenders /\ AppendStep(x)
    \/ x \in Fetchers /\ FetchStep(x)
    \/ x \in Maintainers /\ MaintainStep(x)
    \/ PutObject(x) \/ LoseRace(x) \/ MissingRead(x) \/ StaleMissing(x)

Next ==
    \/ \E a \in Appenders : StartAppend(a)
    \/ \E f \in Fetchers : StartFetch(f)
    \/ \E m \in Maintainers : StartMaintain(m)
    \/ \E x \in Actors : Step(x)
    \/ \E x \in Actors : Fail(x)
    \/ LatePut \/ LateDelete \/ LateCas

Spec == Init /\ [][Next]_vars

\* A running operation is polled by the runtime until it returns.
FairSpec == Spec /\ \A x \in Actors : WF_vars(Step(x))

----------------------------------------------------------------------------
(* Properties.                                                             *)

Phases == {"idle", "list", "load", "trace", "decide", "write", "retrace",
           "delete", "read", "check"}

Works ==
    [req: Requests \cup {<<>>},
     results: Seq([base: Int, last: Int]),
     adds: Seq([base: Nat, batch: Batches(Producers \cup {NoProducer}, Contents)]),
     next: Nat, states: [Producers -> States(Contents)]]

Modes == [ns: 1 .. 3, apply: BOOLEAN, published: BOOLEAN]

Wants == [offset: Nat, segs: Seq(Descriptors)]

(***************************************************************************)
(* Type invariant: the shapes of the store, of the requests in flight and  *)
(* of the state each operation keeps.                                      *)
(***************************************************************************)
TypeOK ==
    /\ objects \subseteq ObjectIds
    /\ root \in Roots
    /\ latePuts \subseteq ObjectIds
    /\ lateDels \subseteq ObjectIds
    /\ lateCas \subseteq [expect: Roots, new: Roots]
    /\ pc \in [Actors -> Phases]
    /\ loaded \in [Actors -> Roots]
    /\ draft \in [Actors -> Roots]
    /\ todo \in [Actors -> SUBSET ObjectIds]
    /\ made \in [Actors -> Nat]
    /\ tries \in [Actors -> Nat]
    /\ work \in [Actors -> Works]
    /\ cand \in [Actors -> SUBSET ObjectIds]
    /\ mode \in [Actors -> Modes]
    /\ want \in [Actors -> Wants]
    /\ calls \in [Actors -> Nat]
    /\ failures \in Nat
    /\ got \in [Actors -> Wants]
    /\ history \in Seq(Descriptors)

(***************************************************************************)
(* Collection never takes an object the current root reaches: not a        *)
(* segment, not an index page, not a page of the producer directory,       *)
(* whatever writers, collectors, crashes and late requests do.             *)
(***************************************************************************)
LiveGraphPresent == Reach(root) \subseteq objects

(***************************************************************************)
(* No operation reports the integrity failure "missing object of an        *)
(* unchanged root": what a stale snapshot misses is always excused by the  *)
(* reload in stale_missing.                                                *)
(***************************************************************************)
NoIntegrityFailure == \A x \in Actors : reply[x] # "IntegrityFailure"

(***************************************************************************)
(* No update is lost: the root always holds exactly the newest batches of  *)
(* the commit history, and its offsets are those of the history.           *)
(***************************************************************************)
RootMatchesHistory ==
    /\ root.segs = SubSeq(history, Len(history) - Len(root.segs) + 1, Len(history))
    /\ root.next = IF history = <<>> THEN 0 ELSE End(history[Len(history)])
    /\ root.start = IF root.segs = <<>> THEN root.next ELSE root.segs[1].base

(***************************************************************************)
(* A published root passes its own validation and that of its readers      *)
(* (Root::validate, read_page, ProducerState::validate), so the partition  *)
(* never becomes unreadable: the tail is in bounds and not empty beside a  *)
(* tree, sealed leaves are full, the revision counts at least the retained *)
(* segments, and every stored producer state is a valid history whose next *)
(* expected sequence number is one a client can send.                      *)
(***************************************************************************)
RootValid ==
    ~root.legacy =>
        /\ root.tail <= PageEntries
        /\ root.pages = {} <=> Len(root.segs) = root.tail
        /\ root.pages # {} => root.tail > 0
        /\ (Len(root.segs) - root.tail) % PageEntries = 0
        /\ Len(root.segs) <= root.rev
        /\ \A p \in Producers :
               \/ root.producers[p] = NewState(0)
               \/ /\ ValidState(root.producers[p], root.next)
                  /\ Expected(root.producers[p]) \in 0 .. SeqModulus - 1

(***************************************************************************)
(* A fetch returns committed batches only, without a gap, starting with    *)
(* the batch that holds the requested offset - also when it was retried    *)
(* because collection overtook it.                                         *)
(***************************************************************************)
FetchSound ==
    \A f \in Fetchers :
        got[f].segs # <<>> =>
            \E i \in DOMAIN history :
                /\ got[f].segs = SubSeq(history, i, i + Len(got[f].segs) - 1)
                /\ history[i].base <= got[f].offset
                /\ got[f].offset < End(history[i])

(***************************************************************************)
(* Every published root has a larger revision than the one it replaces, so *)
(* an old ETag never comes back, and the offsets of the log never regress. *)
(***************************************************************************)
RootMovesForward ==
    [][root' # root => /\ root'.rev > root.rev
                       /\ root'.start >= root.start
                       /\ root'.next >= root.next]_vars

(***************************************************************************)
(* Every operation returns: no attempt waits for another operation, and an *)
(* attempt is only repeated a bounded number of times.                     *)
(***************************************************************************)
OperationsReturn == \A x \in Actors : pc[x] # "idle" ~> pc[x] = "idle"

(***************************************************************************)
(* The log the clients see.                                                *)
(***************************************************************************)
Abstract == INSTANCE AbstractLog WITH
    log <- [i \in DOMAIN history |-> [base |-> history[i].base, batch |-> history[i].batch]],
    start <- root.start,
    acks <- acked

(***************************************************************************)
(* The protocol implements the abstract log: requests commit atomically,   *)
(* idempotent batches appear exactly once and in sequence, replies stay    *)
(* true, and retention only trims whole batches at the front.              *)
(***************************************************************************)
ImplementsLog == Abstract!AbsSpec
============================================================================
