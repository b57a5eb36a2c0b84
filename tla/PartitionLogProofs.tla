------------------------- MODULE PartitionLogProofs -------------------------
(***************************************************************************)
(* Type correctness of PartitionLog for every value of the constants.      *)
(*                                                                         *)
(* First what the operators return (the idempotence decision, the roots an *)
(* append and maintenance publish, the names they draw), then one lemma    *)
(* per group of actions, then the invariant.  PrepareFacts and PlanFacts   *)
(* say more than types about the two actions that design a new root: they  *)
(* are what PartitionLogSafety rests on.                                   *)
(***************************************************************************)
EXTENDS PartitionLog, FiniteSetTheorems, WellFoundedInduction, TLAPS

\* The initial values of the local state have their types.
LEMMA StateTypes ==
    /\ NewState(0) \in States(Contents)
    /\ EmptyRoot \in Roots
    /\ NoWork \in Works
    /\ NoMode \in Modes
    /\ NoWant \in Wants
<1>1. NewState(0) \in States(Contents)
  BY DEF NewState, States
<1>2. EmptyRoot \in Roots
  BY <1>1 DEF EmptyRoot, Roots
<1>3. NoWork \in Works
  BY <1>1 DEF NoWork, Works
<1>4. NoMode \in Modes
  BY DEF NoMode, Modes
<1>5. NoWant \in Wants
  BY DEF NoWant, Wants
<1> QED BY <1>1, <1>2, <1>3, <1>4, <1>5

\* Division by the page size stays in the naturals and never overshoots.
LEMMA DivMod ==
    ASSUME NEW n \in Nat
    PROVE  /\ n \div PageEntries \in Nat
           /\ n % PageEntries \in Nat
           /\ (n \div PageEntries) * PageEntries \in Nat
           /\ (n \div PageEntries) * PageEntries <= n
  BY BoundsAssumption

\* An element of a sequence over S is in S.
LEMMA ElementType ==
    ASSUME NEW S, NEW s \in Seq(S), NEW i \in 1 .. Len(s)
    PROVE  s[i] \in S
  OBVIOUS

\* Every nonempty set of naturals has a least element.
LEMMA Minimum ==
    ASSUME NEW T \in SUBSET Nat, T # {}
    PROVE  \E i \in T : \A j \in T : i <= j
<1>1. IsWellFoundedOn(OpToRel(<, Nat), Nat)
  BY NatLessThanWellFounded
<1>2. \E i \in T : \A j \in T : ~(<<j, i>> \in OpToRel(<, Nat))
  BY <1>1, WFMin
<1>3. ASSUME NEW i \in Nat, NEW j \in Nat, j < i
      PROVE  <<j, i>> \in OpToRel(<, Nat)
  BY <1>3, Zenon DEF OpToRel
<1>4. PICK i \in T : \A j \in T : ~(<<j, i>> \in OpToRel(<, Nat))
  BY <1>2
<1>5. \A j \in T : ~(j < i)
  BY <1>3, <1>4, Zenon
<1> QED BY <1>5

\* Remember keeps a well-formed producer state (ProducerState::accept).
LEMMA RememberType ==
    ASSUME NEW st \in States(Contents),
           NEW b \in Batches(Producers \cup {NoProducer}, Contents),
           NEW next \in Nat
    PROVE  Remember(st, b, next) \in States(Contents)
<1>1. AtEpoch(st, b) \in States(Contents)
  BY DEF AtEpoch, NewState, States, Batches
<1>2. Identity(b, next) \in Identities(Contents)
  BY DEF Identity, Identities, Batches
<1> DEFINE window == Append(AtEpoch(st, b).batches, Identity(b, next))
<1>3. window \in Seq(Identities(Contents)) /\ window # <<>>
  BY <1>1, <1>2 DEF States
<1>4. Tail(window) \in Seq(Identities(Contents))
  BY <1>3
<1> QED BY <1>3, <1>4 DEF Remember, States, Batches

AllBatches == Batches(Producers \cup {NoProducer}, Contents)

\* The remembered batch a duplicate is answered from is an identity.
LEMMA OriginalType ==
    ASSUME NEW st \in States(Contents), NEW b, Remembered(st, b) # {}
    PROVE  Original(st, b) \in Identities(Contents)
<1>1. Remembered(st, b) \in SUBSET Nat
  BY DEF Remembered, States
<1>2. \E i \in Remembered(st, b) : \A j \in Remembered(st, b) : i <= j
  BY <1>1, Minimum
<1>3. PICK i \in Remembered(st, b) : Original(st, b) = st.batches[i]
  BY <1>2 DEF Original
<1> QED BY <1>3 DEF Remembered, States

\* A request is a sequence of batches.
LEMMA RequestType ==
    ASSUME NEW w \in Works
    PROVE  w.req \in Seq(AllBatches)
<1>1. w.req \in Requests \cup {<<>>}
  BY DEF Works
<1>2. Requests \subseteq Seq(AllBatches)
  BY RequestsAssumption, Zenon DEF AllBatches
<1>3. <<>> \in Seq(AllBatches)
  OBVIOUS
<1> QED BY <1>1, <1>2, <1>3

\* The batch under decision is one of the request.
LEMMA CurrentType ==
    ASSUME NEW w \in Works, Len(w.results) < Len(w.req)
    PROVE  Current(w) \in AllBatches
<1>1. w.req \in Seq(AllBatches)
  BY RequestType
<1>2. Len(w.results) \in Nat
  BY DEF Works
<1> QED BY <1>1, <1>2 DEF Current

\* Replacing the fields the decision loop writes keeps the record well-formed.
LEMMA WorkUpdate ==
    ASSUME NEW w \in Works, NEW r \in Seq([base: Int, last: Int]),
           NEW a \in Seq([base: Nat, batch: AllBatches]), NEW n \in Nat,
           NEW s \in [Producers -> States(Contents)]
    PROVE  [w EXCEPT !.results = r, !.adds = a, !.next = n, !.states = s] \in Works
  BY DEF Works, AllBatches

\* Deciding that a batch is new keeps the private snapshot well-formed.
LEMMA AdditionType ==
    ASSUME NEW w \in Works, Len(w.results) < Len(w.req)
    PROVE  Addition(w) \in Works
<1> DEFINE b == Current(w)
<1>1. b \in AllBatches /\ b.count \in Nat
  BY CurrentType DEF AllBatches, Batches
<1>2. Append(w.results, Result(w.next, b)) \in Seq([base: Int, last: Int])
  <2>1. w.next \in Int /\ w.results \in Seq([base: Int, last: Int])
    BY DEF Works
  <2>2. Result(w.next, b) \in [base: Int, last: Int]
    BY <1>1, <2>1 DEF Result
  <2> QED BY <2>1, <2>2
<1>3. Append(w.adds, [base |-> w.next, batch |-> b]) \in Seq([base: Nat, batch: AllBatches])
  BY <1>1 DEF Works, AllBatches
<1>4. Learned(w.states, b, w.next) \in [Producers -> States(Contents)]
  <2>1. w.states \in [Producers -> States(Contents)] /\ w.next \in Nat
    BY DEF Works
  <2>2. CASE b.pid = NoProducer
    BY <2>1, <2>2 DEF Learned
  <2>3. CASE b.pid # NoProducer
    <3>1. b.pid \in Producers
      BY <1>1, <2>3 DEF AllBatches, Batches
    <3>2. Remember(w.states[b.pid], b, w.next) \in States(Contents)
      BY <1>1, <2>1, <3>1, RememberType DEF AllBatches
    <3> QED BY <2>1, <2>3, <3>1, <3>2 DEF Learned
  <2> QED BY <2>2, <2>3
<1>5. w.next + b.count \in Nat
  BY <1>1 DEF Works
<1>6. Addition(w) = [w EXCEPT !.results = Append(w.results, Result(w.next, b)),
                              !.adds = Append(w.adds, [base |-> w.next, batch |-> b]),
                              !.next = w.next + b.count,
                              !.states = Learned(w.states, b, w.next)]
  BY DEF Addition
<1> HIDE DEF b
<1>7. [w EXCEPT !.results = Append(w.results, Result(w.next, b)),
                !.adds = Append(w.adds, [base |-> w.next, batch |-> b]),
                !.next = w.next + b.count,
                !.states = Learned(w.states, b, w.next)] \in Works
  BY <1>2, <1>3, <1>4, <1>5, WorkUpdate, Zenon
<1> QED BY <1>6, <1>7, Zenon

\* Deciding that a batch is a duplicate keeps the snapshot well-formed.
LEMMA DuplicateType ==
    ASSUME NEW w \in Works, Len(w.results) < Len(w.req), Judge(w) = "duplicate"
    PROVE  Duplicate(w) \in Works
<1> DEFINE b == Current(w)
           st == w.states[b.pid]
<1>1. b \in AllBatches /\ b.count \in Nat /\ b.epoch \in Nat
  BY CurrentType DEF AllBatches, Batches
<1>2. b.pid \in Producers /\ Verdict(st, b) = "duplicate"
  BY <1>1 DEF Judge, AllBatches, Batches
<1>3. st \in States(Contents)
  BY <1>2 DEF Works
<1>4. Remembered(st, b) # {}
  <2>1. Remembered(AtEpoch(st, b), b) # {}
    BY <1>2 DEF Verdict
  <2>2. AtEpoch(st, b) = st
    BY <2>1 DEF AtEpoch, NewState, Remembered
  <2> QED BY <2>1, <2>2
<1>5. Original(st, b).base \in Int
  BY <1>3, <1>4, OriginalType DEF Identities
<1>6. Result(Original(st, b).base, b) \in [base: Int, last: Int]
  BY <1>1, <1>5 DEF Result
<1>7. Append(w.results, Result(Original(st, b).base, b)) \in Seq([base: Int, last: Int])
  BY <1>6 DEF Works
<1> QED BY <1>7 DEF Duplicate, Works

\* Freshly drawn names are object names.
LEMMA FreshType ==
    ASSUME NEW x \in Actors, NEW kind \in {"seg", "idx", "dir"}, NEW from \in Nat, NEW n \in Nat
    PROVE  Fresh(kind, x, from, n) \subseteq ObjectIds
  BY DEF Fresh, ObjectIds

\* The number of pages a rewrite creates is a natural number.
LEMMA RewritesType ==
    ASSUME NEW n \in Nat, NEW ip \in Rewrites(n)
    PROVE  ip \in Nat
  BY BoundsAssumption DEF Rewrites

\* Descriptors name objects.
LEMMA SegObjectsType ==
    ASSUME NEW s \in Seq(Descriptors)
    PROVE  SegObjects(s) \subseteq ObjectIds
<1>1. \A i \in DOMAIN s : s[i] \in Descriptors
  OBVIOUS
<1>2. \A d \in Descriptors : d.obj \in ObjectIds
  BY DEF Descriptors
<1> QED BY <1>1, <1>2 DEF SegObjects

\* A root reaches object names only.
LEMMA ReachType ==
    ASSUME NEW r \in Roots
    PROVE  Reach(r) \subseteq ObjectIds
  BY SegObjectsType DEF Reach, Roots

\* An append makes one descriptor for each batch it adds.
LEMMA NewSegmentsType ==
    ASSUME NEW x \in Actors, NEW w \in Works, made[x] \in Nat
    PROVE  /\ NewSegments(x, w) \in Seq(Descriptors)
           /\ Len(NewSegments(x, w)) = Len(w.adds)
<1>1. w.adds \in Seq([base: Nat, batch: AllBatches])
  BY DEF Works, AllBatches
<1>2. Len(w.adds) \in Nat
  BY <1>1
<1>3. ASSUME NEW i \in 1 .. Len(w.adds)
      PROVE  [obj |-> [kind |-> "seg", by |-> x, n |-> made[x] + i - 1],
              base |-> w.adds[i].base, batch |-> w.adds[i].batch] \in Descriptors
  <2>1. w.adds[i] \in [base: Nat, batch: AllBatches]
    BY <1>1, <1>3, ElementType, Zenon
  <2>2. [kind |-> "seg", by |-> x, n |-> made[x] + i - 1] \in ObjectIds
    BY <1>2 DEF ObjectIds
  <2> QED BY <2>1, <2>2 DEF Descriptors, AllBatches
<1>4. NewSegments(x, w) \in [1 .. Len(w.adds) -> Descriptors]
  BY <1>3 DEF NewSegments
<1> QED BY <1>2, <1>4

\* The root an append publishes is a root.
LEMMA AppendedRootType ==
    ASSUME NEW r \in Roots, NEW w \in Works, NEW segs \in Seq(Descriptors), segs # <<>>,
           NEW ps \in SUBSET ObjectIds, NEW ds \in SUBSET ObjectIds
    PROVE  AppendedRoot(r, w, segs, ps, ds) \in Roots
<1>1. Len(segs) \in Nat /\ Len(segs) > 0
  OBVIOUS
<1>2. r.segs \o segs \in Seq(Descriptors)
  BY DEF Roots
<1>3. NewTail(r.tail, Len(segs)) \in Nat
  <2>1. PICK q \in Nat : q = r.tail + Len(segs) - 1
    BY <1>1 DEF Roots
  <2>2. q % PageEntries \in Nat
    BY DivMod
  <2> QED BY <2>1, <2>2 DEF NewTail
<1>4. r.rev + Len(segs) \in Nat
  BY <1>1 DEF Roots
<1>5. w.next \in Nat /\ w.states \in [Producers -> States(Contents)]
  BY DEF Works
<1> QED BY <1>2, <1>3, <1>4, <1>5 DEF AppendedRoot, Roots

\* Replacing the fields retention writes keeps a root well-formed.
LEMMA RootUpdate ==
    ASSUME NEW r \in Roots, NEW rev \in Nat, NEW start \in Nat,
           NEW segs \in Seq(Descriptors), NEW tail \in Nat, NEW ps \in SUBSET ObjectIds
    PROVE  [r EXCEPT !.rev = rev, !.start = start, !.legacy = FALSE,
                     !.segs = segs, !.tail = tail, !.pages = ps] \in Roots
  BY DEF Roots

\* The root maintenance publishes is a root, whatever prefix expires.
LEMMA RetainedRootType ==
    ASSUME NEW r \in Roots, NEW k \in 0 .. Len(r.segs), NEW ps \in SUBSET ObjectIds
    PROVE  RetainedRoot(r, k, ps) \in Roots
<1> DEFINE kept == SubSeq(r.segs, k + 1, Len(r.segs))
           n == Len(kept)
           start == IF kept = <<>> THEN r.next ELSE kept[1].base
           tail == IF k = 0 /\ ~r.legacy THEN r.tail ELSE n - Leaves(n) * PageEntries
<1>1. r.segs \in Seq(Descriptors) /\ r.rev \in Nat /\ r.next \in Nat /\ r.tail \in Nat
  BY DEF Roots
<1>2. kept \in Seq(Descriptors) /\ n \in Nat
  BY <1>1
<1>3. start \in Nat
  <2>1. CASE kept = <<>>
    BY <1>1, <2>1
  <2>2. CASE kept # <<>>
    <3>1. kept[1] \in Descriptors
      BY <1>2, <2>2
    <3> QED BY <3>1, <2>2 DEF Descriptors
  <2> QED BY <2>1, <2>2
<1>4. tail \in Nat
  <2>1. n - Leaves(n) * PageEntries \in Nat
    <3>1. CASE n = 0
      BY <3>1, BoundsAssumption DEF Leaves
    <3>2. CASE n # 0
      <4> HIDE DEF n
      <4>1. PICK q \in Nat : q = n - 1
        BY <1>2, <3>2
      <4> DEFINE d == (q \div PageEntries) * PageEntries
      <4>2. d \in Nat /\ d <= q
        BY DivMod
      <4>3. Leaves(n) * PageEntries = d
        BY <3>2, <4>1 DEF Leaves
      <4> HIDE DEF d
      <4> QED BY <1>2, <4>1, <4>2, <4>3
    <3> QED BY <3>1, <3>2
  <2> QED BY <1>1, <2>1
<1>5. RetainedRoot(r, k, ps) =
        [r EXCEPT !.rev = r.rev + 1, !.start = start, !.legacy = FALSE,
                  !.segs = kept, !.tail = tail, !.pages = ps]
  BY DEF RetainedRoot, Trimmed, Roots
<1>6. r.rev + 1 \in Nat
  BY <1>1
<1> HIDE DEF kept, n, start, tail
<1>7. [r EXCEPT !.rev = r.rev + 1, !.start = start, !.legacy = FALSE,
                !.segs = kept, !.tail = tail, !.pages = ps] \in Roots
  BY <1>2, <1>3, <1>4, <1>6, RootUpdate, Zenon
<1> QED BY <1>5, <1>7, Zenon

-----------------------------------------------------------------------------
(* The type invariant.  Its two halves: what an operation keeps, and the   *)
(* rest.                                                                   *)

OpOK ==
    /\ pc \in [Actors -> Phases]
    /\ loaded \in [Actors -> Roots]
    /\ draft \in [Actors -> Roots]
    /\ todo \in [Actors -> SUBSET ObjectIds]
    /\ tries \in [Actors -> Nat]
    /\ work \in [Actors -> Works]
    /\ cand \in [Actors -> SUBSET ObjectIds]
    /\ mode \in [Actors -> Modes]
    /\ want \in [Actors -> Wants]

RestOK ==
    /\ objects \subseteq ObjectIds
    /\ root \in Roots
    /\ latePuts \subseteq ObjectIds
    /\ lateDels \subseteq ObjectIds
    /\ lateCas \subseteq [expect: Roots, new: Roots]
    /\ made \in [Actors -> Nat]
    /\ calls \in [Actors -> Nat]
    /\ failures \in Nat
    /\ got \in [Actors -> Wants]
    /\ history \in Seq(Descriptors)

\* The two halves make up the type invariant.
LEMMA TypeSplit == TypeOK <=> OpOK /\ RestOK
  BY DEF TypeOK, OpOK, RestOK

\* The end of a call keeps the types.
LEMMA ReturnType ==
    ASSUME OpOK, NEW x \in Actors, NEW outcome, Return(x, outcome)
    PROVE  OpOK'
  BY StateTypes DEF OpOK, Return, Phases

\* A repeated attempt keeps the request and nothing else.
LEMMA RequestKept ==
    ASSUME NEW w \in Works
    PROVE  [NoWork EXCEPT !.req = w.req] \in Works
  BY StateTypes DEF NoWork, Works

\* Replacing the selection of a fetch keeps its type.
LEMMA WantUpdate ==
    ASSUME NEW w \in Wants, NEW s \in Seq(Descriptors)
    PROVE  [w EXCEPT !.segs = s] \in Wants
  BY DEF Wants

\* The end of an attempt keeps the types.
LEMMA AgainType ==
    ASSUME OpOK, NEW x \in Actors, Again(x)
    PROVE  OpOK'
<1>1. CASE Return(x, Outcome(x, "ContentionExhausted"))
  BY <1>1, ReturnType
<1>2. CASE ~Return(x, Outcome(x, "ContentionExhausted"))
  <2>1. /\ pc' = [pc EXCEPT ![x] = IF x \in Maintainers THEN "list" ELSE "load"]
        /\ tries' = [tries EXCEPT ![x] = @ + 1]
        /\ loaded' = [loaded EXCEPT ![x] = EmptyRoot]
        /\ draft' = [draft EXCEPT ![x] = EmptyRoot]
        /\ todo' = [todo EXCEPT ![x] = {}]
        /\ work' = [work EXCEPT ![x] = [NoWork EXCEPT !.req = work[x].req]]
        /\ cand' = [cand EXCEPT ![x] = {}]
        /\ mode' = [mode EXCEPT ![x].ns = 1]
        /\ want' = [want EXCEPT ![x].segs = <<>>]
    BY <1>2 DEF Again
  <2>2. work' \in [Actors -> Works]
    <3>1. work \in [Actors -> Works] /\ work[x] \in Works
      BY DEF OpOK
    <3>2. [NoWork EXCEPT !.req = work[x].req] \in Works
      BY <3>1, RequestKept, Zenon
    <3> QED BY <2>1, <3>1, <3>2
  <2>3. /\ pc' \in [Actors -> Phases]
        /\ loaded' \in [Actors -> Roots]
        /\ draft' \in [Actors -> Roots]
        /\ todo' \in [Actors -> SUBSET ObjectIds]
        /\ tries' \in [Actors -> Nat]
        /\ cand' \in [Actors -> SUBSET ObjectIds]
    BY <2>1, StateTypes DEF OpOK, Phases
  <2>4. mode' \in [Actors -> Modes]
    <3>1. mode \in [Actors -> Modes] /\ mode[x] \in Modes
      BY DEF OpOK
    <3>2. [mode[x] EXCEPT !.ns = 1] \in Modes
      BY <3>1 DEF Modes
    <3> QED BY <2>1, <3>1, <3>2
  <2>5. want' \in [Actors -> Wants]
    <3>1. want \in [Actors -> Wants] /\ want[x] \in Wants
      BY DEF OpOK
    <3>2. [want[x] EXCEPT !.segs = <<>>] \in Wants
      <4>1. <<>> \in Seq(Descriptors)
        OBVIOUS
      <4> QED BY <3>1, <4>1, WantUpdate, Zenon
    <3> QED BY <2>1, <3>1, <3>2
  <2> QED BY <2>2, <2>3, <2>4, <2>5 DEF OpOK
<1> QED BY <1>1, <1>2

\* A conditional write that takes effect keeps the types.
LEMMA PublishType ==
    ASSUME RestOK, NEW expect \in Roots, NEW new \in Roots, Publish(expect, new)
    PROVE  root' \in Roots /\ history' \in Seq(Descriptors)
<1>1. new.segs \in Seq(Descriptors) /\ Len(expect.segs) \in Nat /\ Len(new.segs) \in Nat
  BY DEF Roots
<1>2. SubSeq(new.segs, Len(expect.segs) + 1, Len(new.segs)) \in Seq(Descriptors)
  BY <1>1
<1>3. history \in Seq(Descriptors)
  BY DEF RestOK
<1> QED BY <1>2, <1>3 DEF Publish

\* What a missing root and a schema 1 manifest have in common.
LEMMA InitialRootFacts ==
    ASSUME NEW r \in InitialRoots
    PROVE  /\ r \in Roots /\ r.pages = {} /\ r.dir = {} /\ r.start = 0
           /\ r.rev = Len(r.segs) /\ r.tail = Len(r.segs)
           /\ r.producers = [p \in Producers |-> NewState(0)]
           /\ r.next = IF r.segs = <<>> THEN 0 ELSE End(r.segs[Len(r.segs)])
           /\ r.legacy \/ r.segs = <<>>
           /\ \A i \in DOMAIN r.segs :
                 /\ r.segs[i].obj.by = "legacy" /\ r.segs[i].batch.pid = NoProducer
                 /\ r.segs[i].base = IF i = 1 THEN 0 ELSE End(r.segs[i - 1])
<1>1. r \in Roots /\ (r = EmptyRoot \/ LegacyManifest(r))
  BY RootsAssumption
<1>2. CASE r = EmptyRoot
  BY <1>1, <1>2 DEF EmptyRoot
<1>3. CASE LegacyManifest(r)
  <2>1. r.segs \in Seq(Descriptors) /\ Len(r.segs) \in Nat
    BY <1>1 DEF Roots
  <2>2. PICK n : n = IF r.segs = <<>> THEN 0 ELSE End(r.segs[Len(r.segs)])
    OBVIOUS
  <2>3. r = [EmptyRoot EXCEPT !.rev = Len(r.segs), !.legacy = TRUE, !.segs = r.segs,
                              !.tail = Len(r.segs), !.next = n]
    BY <1>3, <2>2 DEF LegacyManifest
  <2>4. /\ r.pages = {} /\ r.dir = {} /\ r.start = 0 /\ r.rev = Len(r.segs)
        /\ r.tail = Len(r.segs) /\ r.legacy /\ r.next = n
        /\ r.producers = [p \in Producers |-> NewState(0)]
    BY <2>3 DEF EmptyRoot
  <2> QED BY <1>1, <1>3, <2>2, <2>4 DEF LegacyManifest
<1> QED BY <1>1, <1>2, <1>3

\* The types hold initially.
LEMMA InitType == Init => TypeOK
<1> SUFFICES ASSUME Init PROVE OpOK /\ RestOK
  BY TypeSplit
<1>1. root \in Roots
  BY RootsAssumption DEF Init
<1>2. root.segs \in Seq(Descriptors) /\ SegObjects(root.segs) \subseteq ObjectIds
  BY <1>1, SegObjectsType DEF Roots
<1>3. OpOK
  BY StateTypes DEF Init, OpOK, Phases
<1>4. RestOK
  BY <1>1, <1>2, StateTypes DEF Init, RestOK
<1> QED BY <1>3, <1>4

\* Steps of the store and of failed requests.
LEMMA StoreStepType ==
    ASSUME OpOK, RestOK, NEW x \in Actors,
           \/ PutObject(x) \/ LoseRace(x) \/ MissingRead(x) \/ StaleMissing(x)
           \/ Fail(x)
    PROVE  OpOK' /\ RestOK'
<1>1. CASE PutObject(x)
  BY <1>1 DEF PutObject, OpOK, RestOK, late
<1>2. CASE LoseRace(x)
  BY <1>2, AgainType DEF LoseRace, RestOK, store, late
<1>3. CASE MissingRead(x)
  BY <1>3 DEF MissingRead, OpOK, RestOK, store, late, op, Phases
<1>4. CASE StaleMissing(x)
  BY <1>4, AgainType, ReturnType DEF StaleMissing, RestOK, store, late
<1>5. CASE Fail(x)
  <2>1. OpOK'
    BY <1>5, ReturnType DEF Fail
  <2>2. /\ latePuts' \subseteq ObjectIds
        /\ lateDels' \subseteq ObjectIds
        /\ lateCas' \subseteq [expect: Roots, new: Roots]
    <3>1. /\ todo[x] \subseteq ObjectIds /\ cand[x] \subseteq ObjectIds
          /\ loaded[x] \in Roots /\ draft[x] \in Roots
      BY DEF OpOK
    <3> QED BY <1>5, <3>1 DEF Fail, RestOK, late
  <2> QED BY <1>5, <2>1, <2>2 DEF Fail, RestOK, store
<1> QED BY <1>1, <1>2, <1>3, <1>4, <1>5

\* Steps of requests that arrive late keep the types.
LEMMA LateStepType ==
    ASSUME OpOK, RestOK, LatePut \/ LateDelete \/ LateCas
    PROVE  OpOK' /\ RestOK'
<1>1. CASE LatePut
  BY <1>1 DEF LatePut, OpOK, RestOK, op
<1>2. CASE LateDelete
  BY <1>2 DEF LateDelete, OpOK, RestOK, op
<1>3. CASE LateCas
  <2>1. OpOK'
    BY <1>3 DEF LateCas, OpOK, op
  <2>2. PICK q \in lateCas :
            /\ lateCas' = lateCas \ {q}
            /\ \/ Publish(q.expect, q.new)
               \/ UNCHANGED <<root, history>>
    BY <1>3 DEF LateCas
  <2>3. q.expect \in Roots /\ q.new \in Roots
    BY DEF RestOK
  <2>4. root' \in Roots /\ history' \in Seq(Descriptors)
    BY <2>2, <2>3, PublishType DEF RestOK
  <2> QED BY <1>3, <2>1, <2>2, <2>4 DEF LateCas, RestOK
<1> QED BY <1>1, <1>2, <1>3

\* The start of a call keeps the types.
LEMMA StartType ==
    ASSUME OpOK, RestOK, NEW x \in Actors, NEW phase \in Phases, Start(x, phase),
           work' \in [Actors -> Works], mode' \in [Actors -> Modes], want' \in [Actors -> Wants]
    PROVE  OpOK' /\ RestOK'
<1>1. OpOK'
  BY DEF Start, OpOK
<1>2. RestOK'
  <2>1. calls' \in [Actors -> Nat]
    BY DEF Start, RestOK
  <2> QED BY <2>1 DEF Start, RestOK, store, late
<1> QED BY <1>1, <1>2

\* Loading the root keeps the types.
LEMMA LoadType ==
    ASSUME OpOK, RestOK, NEW x \in Actors, NEW phase \in Phases, Load(x, phase),
           work' \in [Actors -> Works], want' \in [Actors -> Wants]
    PROVE  OpOK' /\ RestOK'
  BY DEF Load, OpOK, RestOK, store, late

\* The actions of a fetch keep the types.
LEMMA FetchStepType ==
    ASSUME OpOK, RestOK, NEW f \in Actors, StartFetch(f) \/ FetchStep(f)
    PROVE  OpOK' /\ RestOK'
<1>0. want \in [Actors -> Wants] /\ want[f] \in Wants /\ root \in Roots
  BY DEF OpOK, RestOK
<1>1. CASE StartFetch(f)
  <2>1. PICK o \in 0 .. root.next + 1 : want' = [want EXCEPT ![f].offset = o]
    BY <1>1 DEF StartFetch
  <2>2. o \in Nat
    BY <1>0 DEF Roots
  <2>3. [want[f] EXCEPT !.offset = o] \in Wants
    BY <1>0, <2>2 DEF Wants
  <2>4. want' \in [Actors -> Wants]
    BY <1>0, <2>1, <2>3
  <2>5. "load" \in Phases /\ Start(f, "load") /\ UNCHANGED <<work, mode>>
    BY <1>1 DEF StartFetch, Phases
  <2> QED BY <2>4, <2>5, StartType DEF OpOK
<1>2. CASE LoadFetch(f)
  <2>1. CASE \E outcome : Return(f, outcome) /\ UNCHANGED <<store, late, made, calls, failures>>
                         /\ (UNCHANGED got \/ got' = [got EXCEPT ![f] = want[f]])
    BY <1>0, <2>1, ReturnType DEF RestOK, store, late
  <2>2. CASE /\ Load(f, "read") /\ UNCHANGED work
             /\ \E i \in First(root.segs, want[f].offset) : \E j \in i - 1 .. Len(root.segs) :
                    want' = [want EXCEPT ![f].segs = SubSeq(root.segs, i, j)]
    <3>0. PICK i \in First(root.segs, want[f].offset) : \E j \in i - 1 .. Len(root.segs) :
              want' = [want EXCEPT ![f].segs = SubSeq(root.segs, i, j)]
      BY <2>2
    <3>1. PICK j \in i - 1 .. Len(root.segs) :
              want' = [want EXCEPT ![f].segs = SubSeq(root.segs, i, j)]
      BY <3>0
    <3>2. root.segs \in Seq(Descriptors) /\ i \in 1 .. Len(root.segs)
      BY <1>0 DEF Roots, First, From
    <3>3. SubSeq(root.segs, i, j) \in Seq(Descriptors)
      BY <3>2
    <3>4. [want[f] EXCEPT !.segs = SubSeq(root.segs, i, j)] \in Wants
      BY <1>0, <3>3, WantUpdate, Zenon
    <3>5. want' \in [Actors -> Wants]
      BY <1>0, <3>1, <3>4
    <3>6. "read" \in Phases
      BY DEF Phases
    <3> QED BY <2>2, <3>5, <3>6, LoadType DEF OpOK
  <2> QED BY <1>2, <2>1, <2>2 DEF LoadFetch
<1>3. CASE FinishFetch(f)
  BY <1>0, <1>3, ReturnType DEF FinishFetch, RestOK, store, late
<1> QED BY <1>1, <1>2, <1>3 DEF FetchStep

\* The names Prepare and Plan draw, and the page sets they may choose.
LEMMA RewrittenType ==
    ASSUME NEW old \in SUBSET ObjectIds, NEW new \in SUBSET ObjectIds,
           NEW s \in Rewritten(old, new)
    PROVE  s \in SUBSET ObjectIds /\ s \subseteq old \cup new
  BY DEF Rewritten

\* The number of leaves an append seals is a natural number.
LEMMA SealsType ==
    ASSUME NEW r \in Roots, NEW n \in Nat, n > 0
    PROVE  Seals(r, n) \in Nat
<1>1. PICK q \in Nat : q = r.tail + n - 1
  BY DEF Roots
<1> QED BY <1>1, DivMod DEF Seals

\* A request has finitely many idempotent producers.
LEMMA StateEntriesType ==
    ASSUME NEW w \in Works
    PROVE  Cardinality(StateEntries(w)) \in Nat
<1>1. Len(w.req) \in Nat /\ DOMAIN w.req = 1 .. Len(w.req)
  BY RequestType
<1>2. IsFiniteSet(1 .. Len(w.req))
  BY <1>1, FS_Interval
<1>3. StateEntries(w) \subseteq 1 .. Len(w.req)
  BY <1>1 DEF StateEntries
<1> QED BY <1>2, <1>3, FS_Subset, FS_CardinalityType

\* The number of leaves of a rebuilt index is a natural number.
LEMMA LeavesType ==
    ASSUME NEW n \in Nat
    PROVE  Leaves(n) \in Nat
<1>1. CASE n = 0
  BY <1>1 DEF Leaves
<1>2. CASE n # 0
  <2>1. PICK q \in Nat : q = n - 1
    BY <1>2
  <2> QED BY <1>2, <2>1, DivMod DEF Leaves
<1> QED BY <1>1, <1>2

(***************************************************************************)
(* What Prepare chooses: a new root whose graph is the loaded one plus     *)
(* objects under names that have not been drawn before.                    *)
(***************************************************************************)
Drawn(x, n) == \A o \in todo'[x] : o.by = x /\ o.n >= n /\ o.n < made'[x]

\* The draft, the names it draws and the graph it reaches.
LEMMA PrepareFacts ==
    ASSUME OpOK, RestOK, NEW a \in Actors, Prepare(a)
    PROVE  /\ draft'[a] \in Roots /\ draft' = [draft EXCEPT ![a] = draft'[a]]
           /\ todo'[a] \subseteq ObjectIds /\ todo' = [todo EXCEPT ![a] = todo'[a]]
           /\ made'[a] \in Nat /\ made' = [made EXCEPT ![a] = made'[a]]
           /\ made'[a] >= made[a]
           /\ Drawn(a, made[a])
           /\ draft'[a].rev > loaded[a].rev
           /\ Reach(draft'[a]) \subseteq Reach(loaded[a]) \cup todo'[a]
<1> DEFINE w == work[a]
           r == loaded[a]
           n == Len(w.adds)
           segs == NewSegments(a, w)
<1>1. w \in Works /\ r \in Roots /\ made[a] \in Nat
  BY DEF OpOK, RestOK
<1>2. n \in Nat /\ n > 0 /\ w.adds # <<>>
  BY <1>1 DEF Prepare, Works
<1>3. segs \in Seq(Descriptors) /\ Len(segs) = n /\ segs # <<>>
  BY <1>1, <1>2, NewSegmentsType
<1>4. PICK ip \in Rewrites(Seals(r, n)), dp \in Rewrites(Cardinality(StateEntries(w))) :
        \E ps \in Rewritten(r.pages, Fresh("idx", a, made[a] + n, ip)),
           ds \in Rewritten(r.dir, Fresh("dir", a, made[a] + n + ip, dp)) :
           /\ draft' = [draft EXCEPT ![a] = AppendedRoot(r, w, segs, ps, ds)]
           /\ todo' = [todo EXCEPT ![a] = SegObjects(segs) \cup Fresh("idx", a, made[a] + n, ip)
                                             \cup Fresh("dir", a, made[a] + n + ip, dp)]
           /\ made' = [made EXCEPT ![a] = @ + n + ip + dp]
  BY DEF Prepare
<1>5. ip \in Nat /\ dp \in Nat
  BY <1>1, <1>2, <1>4, SealsType, StateEntriesType, RewritesType
<1> DEFINE idx == Fresh("idx", a, made[a] + n, ip)
           dir == Fresh("dir", a, made[a] + n + ip, dp)
<1>6. PICK ps \in Rewritten(r.pages, idx), ds \in Rewritten(r.dir, dir) :
           /\ draft' = [draft EXCEPT ![a] = AppendedRoot(r, w, segs, ps, ds)]
           /\ todo' = [todo EXCEPT ![a] = SegObjects(segs) \cup idx \cup dir]
           /\ made' = [made EXCEPT ![a] = @ + n + ip + dp]
  BY <1>4
<1>7. idx \subseteq ObjectIds /\ dir \subseteq ObjectIds /\ SegObjects(segs) \subseteq ObjectIds
  <2> HIDE DEF n
  <2>1. made[a] + n \in Nat /\ made[a] + n + ip \in Nat
    BY <1>1, <1>2, <1>5
  <2>2. idx \subseteq ObjectIds /\ dir \subseteq ObjectIds
    BY <1>5, <2>1, FreshType
  <2> QED BY <1>3, <2>2, SegObjectsType
<1>8. /\ ps \in SUBSET ObjectIds /\ ps \subseteq r.pages \cup idx
      /\ ds \in SUBSET ObjectIds /\ ds \subseteq r.dir \cup dir
  <2>1. r.pages \in SUBSET ObjectIds /\ r.dir \in SUBSET ObjectIds
    BY <1>1 DEF Roots
  <2> HIDE DEF idx, dir, r
  <2> QED BY <1>6, <1>7, <2>1, RewrittenType
<1>9. /\ draft'[a] = AppendedRoot(r, w, segs, ps, ds)
      /\ todo'[a] = SegObjects(segs) \cup idx \cup dir
      /\ made'[a] = made[a] + n + ip + dp
  BY <1>6 DEF OpOK, RestOK
<1>10. draft'[a] \in Roots
  <2> HIDE DEF segs, r, w
  <2> QED BY <1>1, <1>3, <1>8, <1>9, AppendedRootType
<1>11. made'[a] \in Nat /\ made'[a] >= made[a]
  <2> HIDE DEF n
  <2> QED BY <1>1, <1>2, <1>5, <1>9
<1>12. Drawn(a, made[a])
  <2>1. \A o \in SegObjects(segs) : o.by = a /\ o.n >= made[a] /\ o.n < made[a] + n
    <3>1. \A i \in 1 .. n : segs[i].obj = [kind |-> "seg", by |-> a, n |-> made[a] + i - 1]
      BY <1>2 DEF NewSegments
    <3>2. DOMAIN segs = 1 .. n
      BY <1>3
    <3>3. ASSUME NEW o \in SegObjects(segs)
          PROVE  \E i \in 1 .. n : o = [kind |-> "seg", by |-> a, n |-> made[a] + i - 1]
      BY <3>1, <3>2 DEF SegObjects
    <3> HIDE DEF segs, n
    <3> QED BY <1>1, <1>2, <3>3
  <2>2. \A o \in idx : o.by = a /\ o.n >= made[a] + n /\ o.n < made[a] + n + ip
    <3> HIDE DEF n
    <3> QED BY <1>1, <1>2, <1>5 DEF Fresh
  <2>3. \A o \in dir : o.by = a /\ o.n >= made[a] + n + ip /\ o.n < made[a] + n + ip + dp
    <3> HIDE DEF n
    <3> QED BY <1>1, <1>2, <1>5 DEF Fresh
  <2>4. \A o \in SegObjects(segs) \cup idx \cup dir : o.n \in Nat
    BY <1>7 DEF ObjectIds
  <2> HIDE DEF n, segs, idx, dir
  <2> QED BY <1>1, <1>2, <1>5, <1>9, <2>1, <2>2, <2>3, <2>4 DEF Drawn
<1>13. draft'[a].rev > loaded[a].rev
  <2>1. draft'[a].rev = r.rev + n
    BY <1>1, <1>3, <1>9 DEF AppendedRoot, Roots
  <2> HIDE DEF n
  <2> QED BY <1>1, <1>2, <2>1 DEF Roots
<1>14. Reach(draft'[a]) \subseteq Reach(loaded[a]) \cup todo'[a]
  <2>1. draft'[a].segs = r.segs \o segs /\ draft'[a].pages = ps /\ draft'[a].dir = ds
    BY <1>1, <1>9 DEF AppendedRoot, Roots
  <2>2. r.segs \in Seq(Descriptors)
    BY <1>1 DEF Roots
  <2>3. SegObjects(r.segs \o segs) \subseteq SegObjects(r.segs) \cup SegObjects(segs)
    <3> HIDE DEF segs, r
    <3> QED BY <1>3, <2>2 DEF SegObjects
  <2> HIDE DEF segs, idx, dir, n
  <2> QED BY <1>8, <1>9, <2>1, <2>3 DEF Reach
<1> HIDE DEF n, segs, idx, dir
<1> QED BY <1>6, <1>7, <1>9, <1>10, <1>11, <1>12, <1>13, <1>14 DEF OpOK, RestOK

\* The actions of an append keep the types.
LEMMA AppendStepType ==
    ASSUME OpOK, RestOK, NEW a \in Actors, StartAppend(a) \/ AppendStep(a)
    PROVE  OpOK' /\ RestOK'
<1>0. work \in [Actors -> Works] /\ work[a] \in Works /\ root \in Roots
  BY DEF OpOK, RestOK
<1>1. CASE StartAppend(a)
  <2>1. PICK r \in Requests : work' = [work EXCEPT ![a].req = r]
    BY <1>1 DEF StartAppend
  <2>2. [work[a] EXCEPT !.req = r] \in Works
    BY <1>0 DEF Works
  <2>3. work' \in [Actors -> Works]
    BY <1>0, <2>1, <2>2
  <2>4. "load" \in Phases /\ Start(a, "load") /\ UNCHANGED <<mode, want>>
    BY <1>1 DEF StartAppend, Phases
  <2> QED BY <2>3, <2>4, StartType DEF OpOK
<1>2. CASE LoadAppend(a)
  <2>1. root.next \in Nat /\ root.producers \in [Producers -> States(Contents)]
    BY <1>0 DEF Roots
  <2>2. [work[a] EXCEPT !.next = root.next, !.states = root.producers] \in Works
    BY <1>0, <2>1 DEF Works
  <2>3. work' = [work EXCEPT ![a] = [work[a] EXCEPT !.next = root.next, !.states = root.producers]]
    BY <1>0, <1>2 DEF LoadAppend
  <2>4. work' \in [Actors -> Works]
    BY <1>0, <2>2, <2>3
  <2>5. "decide" \in Phases /\ Load(a, "decide") /\ UNCHANGED want
    BY <1>2 DEF LoadAppend, Phases
  <2> QED BY <2>4, <2>5, LoadType DEF OpOK
<1>3. CASE Decide(a)
  <2>1. RestOK'
    BY <1>3 DEF Decide, RestOK, store, late
  <2>2. CASE \E o : Return(a, o)
    BY <2>1, <2>2, ReturnType
  <2>3. CASE /\ work' = [work EXCEPT ![a] = Addition(work[a])]
             /\ UNCHANGED <<pc, loaded, draft, todo, tries, cand, mode, want, reply>>
    <3>1. Addition(work[a]) \in Works
      BY <1>0, <1>3, AdditionType DEF Decide
    <3> QED BY <1>0, <2>1, <2>3, <3>1 DEF OpOK
  <2>4. CASE /\ Judge(work[a]) = "duplicate"
             /\ work' = [work EXCEPT ![a] = Duplicate(work[a])]
             /\ UNCHANGED <<pc, loaded, draft, todo, tries, cand, mode, want, reply>>
    <3>1. Duplicate(work[a]) \in Works
      BY <1>0, <1>3, <2>4, DuplicateType DEF Decide
    <3> QED BY <1>0, <2>1, <2>4, <3>1 DEF OpOK
  <2> QED BY <1>3, <2>2, <2>3, <2>4 DEF Decide
<1>4. CASE AnswerDuplicates(a)
  BY <1>4, ReturnType DEF AnswerDuplicates, RestOK, store, late
<1>5. CASE Prepare(a)
  <2>1. /\ draft' \in [Actors -> Roots] /\ todo' \in [Actors -> SUBSET ObjectIds]
        /\ made' \in [Actors -> Nat]
    BY <1>5, PrepareFacts DEF OpOK, RestOK
  <2>2. /\ pc' = [pc EXCEPT ![a] = "write"]
        /\ UNCHANGED <<store, late, loaded, tries, work, cand, mode, want, calls,
                       failures, reply, got, acked>>
    BY <1>5 DEF Prepare
  <2> QED BY <2>1, <2>2 DEF OpOK, RestOK, store, late, Phases
<1>6. CASE CommitAppend(a)
  <2>1. loaded[a] \in Roots /\ draft[a] \in Roots /\ Publish(loaded[a], draft[a])
    BY <1>6 DEF CommitAppend, OpOK
  <2>2. root' \in Roots /\ history' \in Seq(Descriptors)
    BY <2>1, PublishType
  <2>3. OpOK'
    BY <1>6, ReturnType DEF CommitAppend
  <2> QED BY <1>6, <2>2, <2>3 DEF CommitAppend, RestOK, late
<1> QED BY <1>1, <1>2, <1>3, <1>4, <1>5, <1>6 DEF AppendStep

(***************************************************************************)
(* What Plan chooses when it goes on to publish.                           *)
(***************************************************************************)
LEMMA PlanFacts ==
    ASSUME OpOK, RestOK, NEW m \in Actors, Plan(m), pc' # [pc EXCEPT ![m] = "idle"]
    PROVE  /\ draft'[m] \in Roots /\ draft' = [draft EXCEPT ![m] = draft'[m]]
           /\ todo'[m] \subseteq ObjectIds /\ todo' = [todo EXCEPT ![m] = todo'[m]]
           /\ made'[m] \in Nat /\ made' = [made EXCEPT ![m] = made'[m]]
           /\ made'[m] >= made[m]
           /\ Drawn(m, made[m])
           /\ draft'[m].rev > loaded[m].rev
           /\ Reach(draft'[m]) \subseteq Reach(loaded[m]) \cup todo'[m]
           /\ cand' = [cand EXCEPT ![m] = cand[m] \ Reach(draft'[m])]
           /\ pc' = [pc EXCEPT ![m] = "write"]
           /\ UNCHANGED <<loaded, tries, work, mode, want, reply>>
<1> DEFINE r == loaded[m]
<1>1. r \in Roots /\ made[m] \in Nat /\ r.segs \in Seq(Descriptors) /\ Len(r.segs) \in Nat
  <2>1. r \in Roots /\ made[m] \in Nat
    BY DEF OpOK, RestOK
  <2>2. r.segs \in Seq(Descriptors)
    BY <2>1 DEF Roots
  <2> QED BY <2>1, <2>2
<1>2. PICK k \in 0 .. Len(r.segs) :
        \E ip \in Rewrites(IF k # 0 \/ r.legacy THEN Leaves(Len(r.segs) - k) ELSE 0) :
          LET idx == Fresh("idx", m, made[m], ip)
              next == RetainedRoot(r, k, IF k # 0 \/ r.legacy THEN idx ELSE r.pages) IN
          /\ draft' = [draft EXCEPT ![m] = next]
          /\ todo' = [todo EXCEPT ![m] = idx]
          /\ made' = [made EXCEPT ![m] = @ + ip]
          /\ cand' = [cand EXCEPT ![m] = @ \ Reach(next)]
          /\ pc' = [pc EXCEPT ![m] = "write"]
          /\ UNCHANGED <<loaded, tries, work, mode, want, reply>>
  BY DEF Plan, Return
<1>3. k \in Nat /\ Len(r.segs) - k \in Nat
  BY <1>1
<1> DEFINE rebuild == k # 0 \/ r.legacy
           leaves == IF rebuild THEN Leaves(Len(r.segs) - k) ELSE 0
<1>4. leaves \in Nat
  BY <1>3, LeavesType
<1>5. PICK ip \in Rewrites(leaves) :
          LET idx == Fresh("idx", m, made[m], ip)
              next == RetainedRoot(r, k, IF rebuild THEN idx ELSE r.pages) IN
          /\ draft' = [draft EXCEPT ![m] = next]
          /\ todo' = [todo EXCEPT ![m] = idx]
          /\ made' = [made EXCEPT ![m] = @ + ip]
          /\ cand' = [cand EXCEPT ![m] = @ \ Reach(next)]
          /\ pc' = [pc EXCEPT ![m] = "write"]
          /\ UNCHANGED <<loaded, tries, work, mode, want, reply>>
  BY <1>2
<1>6. ip \in Nat
  <2> HIDE DEF leaves
  <2> QED BY <1>4, RewritesType
<1> DEFINE idx == Fresh("idx", m, made[m], ip)
           pages == IF rebuild THEN idx ELSE r.pages
           next == RetainedRoot(r, k, pages)
<1>7. idx \subseteq ObjectIds
  BY <1>1, <1>6, FreshType
<1>8. pages \in SUBSET ObjectIds /\ pages \subseteq r.pages \cup idx
  <2> HIDE DEF idx
  <2> QED BY <1>1, <1>7 DEF Roots
<1>9. next \in Roots
  <2> HIDE DEF pages, r
  <2> QED BY <1>1, <1>8, RetainedRootType
<1>10. draft'[m] = next /\ todo'[m] = idx /\ made'[m] = made[m] + ip
  BY <1>5 DEF OpOK, RestOK
<1>11. Drawn(m, made[m])
  <2>1. \A o \in idx : o.by = m /\ o.n >= made[m] /\ o.n < made[m] + ip
    BY <1>1, <1>6 DEF Fresh
  <2> HIDE DEF idx
  <2> QED BY <1>10, <2>1 DEF Drawn
<1>12. next.rev = r.rev + 1 /\ next.segs = SubSeq(r.segs, k + 1, Len(r.segs))
       /\ next.pages = pages /\ next.dir = r.dir
  <2> HIDE DEF pages
  <2> QED BY <1>1 DEF RetainedRoot, Trimmed, Roots
<1>13. SegObjects(next.segs) \subseteq SegObjects(r.segs)
  <2> HIDE DEF r, next
  <2> QED BY <1>1, <1>3, <1>12 DEF SegObjects
<1>14. Reach(next) \subseteq Reach(r) \cup idx
  <2> HIDE DEF r, next, idx, pages
  <2> QED BY <1>8, <1>12, <1>13 DEF Reach
<1>15. next.rev > r.rev
  <2> HIDE DEF next
  <2> QED BY <1>1, <1>12 DEF Roots
<1> HIDE DEF next, idx
<1> QED BY <1>1, <1>5, <1>6, <1>7, <1>9, <1>10, <1>11, <1>14, <1>15 DEF OpOK, RestOK, next, idx

\* The actions of maintenance keep the types.
LEMMA MaintainStepType ==
    ASSUME OpOK, RestOK, NEW m \in Actors, StartMaintain(m) \/ MaintainStep(m)
    PROVE  OpOK' /\ RestOK'
<1>0. mode \in [Actors -> Modes] /\ mode[m] \in Modes
  BY DEF OpOK
<1>1. CASE StartMaintain(m)
  <2>1. PICK apply \in BOOLEAN : mode' = [mode EXCEPT ![m].apply = apply]
    BY <1>1 DEF StartMaintain
  <2>2. [mode[m] EXCEPT !.apply = apply] \in Modes
    BY <1>0 DEF Modes
  <2>3. mode' \in [Actors -> Modes]
    BY <1>0, <2>1, <2>2
  <2>4. "list" \in Phases /\ Start(m, "list") /\ UNCHANGED <<work, want>>
    BY <1>1 DEF StartMaintain, Phases
  <2> QED BY <2>3, <2>4, StartType DEF OpOK
<1>2. CASE ListObjects(m)
  <2>1. RestOK'
    BY <1>2 DEF ListObjects, RestOK, store, late
  <2>2. CASE \E o : Return(m, o)
    BY <2>1, <2>2, ReturnType
  <2>3. CASE ~ \E o : Return(m, o)
    <3>1. PICK s \in SUBSET Listed(m) :
            /\ cand' = [cand EXCEPT ![m] = @ \cup s]
            /\ IF mode[m].ns = Len(Namespaces)
               THEN pc' = [pc EXCEPT ![m] = "load"] /\ UNCHANGED mode
               ELSE mode' = [mode EXCEPT ![m].ns = @ + 1] /\ UNCHANGED pc
            /\ UNCHANGED <<loaded, draft, todo, tries, work, want, reply>>
      BY <1>2, <2>3, Zenon DEF ListObjects
    <3>2. s \subseteq ObjectIds
      BY DEF Listed, RestOK
    <3>3. cand' \in [Actors -> SUBSET ObjectIds]
      BY <3>1, <3>2 DEF OpOK
    <3>4. pc' \in [Actors -> Phases]
      BY <3>1 DEF OpOK, Phases
    <3>5. mode' \in [Actors -> Modes]
      <4>1. Len(Namespaces) = 3
        BY DEF Namespaces
      <4>2. CASE UNCHANGED mode
        BY <1>0, <4>2
      <4>3. CASE mode[m].ns # 3 /\ mode' = [mode EXCEPT ![m].ns = @ + 1]
        <5>1. [mode[m] EXCEPT !.ns = mode[m].ns + 1] \in Modes
          BY <1>0, <4>3 DEF Modes
        <5> QED BY <1>0, <4>3, <5>1
      <4> QED BY <3>1, <4>1, <4>2, <4>3
    <3> QED BY <2>1, <3>1, <3>3, <3>4, <3>5 DEF OpOK
  <2> QED BY <2>2, <2>3
<1>3. CASE LoadMaintain(m)
  <2>1. "trace" \in Phases /\ Load(m, "trace") /\ UNCHANGED <<work, want>>
    BY <1>3 DEF LoadMaintain, Phases
  <2> QED BY <2>1, LoadType DEF OpOK
<1>4. CASE Plan(m)
  <2>1. UNCHANGED <<store, late, calls, failures, got, acked>>
    BY <1>4 DEF Plan
  <2>2. CASE pc' = [pc EXCEPT ![m] = "idle"]
    <3>1. (\E o : Return(m, o)) /\ UNCHANGED made
      <4>1. pc'[m] = "idle"
        BY <2>2 DEF OpOK
      <4>2. pc' # [pc EXCEPT ![m] = "write"]
        BY <4>1 DEF OpOK
      <4> QED BY <1>4, <4>2, Zenon DEF Plan
    <3> QED BY <2>1, <3>1, ReturnType DEF RestOK, store, late
  <2>3. CASE pc' # [pc EXCEPT ![m] = "idle"]
    <3>1. /\ draft'[m] \in Roots /\ draft' = [draft EXCEPT ![m] = draft'[m]]
          /\ todo'[m] \subseteq ObjectIds /\ todo' = [todo EXCEPT ![m] = todo'[m]]
          /\ made'[m] \in Nat /\ made' = [made EXCEPT ![m] = made'[m]]
          /\ cand' = [cand EXCEPT ![m] = cand[m] \ Reach(draft'[m])]
          /\ pc' = [pc EXCEPT ![m] = "write"]
          /\ UNCHANGED <<loaded, tries, work, mode, want, reply>>
      BY <1>4, <2>3, PlanFacts
    <3>2. /\ draft' \in [Actors -> Roots] /\ todo' \in [Actors -> SUBSET ObjectIds]
          /\ made' \in [Actors -> Nat]
      BY <3>1 DEF OpOK, RestOK
    <3>3. cand' \in [Actors -> SUBSET ObjectIds] /\ pc' \in [Actors -> Phases]
      BY <3>1 DEF OpOK, Phases
    <3> QED BY <2>1, <3>1, <3>2, <3>3 DEF OpOK, RestOK, store, late
  <2> QED BY <2>2, <2>3
<1>5. CASE TraceBudget(m)
  BY <1>5, ReturnType DEF TraceBudget, RestOK, store, late
<1>6. CASE PublishRetention(m)
  <2>1. loaded[m] \in Roots /\ draft[m] \in Roots /\ Publish(loaded[m], draft[m])
    BY <1>6 DEF PublishRetention, OpOK
  <2>2. root' \in Roots /\ history' \in Seq(Descriptors)
    BY <2>1, PublishType
  <2>3. [mode[m] EXCEPT !.published = TRUE] \in Modes
    BY <1>0 DEF Modes
  <2>4. mode' \in [Actors -> Modes]
    BY <1>0, <1>6, <2>3 DEF PublishRetention
  <2> QED BY <1>6, <2>1, <2>2, <2>4, StateTypes DEF PublishRetention, OpOK, RestOK, late, Phases
<1>7. CASE AuthoriseDeletion(m)
  BY <1>7 DEF AuthoriseDeletion, OpOK, RestOK, store, late, Phases
<1>8. CASE DeleteObject(m)
  BY <1>8 DEF DeleteObject, OpOK, RestOK, late
<1>9. CASE FinishMaintain(m)
  BY <1>9, ReturnType DEF FinishMaintain, RestOK, store, late
<1> QED BY <1>1, <1>2, <1>3, <1>4, <1>5, <1>6, <1>7, <1>8, <1>9 DEF MaintainStep

(***************************************************************************)
(* Every step of the specification preserves the type invariant.           *)
(***************************************************************************)
LEMMA NextType == TypeOK /\ [Next]_vars => TypeOK'
<1> SUFFICES ASSUME OpOK, RestOK, [Next]_vars
             PROVE  OpOK' /\ RestOK'
  BY DEF TypeOK, OpOK, RestOK
<1>1. CASE \E a \in Appenders : StartAppend(a) \/ AppendStep(a)
  BY <1>1, AppendStepType DEF Actors
<1>2. CASE \E f \in Fetchers : StartFetch(f) \/ FetchStep(f)
  BY <1>2, FetchStepType DEF Actors
<1>3. CASE \E m \in Maintainers : StartMaintain(m) \/ MaintainStep(m)
  BY <1>3, MaintainStepType DEF Actors
<1>4. CASE \E x \in Actors : \/ PutObject(x) \/ LoseRace(x) \/ MissingRead(x)
                             \/ StaleMissing(x) \/ Fail(x)
  BY <1>4, StoreStepType
<1>5. CASE LatePut \/ LateDelete \/ LateCas
  BY <1>5, LateStepType
<1>6. CASE UNCHANGED vars
  <2>1. UNCHANGED <<objects, root, history, latePuts, lateDels, lateCas, made, calls, failures, got>>
    BY <1>6 DEF vars, store, late
  <2>2. UNCHANGED <<pc, loaded, draft, todo, tries, work, cand, mode, want>>
    BY <1>6 DEF vars, op
  <2>3. OpOK'
    BY <2>2 DEF OpOK
  <2>4. RestOK'
    BY <2>1 DEF RestOK
  <2> QED BY <2>3, <2>4
<1> QED BY <1>1, <1>2, <1>3, <1>4, <1>5, <1>6 DEF Next, Step

(***************************************************************************)
(* Type correctness of append, fetch and maintenance for any number of     *)
(* brokers, producers, requests, page sizes and failures.                  *)
(***************************************************************************)
THEOREM TypeCorrect == Spec => []TypeOK
<1>1. Init => TypeOK
  BY InitType
<1>2. TypeOK /\ [Next]_vars => TypeOK'
  BY NextType
<1> QED BY <1>1, <1>2, PTL DEF Spec
=============================================================================
