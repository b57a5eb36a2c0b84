------------------------- MODULE PartitionLogSafety -------------------------
(***************************************************************************)
(* Why collection is safe: LiveGraphPresent and NoIntegrityFailure for any *)
(* number of brokers, maintenance processes, crashes and late requests.    *)
(*                                                                         *)
(* LiveGraphPresent is not inductive: a collector deletes long after it    *)
(* published, when another root may be current, and a writer publishes     *)
(* objects a collector may have listed before they were referenced.  The   *)
(* strengthening speaks about the objects that are doomed (a collector or  *)
(* a late DELETE may still remove them) and about the drafts that can      *)
(* still win their conditional write: no such draft reaches a doomed       *)
(* object.  It is kept because every publication has a new revision, so    *)
(* that drafts based on an older root can no longer win, and because       *)
(* drafts based on the new root only add names drawn after the listing.    *)
(***************************************************************************)
EXTENDS PartitionLogProofs

Doomed(x) ==
    CASE pc[x] = "delete" -> cand[x]
      [] pc[x] = "retrace" -> cand[x] \ Reach(loaded[x])
      [] OTHER -> {}

AllDoomed == lateDels \cup UNION {Doomed(x) : x \in Actors}

\* Objects that exist, or that somebody may still create or delete.
Known ==
    objects \cup latePuts \cup lateDels \cup UNION {cand[x] \cup todo[x] : x \in Actors}

\* Every known object has a name drawn earlier: names drawn from now on are new.
NamesDrawn == \A o \in Known : o.by \in Actors => o.n < made[o.by]

\* A root that may become current reaches what exists or is still to be
\* created by its writer, and nothing that is doomed.
SafeDraft(r, t) == Reach(r) \subseteq objects \cup t /\ AllDoomed \cap Reach(r) = {}

\* What holds of one operation.
ActorSafe(x) ==
    /\ loaded[x].rev <= root.rev
    /\ pc[x] = "write" =>
           /\ draft[x].rev > loaded[x].rev
           /\ loaded[x] = root => SafeDraft(draft[x], todo[x])
    /\ pc[x] = "check" => loaded[x] # root
    /\ pc[x] = "read" => SegObjects(want[x].segs) \subseteq SegObjects(loaded[x].segs)

\* What holds of a conditional write that may still arrive.
CasSafe(q) ==
    /\ q.expect.rev <= root.rev
    /\ q.new.rev > q.expect.rev
    /\ q.expect = root => SafeDraft(q.new, {})

(***************************************************************************)
(* The inductive invariant behind collection.                              *)
(***************************************************************************)
GcInv ==
    /\ NamesDrawn
    /\ AllDoomed \cap Reach(root) = {}
    /\ LiveGraphPresent
    /\ \A x \in Actors : ActorSafe(x)
    /\ \A q \in lateCas : CasSafe(q)

-----------------------------------------------------------------------------
(* Frame lemmas: what a step leaves alone stays safe.                      *)

Untouched(x) ==
    /\ pc'[x] = pc[x] /\ loaded'[x] = loaded[x] /\ draft'[x] = draft[x]
    /\ todo'[x] = todo[x] /\ cand'[x] = cand[x] /\ want'[x] = want[x]
    /\ made'[x] = made[x]

\* A step that keeps the root, dooms nothing more and removes only doomed
\* objects keeps the invariant if it keeps what it touches safe.
LEMMA SameRoot ==
    ASSUME OpOK, RestOK, GcInv, root' = root, AllDoomed' \subseteq AllDoomed,
           objects \ AllDoomed \subseteq objects', NamesDrawn',
           \A y \in Actors : Untouched(y) \/ ActorSafe(y)',
           \A q \in lateCas' : q \in lateCas \/ CasSafe(q)'
    PROVE  GcInv'
<1>1. AllDoomed' \cap Reach(root)' = {}
  BY DEF GcInv, Reach
<1>2. Reach(root) \subseteq objects'
  BY DEF GcInv, LiveGraphPresent
<1>3. ASSUME NEW r, NEW t, SafeDraft(r, t) PROVE Reach(r) \subseteq objects' \cup t /\ AllDoomed' \cap Reach(r) = {}
  BY <1>3 DEF SafeDraft
<1>4. ASSUME NEW y \in Actors PROVE ActorSafe(y)'
  <2>1. CASE Untouched(y)
    <3>1. ActorSafe(y)
      BY DEF GcInv
    <3> QED BY <1>3, <2>1, <3>1 DEF Untouched, ActorSafe, SafeDraft, Reach
  <2> QED BY <2>1
<1>5. ASSUME NEW q \in lateCas' PROVE CasSafe(q)'
  <2>1. CASE q \in lateCas
    <3>1. CasSafe(q)
      BY <2>1 DEF GcInv
    <3> QED BY <1>3, <3>1 DEF CasSafe, SafeDraft, Reach
  <2> QED BY <1>5, <2>1
<1> QED BY <1>1, <1>2, <1>4, <1>5 DEF GcInv, LiveGraphPresent, Reach

\* A step that publishes a safe root with a new revision keeps the
\* invariant: whoever loaded an older root can no longer win.
LEMMA NewRoot ==
    ASSUME OpOK, RestOK, GcInv, root' \in Roots, root'.rev > root.rev,
           Reach(root') \subseteq objects, AllDoomed' \cap Reach(root') = {},
           objects' = objects, NamesDrawn', lateCas' \subseteq lateCas,
           \A y \in Actors : Untouched(y) \/ ActorSafe(y)'
    PROVE  GcInv'
<1>1. root.rev \in Nat /\ root'.rev \in Nat
  BY DEF RestOK, Roots
<1>2. ASSUME NEW y \in Actors PROVE ActorSafe(y)'
  <2>1. CASE Untouched(y)
    <3>1. ActorSafe(y) /\ loaded[y] \in Roots
      BY DEF GcInv, OpOK
    <3>2. loaded[y].rev \in Nat /\ loaded[y].rev < root'.rev
      BY <1>1, <3>1 DEF ActorSafe, Roots
    <3>3. loaded'[y] = loaded[y] /\ loaded'[y] # root'
      BY <2>1, <1>1, <3>2 DEF Untouched
    <3> QED BY <1>1, <2>1, <3>1, <3>2, <3>3 DEF Untouched, ActorSafe
  <2> QED BY <2>1
<1>3. ASSUME NEW q \in lateCas' PROVE CasSafe(q)'
  <2>1. CasSafe(q) /\ q.expect \in Roots
    BY <1>3 DEF GcInv, RestOK
  <2>2. q.expect.rev \in Nat /\ q.expect.rev < root'.rev
    BY <1>1, <2>1 DEF CasSafe, Roots
  <2> QED BY <1>1, <2>1, <2>2 DEF CasSafe
<1> QED BY <1>2, <1>3 DEF GcInv, LiveGraphPresent, Reach

\* What is doomed, when one operation x moves or none does.
LEMMA DoomedKept ==
    ASSUME NEW T \in SUBSET Actors,
           \A y \in Actors \ T : Untouched(y),
           \A y \in T : Doomed(y)' \subseteq AllDoomed,
           lateDels' \subseteq AllDoomed
    PROVE  AllDoomed' \subseteq AllDoomed
<1>1. ASSUME NEW y \in Actors \ T PROVE Doomed(y)' \subseteq AllDoomed
  <2>1. Doomed(y)' = Doomed(y)
    BY <1>1 DEF Untouched, Doomed, Reach
  <2> QED BY <2>1 DEF AllDoomed
<1> QED BY <1>1 DEF AllDoomed

\* Names stay new as long as everybody draws them from the own counter.
LEMMA NamesKept ==
    ASSUME OpOK, RestOK, NamesDrawn, NEW T \in SUBSET Actors,
           \A y \in Actors \ T : Untouched(y),
           \A y \in T : /\ made'[y] \in Nat /\ made'[y] >= made[y]
                        /\ cand'[y] \subseteq Known
                        /\ todo'[y] \subseteq ObjectIds
                        /\ \A o \in todo'[y] \ Known : o.by = y /\ o.n < made'[y],
           objects' \subseteq Known, latePuts' \subseteq Known, lateDels' \subseteq Known
    PROVE  NamesDrawn'
<1>1. Known \subseteq ObjectIds
  BY DEF Known, OpOK, RestOK
<1>2. ASSUME NEW o \in Known, o.by \in Actors PROVE o.n < made'[o.by]
  <2>1. o.n < made[o.by] /\ o.n \in Nat /\ made[o.by] \in Nat
    BY <1>1, <1>2 DEF NamesDrawn, RestOK, ObjectIds
  <2>2. made'[o.by] = made[o.by] \/ (made'[o.by] \in Nat /\ made'[o.by] >= made[o.by])
    BY <1>2 DEF Untouched
  <2> QED BY <2>1, <2>2
<1>3. ASSUME NEW o \in Known', o \notin Known PROVE o.by \in Actors => o.n < made'[o.by]
  <2>1. PICK y \in Actors : o \in cand'[y] \/ o \in todo'[y]
    BY <1>3 DEF Known
  <2>2. CASE y \in T
    BY <1>3, <2>1, <2>2
  <2>3. CASE y \notin T
    BY <1>3, <2>1, <2>3 DEF Untouched, Known
  <2> QED BY <2>2, <2>3
<1> QED BY <1>2, <1>3 DEF NamesDrawn

-----------------------------------------------------------------------------
(* Steps that end a call or an attempt.                                    *)

Reset(x) ==
    /\ pc'[x] \in {"idle", "list", "load"}
    /\ loaded'[x] = EmptyRoot /\ todo'[x] = {} /\ cand'[x] = {}
    /\ \A y \in Actors \ {x} :
           /\ pc'[y] = pc[y] /\ loaded'[y] = loaded[y] /\ draft'[y] = draft[y]
           /\ todo'[y] = todo[y] /\ cand'[y] = cand[y] /\ want'[y] = want[y]

\* The end of a call or of an attempt forgets what the operation kept.
LEMMA EndsReset ==
    ASSUME OpOK, NEW x \in Actors, (\E o : Return(x, o)) \/ Again(x)
    PROVE  Reset(x)
<1>1. ASSUME NEW o, Return(x, o) PROVE Reset(x)
  BY <1>1 DEF Return, Reset, OpOK
<1>2. CASE Again(x) /\ ~(\E o : Return(x, o))
  <2>1. /\ pc' = [pc EXCEPT ![x] = IF x \in Maintainers THEN "list" ELSE "load"]
        /\ loaded' = [loaded EXCEPT ![x] = EmptyRoot]
        /\ draft' = [draft EXCEPT ![x] = EmptyRoot]
        /\ todo' = [todo EXCEPT ![x] = {}]
        /\ cand' = [cand EXCEPT ![x] = {}]
        /\ want' = [want EXCEPT ![x].segs = <<>>]
    BY <1>2 DEF Again
  <2> QED BY <2>1 DEF Reset, OpOK
<1> QED BY <1>1, <1>2

\* What a reset operation leaves behind is safe.
LEMMA ResetSafe ==
    ASSUME OpOK, RestOK, NEW x \in Actors, Reset(x), root' \in Roots
    PROVE  ActorSafe(x)' /\ Doomed(x)' = {}
<1>1. EmptyRoot.rev = 0 /\ root'.rev \in Nat
  BY DEF EmptyRoot, Roots
<1>2. ActorSafe(x)'
  BY <1>1 DEF Reset, ActorSafe
<1>3. Doomed(x)' = {}
  BY DEF Reset, Doomed
<1> QED BY <1>2, <1>3

\* An operation that ends, possibly with its last request still under way.
LEMMA CallEnds ==
    ASSUME OpOK, RestOK, GcInv, NEW x \in Actors, Reset(x),
           UNCHANGED <<root, objects, made>>,
           lateDels' \subseteq lateDels \cup Doomed(x),
           latePuts' \subseteq latePuts \cup todo[x],
           \A q \in lateCas' :
               \/ q \in lateCas
               \/ pc[x] = "write" /\ todo[x] = {} /\ q = [expect |-> loaded[x], new |-> draft[x]]
    PROVE  GcInv'
<1>1. ActorSafe(x)' /\ Doomed(x)' = {}
  BY ResetSafe DEF RestOK
<1>2. \A y \in Actors \ {x} : Untouched(y)
  BY DEF Reset, Untouched
<1>3. AllDoomed' \subseteq AllDoomed
  <2>1. lateDels' \subseteq AllDoomed
    BY DEF AllDoomed
  <2>2. {x} \in SUBSET Actors /\ \A y \in {x} : Doomed(y)' \subseteq AllDoomed
    BY <1>1
  <2> QED BY <1>2, <2>1, <2>2, DoomedKept
<1>4. NamesDrawn'
  <2>1. Doomed(x) \subseteq Known /\ todo[x] \subseteq Known
    BY DEF Doomed, Known
  <2>2. objects' \subseteq Known /\ latePuts' \subseteq Known /\ lateDels' \subseteq Known
    BY <2>1 DEF Known
  <2>3. made'[x] \in Nat /\ made'[x] >= made[x] /\ cand'[x] = {} /\ todo'[x] = {}
    BY DEF RestOK, Reset
  <2>4. NamesDrawn
    BY DEF GcInv
  <2>5. {x} \in SUBSET Actors
    OBVIOUS
  <2> QED BY <1>2, <2>2, <2>3, <2>4, <2>5, NamesKept
<1>5. ASSUME NEW q \in lateCas', q \notin lateCas PROVE CasSafe(q)'
  <2>1. pc[x] = "write" /\ todo[x] = {} /\ q.expect = loaded[x] /\ q.new = draft[x]
    BY <1>5
  <2>2. ActorSafe(x)
    BY DEF GcInv
  <2> QED BY <1>3, <2>1, <2>2 DEF ActorSafe, CasSafe, SafeDraft, Reach
<1>6. objects \ AllDoomed \subseteq objects'
  OBVIOUS
<1> QED BY <1>1, <1>2, <1>3, <1>4, <1>5, <1>6, SameRoot

\* The operation fails and its last request may arrive later.
LEMMA FailSafe ==
    ASSUME OpOK, RestOK, GcInv, NEW x \in Actors, Fail(x)
    PROVE  GcInv'
<1>1. Reset(x)
  BY EndsReset DEF Fail
<1>2. UNCHANGED <<root, objects, made>>
  BY DEF Fail, store
<1>3. \/ lateDels' = lateDels
      \/ pc[x] = "delete" /\ \E o \in cand[x] : lateDels' = lateDels \cup {o}
  BY DEF Fail, late
<1>4. lateDels' \subseteq lateDels \cup Doomed(x)
  BY <1>3 DEF Doomed
<1>5. latePuts' \subseteq latePuts \cup todo[x]
  BY DEF Fail, late
<1>6. \A q \in lateCas' :
               \/ q \in lateCas
               \/ pc[x] = "write" /\ todo[x] = {} /\ q = [expect |-> loaded[x], new |-> draft[x]]
  BY DEF Fail, late
<1> QED BY <1>1, <1>2, <1>4, <1>5, <1>6, CallEnds

\* The ends of calls that leave the store and the late requests alone.
LEMMA QuietEnd ==
    ASSUME OpOK, RestOK, GcInv, NEW x \in Actors, (\E o : Return(x, o)) \/ Again(x),
           UNCHANGED <<store, late, made>>
    PROVE  GcInv'
<1>1. Reset(x)
  BY EndsReset
<1>2. UNCHANGED <<root, objects, made, latePuts, lateDels, lateCas>>
  BY DEF store, late
<1> QED BY <1>1, <1>2, CallEnds

-----------------------------------------------------------------------------
(* Steps in the middle of a call that write nothing.                       *)

\* A step of x that keeps the store, and whose operation is safe afterwards.
LEMMA QuietStep ==
    ASSUME OpOK, RestOK, GcInv, NEW x \in Actors, UNCHANGED <<store, late>>,
           \A y \in Actors \ {x} : Untouched(y),
           Doomed(x)' \subseteq Doomed(x), cand'[x] \subseteq Known,
           made'[x] \in Nat, made'[x] >= made[x], todo'[x] \subseteq ObjectIds,
           \A o \in todo'[x] \ Known : o.by = x /\ o.n < made'[x],
           AllDoomed' \subseteq AllDoomed => ActorSafe(x)'
    PROVE  GcInv'
<1>1. UNCHANGED <<root, objects, latePuts, lateDels, lateCas>> /\ {x} \in SUBSET Actors
  BY DEF store, late
<1>2. AllDoomed' \subseteq AllDoomed
  <2>1. lateDels' \subseteq AllDoomed /\ \A y \in {x} : Doomed(y)' \subseteq AllDoomed
    BY <1>1 DEF AllDoomed
  <2> QED BY <1>1, <2>1, DoomedKept
<1>3. NamesDrawn'
  <2>1. objects' \subseteq Known /\ latePuts' \subseteq Known /\ lateDels' \subseteq Known /\ NamesDrawn
    BY <1>1 DEF Known, GcInv
  <2> QED BY <1>1, <2>1, NamesKept
<1> QED BY <1>1, <1>2, <1>3, SameRoot

\* A call starts, or an operation loads the root: nothing is at stake yet.
LEMMA BeginSafe ==
    ASSUME OpOK, RestOK, GcInv, NEW x \in Actors,
           NEW phase \in {"list", "load", "decide", "trace"}, Start(x, phase) \/ Load(x, phase),
           want' \in [Actors -> Wants], \A y \in Actors \ {x} : want'[y] = want[y]
    PROVE  GcInv'
<1>1. UNCHANGED <<store, late, made, draft, todo, cand>>
  BY DEF Start, Load
<1>2. /\ pc' = [pc EXCEPT ![x] = phase]
      /\ loaded'[x] \in {loaded[x], root}
      /\ \A y \in Actors \ {x} : loaded'[y] = loaded[y]
  BY DEF Start, Load, OpOK
<1>3. pc'[x] = phase /\ \A y \in Actors \ {x} : Untouched(y)
  BY <1>1, <1>2 DEF Untouched, OpOK
<1>4. Doomed(x)' \subseteq Doomed(x)
  BY <1>3 DEF Doomed
<1>5. ActorSafe(x)'
  <2>1. loaded[x].rev <= root.rev /\ root.rev \in Nat /\ root' = root
    BY <1>1 DEF GcInv, ActorSafe, RestOK, Roots, store
  <2> QED BY <1>2, <1>3, <2>1 DEF ActorSafe
<1>6. /\ made'[x] \in Nat /\ made'[x] >= made[x]
      /\ cand'[x] \subseteq Known /\ todo'[x] \subseteq Known /\ todo'[x] \subseteq ObjectIds
  BY <1>1 DEF OpOK, RestOK, Known
<1> QED BY <1>1, <1>3, <1>4, <1>5, <1>6, QuietStep

\* A fetch selects segments of the root it loaded.
LEMMA SelectSafe ==
    ASSUME OpOK, RestOK, GcInv, NEW f \in Actors, Load(f, "read"),
           \E i \in First(root.segs, want[f].offset) : \E j \in i - 1 .. Len(root.segs) :
               want' = [want EXCEPT ![f].segs = SubSeq(root.segs, i, j)]
    PROVE  GcInv'
<1>1. PICK i \in First(root.segs, want[f].offset) : \E j \in i - 1 .. Len(root.segs) :
          want' = [want EXCEPT ![f].segs = SubSeq(root.segs, i, j)]
  OBVIOUS
<1>2. PICK j \in i - 1 .. Len(root.segs) :
          want' = [want EXCEPT ![f].segs = SubSeq(root.segs, i, j)]
  BY <1>1
<1>3. root \in Roots /\ root.segs \in Seq(Descriptors)
  BY DEF RestOK, Roots
<1>4. i \in 1 .. Len(root.segs)
  BY <1>3 DEF First, From
<1>5. SegObjects(SubSeq(root.segs, i, j)) \subseteq SegObjects(root.segs)
  BY <1>3, <1>4 DEF SegObjects
<1>6. want'[f].segs = SubSeq(root.segs, i, j) /\ \A y \in Actors \ {f} : want'[y] = want[y]
  <2>1. want \in [Actors -> Wants] /\ want[f] \in Wants
    BY DEF OpOK
  <2>2. want'[f] = [want[f] EXCEPT !.segs = SubSeq(root.segs, i, j)]
    BY <1>2, <2>1
  <2>3. want'[f].segs = SubSeq(root.segs, i, j)
    BY <2>1, <2>2 DEF Wants
  <2>4. \A y \in Actors \ {f} : want'[y] = want[y]
    BY <1>2, <2>1
  <2> QED BY <2>3, <2>4
<1>7. UNCHANGED <<store, late, made, draft, todo, cand>>
  BY DEF Load
<1>8. pc'[f] = "read" /\ loaded'[f] = root /\ \A y \in Actors \ {f} : Untouched(y)
  BY <1>6, <1>7 DEF Load, Untouched, OpOK
<1>9. Doomed(f)' \subseteq Doomed(f)
  BY <1>8 DEF Doomed
<1>10. ActorSafe(f)'
  <2>1. root.rev \in Nat /\ root' = root
    BY <1>3, <1>7 DEF Roots, store
  <2>2. SegObjects(want'[f].segs) \subseteq SegObjects(loaded'[f].segs)
    BY <1>5, <1>6, <1>8, Zenon
  <2>3. loaded'[f].rev <= root'.rev
    BY <1>8, <2>1
  <2> QED BY <1>8, <2>2, <2>3 DEF ActorSafe, SegObjects
<1>11. /\ made'[f] \in Nat /\ made'[f] >= made[f]
       /\ cand'[f] \subseteq Known /\ todo'[f] \subseteq Known /\ todo'[f] \subseteq ObjectIds
  BY <1>7 DEF OpOK, RestOK, Known
<1> QED BY <1>7, <1>8, <1>9, <1>10, <1>11, QuietStep

\* A draft made from fresh names is safe while its base is the root.
LEMMA DraftSafe ==
    ASSUME OpOK, RestOK, GcInv, NEW x \in Actors, UNCHANGED <<store, late>>,
           pc' = [pc EXCEPT ![x] = "write"], UNCHANGED <<loaded, want>>,
           pc[x] \in {"decide", "trace"},
           draft' = [draft EXCEPT ![x] = draft'[x]],
           todo'[x] \subseteq ObjectIds, todo' = [todo EXCEPT ![x] = todo'[x]],
           made'[x] \in Nat, made' = [made EXCEPT ![x] = made'[x]],
           made'[x] >= made[x], Drawn(x, made[x]),
           draft'[x].rev > loaded[x].rev,
           Reach(draft'[x]) \subseteq Reach(loaded[x]) \cup todo'[x],
           cand'[x] \subseteq cand[x], \A y \in Actors \ {x} : cand'[y] = cand[y]
    PROVE  GcInv'
<1>1. pc'[x] = "write" /\ \A y \in Actors \ {x} : Untouched(y)
  BY DEF Untouched, OpOK, RestOK
<1>2. Doomed(x)' \subseteq Doomed(x)
  BY <1>1 DEF Doomed
<1>3. cand'[x] \subseteq Known
  BY DEF Known
<1>4. ASSUME AllDoomed' \subseteq AllDoomed PROVE ActorSafe(x)'
  <2>1. root' = root /\ objects' = objects /\ loaded'[x] = loaded[x]
    BY DEF store
  <2>2. ActorSafe(x) /\ NamesDrawn /\ AllDoomed \cap Reach(root) = {} /\ Reach(root) \subseteq objects
    BY DEF GcInv, LiveGraphPresent
  <2>3. AllDoomed \cap todo'[x] = {}
    <3>1. AllDoomed \subseteq Known /\ Known \subseteq ObjectIds
      BY DEF AllDoomed, Doomed, Known, OpOK, RestOK
    <3>2. \A o \in Known : o.by = x => o.n < made[x] /\ o.n \in Nat /\ made[x] \in Nat
      BY <2>2, <3>1 DEF NamesDrawn, RestOK, ObjectIds
    <3>3. \A o \in todo'[x] : o.by = x /\ o.n >= made[x]
      BY DEF Drawn
    <3> QED BY <3>1, <3>2, <3>3
  <2>4. loaded[x] = root =>
          Reach(draft'[x]) \subseteq objects \cup todo'[x] /\ AllDoomed \cap Reach(draft'[x]) = {}
    BY <2>2, <2>3
  <2> QED BY <1>1, <1>4, <2>1, <2>2, <2>4 DEF ActorSafe, SafeDraft, Reach
<1>5. \A o \in todo'[x] : o.by = x /\ o.n < made'[x]
  BY DEF Drawn
<1> QED BY <1>1, <1>2, <1>3, <1>4, <1>5, QuietStep

\* A step that only changes what the invariant does not look at.
LEMMA NothingMoves ==
    ASSUME OpOK, RestOK, GcInv, UNCHANGED <<store, late, made>>,
           UNCHANGED <<pc, loaded, draft, todo, cand, want>>
    PROVE  GcInv'
<1>1. UNCHANGED <<objects, root, latePuts, lateDels, lateCas>>
  BY DEF store, late
<1>2. AllDoomed' = AllDoomed /\ Known' = Known
  BY <1>1 DEF AllDoomed, Known, Doomed, Reach
<1>3. \A y \in Actors : Untouched(y)
  BY DEF Untouched
<1>4. NamesDrawn'
  BY <1>2 DEF GcInv, NamesDrawn
<1> QED BY <1>1, <1>2, <1>3, <1>4, SameRoot

\* The conditional write of a draft that ends its operation.
LEMMA PublishEnds ==
    ASSUME OpOK, RestOK, GcInv, NEW x \in Actors, Reset(x),
           pc[x] = "write", todo[x] = {}, root = loaded[x], root' = draft[x],
           UNCHANGED <<objects, latePuts, lateDels, lateCas, made>>
    PROVE  GcInv'
<1>1. ActorSafe(x) /\ draft[x] \in Roots
  BY DEF GcInv, OpOK
<1>2. root' \in Roots /\ root'.rev > root.rev /\ SafeDraft(root', {})
  BY <1>1 DEF ActorSafe
<1>3. ActorSafe(x)' /\ Doomed(x)' = {}
  BY <1>2, ResetSafe
<1>4. \A y \in Actors \ {x} : Untouched(y)
  BY DEF Reset, Untouched
<1>5. AllDoomed' \subseteq AllDoomed
  <2>1. {x} \in SUBSET Actors /\ lateDels' \subseteq AllDoomed
        /\ \A y \in {x} : Doomed(y)' \subseteq AllDoomed
    BY <1>3 DEF AllDoomed
  <2> QED BY <1>4, <2>1, DoomedKept
<1>6. NamesDrawn'
  <2>1. /\ NamesDrawn /\ {x} \in SUBSET Actors
        /\ objects' \subseteq Known /\ latePuts' \subseteq Known /\ lateDels' \subseteq Known
        /\ made'[x] \in Nat /\ made'[x] >= made[x] /\ cand'[x] = {} /\ todo'[x] = {}
    BY DEF GcInv, Known, RestOK, Reset
  <2> QED BY <1>4, <2>1, NamesKept
<1>7. Reach(root') \subseteq objects /\ AllDoomed' \cap Reach(root') = {}
  BY <1>2, <1>5 DEF SafeDraft
<1> QED BY <1>2, <1>3, <1>4, <1>6, <1>7, NewRoot

-----------------------------------------------------------------------------
(* The actions of an append.                                               *)

\* No action of an append breaks the invariant.
LEMMA AppendSafe ==
    ASSUME OpOK, RestOK, GcInv, NEW a \in Actors, StartAppend(a) \/ AppendStep(a)
    PROVE  GcInv'
<1>1. CASE StartAppend(a) \/ LoadAppend(a)
  <2>1. (Start(a, "load") \/ Load(a, "decide")) /\ want' = want
    BY <1>1 DEF StartAppend, LoadAppend
  <2> QED BY <2>1, BeginSafe DEF OpOK
<1>2. CASE Decide(a)
  <2>1. UNCHANGED <<store, late, made>>
    BY <1>2 DEF Decide
  <2>2. CASE \E o : Return(a, o)
    BY <2>1, <2>2, QuietEnd
  <2>3. CASE ~\E o : Return(a, o)
    <3>1. UNCHANGED <<pc, loaded, draft, todo, cand, want>> /\ pc[a] = "decide"
      BY <1>2, <2>3 DEF Decide
    <3> QED BY <2>1, <3>1, NothingMoves
  <2> QED BY <2>2, <2>3
<1>3. CASE AnswerDuplicates(a)
  BY <1>3, QuietEnd DEF AnswerDuplicates
<1>4. CASE Prepare(a)
  <2>1. /\ UNCHANGED <<store, late, loaded, want, cand>>
        /\ pc' = [pc EXCEPT ![a] = "write"] /\ pc[a] = "decide"
    BY <1>4 DEF Prepare, Decided
  <2> QED BY <1>4, <2>1, PrepareFacts, DraftSafe
<1>5. CASE CommitAppend(a)
  <2>1. /\ pc[a] = "write" /\ todo[a] = {} /\ root = loaded[a] /\ root' = draft[a]
        /\ UNCHANGED <<objects, latePuts, lateDels, lateCas, made>>
    BY <1>5 DEF CommitAppend, Holds, Publish, late
  <2>2. Reset(a)
    BY <1>5, EndsReset DEF CommitAppend
  <2> QED BY <2>1, <2>2, PublishEnds
<1> QED BY <1>1, <1>2, <1>3, <1>4, <1>5 DEF AppendStep

-----------------------------------------------------------------------------
(* The actions of a fetch.                                                 *)

\* No action of a fetch breaks the invariant.
LEMMA FetchSafe ==
    ASSUME OpOK, RestOK, GcInv, NEW f \in Actors, StartFetch(f) \/ FetchStep(f)
    PROVE  GcInv'
<1>1. CASE StartFetch(f)
  <2>1. PICK o \in 0 .. root.next + 1 : want' = [want EXCEPT ![f].offset = o]
    BY <1>1 DEF StartFetch
  <2>2. OpOK'
    BY FetchStepType
  <2>3. Start(f, "load") /\ want' \in [Actors -> Wants] /\ \A y \in Actors \ {f} : want'[y] = want[y]
    BY <1>1, <2>1, <2>2 DEF StartFetch, OpOK
  <2> QED BY <2>3, BeginSafe
<1>2. CASE LoadFetch(f)
  <2>1. CASE (\E o : Return(f, o)) /\ UNCHANGED <<store, late, made>>
    BY <2>1, QuietEnd
  <2>2. CASE /\ Load(f, "read")
             /\ \E i \in First(root.segs, want[f].offset) : \E j \in i - 1 .. Len(root.segs) :
                    want' = [want EXCEPT ![f].segs = SubSeq(root.segs, i, j)]
    BY <2>2, SelectSafe
  <2> QED BY <1>2, <2>1, <2>2 DEF LoadFetch
<1>3. CASE FinishFetch(f)
  BY <1>3, QuietEnd DEF FinishFetch
<1> QED BY <1>1, <1>2, <1>3 DEF FetchStep

-----------------------------------------------------------------------------
(* Creation and deletion of objects, and the publication of a retained     *)
(* range.                                                                  *)

\* An object of the draft comes into being.
LEMMA PutSafe ==
    ASSUME OpOK, RestOK, GcInv, NEW x \in Actors, PutObject(x)
    PROVE  GcInv'
<1>1. PICK o \in todo[x] : objects' = objects \cup {o} /\ todo' = [todo EXCEPT ![x] = @ \ {o}]
  BY DEF PutObject
<1>2. /\ UNCHANGED <<root, latePuts, lateDels, lateCas, pc, loaded, draft, made, cand, want>>
      /\ pc[x] = "write"
  BY DEF PutObject, late
<1>3. todo'[x] = todo[x] \ {o} /\ \A y \in Actors \ {x} : Untouched(y)
  BY <1>1, <1>2 DEF Untouched, OpOK
<1>4. AllDoomed' = AllDoomed
  BY <1>2 DEF AllDoomed, Doomed, Reach
<1>5. NamesDrawn'
  <2>1. /\ NamesDrawn /\ {x} \in SUBSET Actors
        /\ objects' \subseteq Known /\ latePuts' \subseteq Known /\ lateDels' \subseteq Known
        /\ made'[x] \in Nat /\ made'[x] >= made[x]
        /\ cand'[x] \subseteq Known /\ todo'[x] \subseteq Known /\ todo'[x] \subseteq ObjectIds
    BY <1>1, <1>2, <1>3 DEF GcInv, Known, OpOK, RestOK
  <2> QED BY <1>3, <2>1, NamesKept
<1>6. ActorSafe(x)'
  <2>1. ActorSafe(x)
    BY DEF GcInv
  <2>2. objects \cup todo[x] \subseteq objects' \cup todo'[x]
    BY <1>1, <1>3
  <2> QED BY <1>2, <1>4, <2>1, <2>2 DEF ActorSafe, SafeDraft, Reach
<1>7. objects \ AllDoomed \subseteq objects'
  BY <1>1
<1> QED BY <1>2, <1>3, <1>4, <1>5, <1>6, <1>7, SameRoot

\* A collector removes a candidate, which is doomed.
LEMMA DeleteSafe ==
    ASSUME OpOK, RestOK, GcInv, NEW m \in Actors, DeleteObject(m)
    PROVE  GcInv'
<1>1. PICK o \in cand[m] : objects' = objects \ {o} /\ cand' = [cand EXCEPT ![m] = @ \ {o}]
  BY DEF DeleteObject
<1>2. /\ UNCHANGED <<root, latePuts, lateDels, lateCas, pc, loaded, draft, todo, made, want>>
      /\ pc[m] = "delete"
  BY DEF DeleteObject, late
<1>3. cand'[m] = cand[m] \ {o} /\ \A y \in Actors \ {m} : Untouched(y)
  BY <1>1, <1>2 DEF Untouched, OpOK
<1>4. o \in AllDoomed /\ Doomed(m)' \subseteq Doomed(m) /\ Doomed(m) \subseteq AllDoomed
  BY <1>2, <1>3 DEF AllDoomed, Doomed
<1>5. AllDoomed' \subseteq AllDoomed
  <2>1. {m} \in SUBSET Actors /\ lateDels' \subseteq AllDoomed
        /\ \A y \in {m} : Doomed(y)' \subseteq AllDoomed
    BY <1>2, <1>4 DEF AllDoomed
  <2> QED BY <1>3, <2>1, DoomedKept
<1>6. NamesDrawn'
  <2>1. /\ NamesDrawn /\ {m} \in SUBSET Actors
        /\ objects' \subseteq Known /\ latePuts' \subseteq Known /\ lateDels' \subseteq Known
        /\ made'[m] \in Nat /\ made'[m] >= made[m]
        /\ cand'[m] \subseteq Known /\ todo'[m] \subseteq Known /\ todo'[m] \subseteq ObjectIds
    BY <1>1, <1>2, <1>3 DEF GcInv, Known, OpOK, RestOK
  <2> QED BY <1>3, <2>1, NamesKept
<1>7. ActorSafe(m)'
  <2>1. ActorSafe(m)
    BY DEF GcInv
  <2> QED BY <1>2, <2>1 DEF ActorSafe
<1>8. objects \ AllDoomed \subseteq objects'
  BY <1>1, <1>4
<1> QED BY <1>2, <1>3, <1>5, <1>6, <1>7, <1>8, SameRoot

\* Requests of operations that are long gone arrive.
LEMMA LateSafe ==
    ASSUME OpOK, RestOK, GcInv, LatePut \/ LateDelete \/ LateCas
    PROVE  GcInv'
<1>1. UNCHANGED <<pc, loaded, draft, todo, cand, want, made>>
  BY DEF LatePut, LateDelete, LateCas, op
<1>2. /\ \A y \in Actors : Untouched(y)
      /\ \A y \in Actors \ {} : Untouched(y)
  BY <1>1 DEF Untouched
<1>3. AllDoomed \subseteq Known /\ NamesDrawn /\ {} \in SUBSET Actors
  BY DEF AllDoomed, Doomed, Known, GcInv
<1>4. ASSUME lateDels' \subseteq lateDels PROVE AllDoomed' \subseteq AllDoomed
  BY <1>2, <1>3, <1>4, DoomedKept DEF AllDoomed
<1>5. ASSUME objects' \subseteq Known, latePuts' \subseteq Known, lateDels' \subseteq Known PROVE NamesDrawn'
  BY <1>2, <1>3, <1>5, NamesKept
<1>6. CASE LatePut
  <2>1. PICK o \in latePuts : objects' = objects \cup {o} /\ latePuts' = latePuts \ {o}
    BY <1>6 DEF LatePut
  <2>2. UNCHANGED <<root, lateDels, lateCas>>
    BY <1>6 DEF LatePut
  <2>3. NamesDrawn' /\ AllDoomed' \subseteq AllDoomed
    BY <1>4, <1>5, <2>1, <2>2 DEF Known
  <2> QED BY <1>2, <2>1, <2>2, <2>3, SameRoot
<1>7. CASE LateDelete
  <2>1. PICK o \in lateDels : objects' = objects \ {o} /\ lateDels' = lateDels \ {o}
    BY <1>7 DEF LateDelete
  <2>2. UNCHANGED <<root, latePuts, lateCas>> /\ o \in AllDoomed
    BY <1>7 DEF LateDelete, AllDoomed
  <2>3. NamesDrawn' /\ AllDoomed' \subseteq AllDoomed
    BY <1>4, <1>5, <2>1, <2>2 DEF Known
  <2> QED BY <1>2, <2>1, <2>2, <2>3, SameRoot
<1>8. CASE LateCas
  <2>1. PICK q \in lateCas : /\ lateCas' = lateCas \ {q}
                             /\ \/ root = q.expect /\ root' = q.new
                                \/ UNCHANGED root
    BY <1>8 DEF LateCas, Holds, Publish
  <2>2. UNCHANGED <<objects, latePuts, lateDels>>
    BY <1>8 DEF LateCas
  <2>3. NamesDrawn' /\ AllDoomed' \subseteq AllDoomed
    BY <1>4, <1>5, <2>2 DEF Known
  <2>4. CASE UNCHANGED root
    BY <1>2, <2>1, <2>2, <2>3, <2>4, SameRoot
  <2>5. CASE root = q.expect /\ root' = q.new
    <3>1. CasSafe(q) /\ q.new \in Roots
      BY DEF GcInv, RestOK
    <3>2. root' \in Roots /\ root'.rev > root.rev /\ SafeDraft(root', {})
      BY <2>5, <3>1 DEF CasSafe
    <3>3. Reach(root') \subseteq objects /\ AllDoomed' \cap Reach(root') = {}
      BY <2>3, <3>2 DEF SafeDraft
    <3> QED BY <1>2, <2>1, <2>2, <2>3, <3>2, <3>3, NewRoot
  <2> QED BY <2>1, <2>4, <2>5
<1> QED BY <1>6, <1>7, <1>8

\* Maintenance wins its conditional write: what it listed and the new root
\* does not reach becomes doomed, and no draft can reach that any more.
LEMMA PublishSafe ==
    ASSUME OpOK, RestOK, GcInv, NEW m \in Actors, PublishRetention(m)
    PROVE  GcInv'
<1>1. /\ pc[m] = "write" /\ todo[m] = {} /\ root = loaded[m] /\ root' = draft[m]
      /\ loaded' = [loaded EXCEPT ![m] = draft[m]] /\ pc' = [pc EXCEPT ![m] = "retrace"]
      /\ draft' = [draft EXCEPT ![m] = EmptyRoot]
      /\ UNCHANGED <<objects, latePuts, lateDels, lateCas, todo, made, cand, want>>
  BY DEF PublishRetention, Holds, Publish, late
<1>2. ActorSafe(m) /\ draft[m] \in Roots
  BY DEF GcInv, OpOK
<1>3. root' \in Roots /\ root'.rev > root.rev /\ SafeDraft(root', {})
  BY <1>1, <1>2 DEF ActorSafe
<1>4. /\ pc'[m] = "retrace" /\ loaded'[m] = root' /\ \A y \in Actors \ {m} : Untouched(y)
  BY <1>1 DEF Untouched, OpOK
<1>5. root'.rev \in Nat
  BY <1>3 DEF Roots
<1>6. ActorSafe(m)'
  BY <1>4, <1>5 DEF ActorSafe
<1>7. Doomed(m)' = cand[m] \ Reach(root')
  BY <1>1, <1>4 DEF Doomed, Reach
<1>8. ASSUME NEW y \in Actors \ {m} PROVE Doomed(y)' \subseteq AllDoomed
  <2>1. Doomed(y)' = Doomed(y)
    BY <1>4 DEF Untouched, Doomed, Reach
  <2> QED BY <2>1 DEF AllDoomed
<1>9. AllDoomed' \cap Reach(root') = {}
  <2>1. AllDoomed' \subseteq AllDoomed \cup (cand[m] \ Reach(root'))
    BY <1>1, <1>7, <1>8 DEF AllDoomed
  <2> QED BY <1>3, <2>1 DEF SafeDraft
<1>10. NamesDrawn'
  <2>1. Known' = Known
    BY <1>1 DEF Known
  <2> QED BY <1>1, <2>1 DEF NamesDrawn, GcInv
<1>11. Reach(root') \subseteq objects
  BY <1>3 DEF SafeDraft
<1> QED BY <1>1, <1>3, <1>4, <1>6, <1>9, <1>10, <1>11, NewRoot

-----------------------------------------------------------------------------
(* The actions of maintenance.                                             *)

\* No action of maintenance breaks the invariant.
LEMMA MaintainSafe ==
    ASSUME OpOK, RestOK, GcInv, NEW m \in Actors, StartMaintain(m) \/ MaintainStep(m)
    PROVE  GcInv'
<1>1. CASE StartMaintain(m) \/ LoadMaintain(m)
  <2>1. (Start(m, "list") \/ Load(m, "trace")) /\ want' = want
    BY <1>1 DEF StartMaintain, LoadMaintain
  <2> QED BY <2>1, BeginSafe DEF OpOK
<1>2. CASE ListObjects(m)
  <2>1. UNCHANGED <<store, late, made>> /\ pc[m] = "list"
    BY <1>2 DEF ListObjects
  <2>2. CASE \E o : Return(m, o)
    BY <2>1, <2>2, QuietEnd
  <2>3. CASE ~\E o : Return(m, o)
    <3>1. PICK s \in SUBSET Listed(m) :
            /\ cand' = [cand EXCEPT ![m] = @ \cup s]
            /\ \/ pc' = [pc EXCEPT ![m] = "load"]
               \/ UNCHANGED pc
            /\ UNCHANGED <<loaded, draft, todo, want>>
      BY <1>2, <2>3, Zenon DEF ListObjects
    <3>2. pc'[m] \in {"load", "list"} /\ \A y \in Actors \ {m} : Untouched(y)
      BY <2>1, <3>1 DEF Untouched, OpOK
    <3>3. Doomed(m)' \subseteq Doomed(m)
      BY <3>2 DEF Doomed
    <3>4. cand'[m] \subseteq Known
      BY <3>1 DEF Known, Listed, OpOK
    <3>5. ActorSafe(m)'
      <4>1. loaded[m].rev <= root.rev /\ root' = root /\ loaded' = loaded
        BY <2>1, <3>1 DEF GcInv, ActorSafe, store
      <4> QED BY <3>2, <4>1 DEF ActorSafe
    <3>6. made'[m] \in Nat /\ made'[m] >= made[m] /\ todo'[m] \subseteq Known /\ todo'[m] \subseteq ObjectIds
      BY <2>1, <3>1 DEF Known, OpOK, RestOK
    <3> QED BY <2>1, <3>2, <3>3, <3>4, <3>5, <3>6, QuietStep
  <2> QED BY <2>2, <2>3
<1>3. CASE Plan(m)
  <2>1. UNCHANGED <<store, late>> /\ pc[m] = "trace"
    BY <1>3 DEF Plan
  <2>2. CASE pc' = [pc EXCEPT ![m] = "idle"]
    <3>1. pc' # [pc EXCEPT ![m] = "write"]
      BY <2>2 DEF OpOK
    <3>2. (\E o : Return(m, o)) /\ UNCHANGED made
      BY <1>3, <3>1, Zenon DEF Plan
    <3> QED BY <2>1, <3>2, QuietEnd
  <2>3. CASE pc' # [pc EXCEPT ![m] = "idle"]
    <3>1. /\ draft' = [draft EXCEPT ![m] = draft'[m]]
          /\ todo'[m] \subseteq ObjectIds /\ todo' = [todo EXCEPT ![m] = todo'[m]]
          /\ made'[m] \in Nat /\ made' = [made EXCEPT ![m] = made'[m]]
          /\ made'[m] >= made[m] /\ Drawn(m, made[m])
          /\ draft'[m].rev > loaded[m].rev
          /\ Reach(draft'[m]) \subseteq Reach(loaded[m]) \cup todo'[m]
          /\ cand' = [cand EXCEPT ![m] = cand[m] \ Reach(draft'[m])]
          /\ pc' = [pc EXCEPT ![m] = "write"]
          /\ UNCHANGED <<loaded, want>>
      BY <1>3, <2>3, PlanFacts
    <3>2. cand'[m] \subseteq cand[m] /\ \A y \in Actors \ {m} : cand'[y] = cand[y]
      BY <3>1 DEF OpOK
    <3> QED BY <2>1, <3>1, <3>2, DraftSafe
  <2> QED BY <2>2, <2>3
<1>4. CASE TraceBudget(m)
  BY <1>4, QuietEnd DEF TraceBudget
<1>5. CASE PublishRetention(m)
  BY <1>5, PublishSafe
<1>6. CASE AuthoriseDeletion(m)
  <2>1. /\ UNCHANGED <<store, late, made, loaded, draft, todo, want>>
        /\ pc[m] = "retrace" /\ pc' = [pc EXCEPT ![m] = "delete"]
        /\ cand' = [cand EXCEPT ![m] = @ \ Reach(loaded[m])]
    BY <1>6 DEF AuthoriseDeletion
  <2>2. /\ pc'[m] = "delete" /\ cand'[m] = cand[m] \ Reach(loaded[m])
        /\ \A y \in Actors \ {m} : Untouched(y)
    BY <2>1 DEF Untouched, OpOK
  <2>3. Doomed(m)' \subseteq Doomed(m)
    BY <2>1, <2>2 DEF Doomed
  <2>4. ActorSafe(m)'
    <3>1. loaded[m].rev <= root.rev /\ root' = root /\ loaded' = loaded
      BY <2>1 DEF GcInv, ActorSafe, store
    <3> QED BY <2>2, <3>1 DEF ActorSafe
  <2>5. /\ made'[m] \in Nat /\ made'[m] >= made[m]
        /\ cand'[m] \subseteq Known /\ todo'[m] \subseteq Known /\ todo'[m] \subseteq ObjectIds
    BY <2>1, <2>2 DEF OpOK, RestOK, Known
  <2> QED BY <2>1, <2>2, <2>3, <2>4, <2>5, QuietStep
<1>7. CASE DeleteObject(m)
  BY <1>7, DeleteSafe
<1>8. CASE FinishMaintain(m)
  BY <1>8, QuietEnd DEF FinishMaintain
<1> QED BY <1>1, <1>2, <1>3, <1>4, <1>5, <1>6, <1>7, <1>8 DEF MaintainStep

-----------------------------------------------------------------------------
(* The invariant.                                                          *)

\* What an operation reads exists as long as the root it loaded is current.
LEMMA ReadsPresent ==
    ASSUME OpOK, GcInv, NEW x \in Actors, loaded[x] = root
    PROVE  Reads(x) \subseteq objects
<1>1. ActorSafe(x) /\ Reach(loaded[x]) \subseteq objects
  BY DEF GcInv, LiveGraphPresent
<1>2. CASE pc[x] = "write"
  <2>1. Reach(draft[x]) \ todo[x] \subseteq objects
    BY <1>1, <1>2 DEF ActorSafe, SafeDraft
  <2>2. loaded[x].pages \cup loaded[x].dir \subseteq objects
    BY <1>1 DEF Reach
  <2> QED BY <1>2, <2>1, <2>2 DEF Reads
<1>3. CASE pc[x] # "write"
  BY <1>1, <1>3 DEF Reads, Reach, ActorSafe
<1> QED BY <1>2, <1>3

\* An object is missed only under a root that is no longer current.
LEMMA MissSafe ==
    ASSUME OpOK, RestOK, GcInv, NEW x \in Actors, MissingRead(x)
    PROVE  GcInv'
<1>1. /\ UNCHANGED <<store, late, made, loaded, draft, todo, cand, want>>
      /\ pc' = [pc EXCEPT ![x] = "check"] /\ ~(Reads(x) \subseteq objects)
  BY DEF MissingRead, op
<1>2. pc'[x] = "check" /\ \A y \in Actors \ {x} : Untouched(y)
  BY <1>1 DEF Untouched, OpOK
<1>3. loaded[x] # root
  BY <1>1, ReadsPresent
<1>4. ActorSafe(x)'
  <2>1. loaded[x].rev <= root.rev /\ root' = root /\ loaded' = loaded
    BY <1>1 DEF GcInv, ActorSafe, store
  <2> QED BY <1>2, <1>3, <2>1 DEF ActorSafe
<1>5. Doomed(x)' \subseteq Doomed(x)
  BY <1>2 DEF Doomed
<1>6. /\ made'[x] \in Nat /\ made'[x] >= made[x]
      /\ cand'[x] \subseteq Known /\ todo'[x] \subseteq Known /\ todo'[x] \subseteq ObjectIds
  BY <1>1 DEF OpOK, RestOK, Known
<1> QED BY <1>1, <1>2, <1>4, <1>5, <1>6, QuietStep

\* The invariant holds initially.
LEMMA GcInit == Init => GcInv
<1> SUFFICES ASSUME Init PROVE GcInv
  OBVIOUS
<1>1. root \in Roots /\ root.pages = {} /\ root.dir = {}
      /\ \A i \in DOMAIN root.segs : root.segs[i].obj.by = "legacy"
  BY InitialRootFacts DEF Init
<1>2. Reach(root) = objects
  BY <1>1 DEF Init, Reach
<1>3. \A x \in Actors : /\ pc[x] = "idle" /\ loaded[x] = EmptyRoot
                        /\ cand[x] = {} /\ todo[x] = {}
  BY DEF Init
<1>4. AllDoomed = {} /\ Known = objects
  BY <1>3 DEF Init, AllDoomed, Doomed, Known
<1>5. NamesDrawn
  <2>1. \A o \in objects : o.by = "legacy"
    BY <1>1 DEF Init, SegObjects
  <2> QED BY <1>4, <2>1, ActorsAssumption DEF NamesDrawn
<1>6. ASSUME NEW x \in Actors PROVE ActorSafe(x)
  <2>1. EmptyRoot.rev = 0 /\ root.rev \in Nat
    BY <1>1 DEF EmptyRoot, Roots
  <2> QED BY <1>3, <2>1 DEF ActorSafe
<1>7. lateCas = {}
  BY DEF Init
<1> QED BY <1>2, <1>4, <1>5, <1>6, <1>7 DEF GcInv, LiveGraphPresent

\* Every step preserves the invariant.
LEMMA GcNext == TypeOK /\ GcInv /\ [Next]_vars => GcInv'
<1> SUFFICES ASSUME OpOK, RestOK, GcInv, [Next]_vars
             PROVE  GcInv'
  BY DEF TypeOK, OpOK, RestOK
<1>1. CASE \E a \in Appenders : StartAppend(a) \/ AppendStep(a)
  BY <1>1, AppendSafe DEF Actors
<1>2. CASE \E f \in Fetchers : StartFetch(f) \/ FetchStep(f)
  BY <1>2, FetchSafe DEF Actors
<1>3. CASE \E m \in Maintainers : StartMaintain(m) \/ MaintainStep(m)
  BY <1>3, MaintainSafe DEF Actors
<1>4. CASE \E x \in Actors : PutObject(x)
  BY <1>4, PutSafe
<1>5. CASE \E x \in Actors : LoseRace(x) \/ StaleMissing(x)
  BY <1>5, QuietEnd DEF LoseRace, StaleMissing
<1>6. CASE \E x \in Actors : MissingRead(x)
  BY <1>6, MissSafe
<1>7. CASE \E x \in Actors : Fail(x)
  BY <1>7, FailSafe
<1>8. CASE LatePut \/ LateDelete \/ LateCas
  BY <1>8, LateSafe
<1>9. CASE UNCHANGED vars
  BY <1>9, NothingMoves DEF vars, store, late, op
<1> QED BY <1>1, <1>2, <1>3, <1>4, <1>5, <1>6, <1>7, <1>8, <1>9 DEF Next, Step

\* The invariant holds throughout.
THEOREM GcInvariant == Spec => []GcInv
<1>1. Init => GcInv
  BY GcInit
<1>2. TypeOK /\ GcInv /\ [Next]_vars => GcInv'
  BY GcNext
<1>3. Spec => []TypeOK
  BY TypeCorrect
<1> QED BY <1>1, <1>2, <1>3, PTL DEF Spec

(***************************************************************************)
(* Collection never removes an object the current root reaches: maintain   *)
(* publishes before it deletes, so every stale writer loses its            *)
(* conditional write and no later writer can refer to what was listed.     *)
(***************************************************************************)
THEOREM CollectionSafe == Spec => []LiveGraphPresent
<1>1. GcInv => LiveGraphPresent
  BY DEF GcInv
<1> QED BY <1>1, GcInvariant, PTL

\* A missed object is never reported as an integrity failure: stale_missing
\* always finds that the root has changed.
LEMMA RepliesClean ==
    ASSUME TypeOK, GcInv, NoIntegrityFailure, [Next]_vars
    PROVE  NoIntegrityFailure'
<1>1. ASSUME NEW x \in Actors, NEW o, Return(x, o), o # "IntegrityFailure"
      PROVE  NoIntegrityFailure'
  <2>1. reply' = [reply EXCEPT ![x] = o]
    BY <1>1 DEF Return
  <2> QED BY <1>1, <2>1 DEF NoIntegrityFailure
<1>2. CASE UNCHANGED reply
  BY <1>2 DEF NoIntegrityFailure
<1>3. ASSUME NEW x \in Actors PROVE Outcome(x, "ContentionExhausted") # "IntegrityFailure"
  BY DEF Outcome
<1>4. ASSUME NEW x \in Actors, Again(x) PROVE NoIntegrityFailure'
  BY <1>1, <1>2, <1>3, <1>4 DEF Again
<1>5. CASE \E a \in Appenders : StartAppend(a) \/ AppendStep(a)
  <2>1. PICK a \in Appenders : StartAppend(a) \/ AppendStep(a)
    BY <1>5
  <2>2. a \in Actors
    BY DEF Actors
  <2>3. CASE Decide(a)
    <3>1. Judge(work[a]) # "IntegrityFailure"
      BY DEF Judge, Verdict
    <3> QED BY <1>1, <1>2, <2>2, <2>3, <3>1 DEF Decide
  <2>4. CASE ~Decide(a)
    <3>1. Return(a, "ok") \/ UNCHANGED reply
      BY <2>1, <2>4 DEF AppendStep, StartAppend, LoadAppend, AnswerDuplicates, Prepare,
                        CommitAppend, Start, Load
    <3> QED BY <1>1, <1>2, <2>2, <3>1
  <2> QED BY <2>3, <2>4
<1>6. CASE \E f \in Fetchers : StartFetch(f) \/ FetchStep(f)
  <2>1. PICK f \in Fetchers : StartFetch(f) \/ FetchStep(f)
    BY <1>6
  <2>2. f \in Actors
    BY DEF Actors
  <2>3. Return(f, "ok") \/ Return(f, "OffsetOutOfRange") \/ UNCHANGED reply
    BY <2>1 DEF FetchStep, StartFetch, LoadFetch, FinishFetch, Start, Load
  <2> QED BY <1>1, <1>2, <2>2, <2>3
<1>7. CASE \E m \in Maintainers : StartMaintain(m) \/ MaintainStep(m)
  <2>1. PICK m \in Maintainers : StartMaintain(m) \/ MaintainStep(m)
    BY <1>7
  <2>2. m \in Actors /\ Outcome(m, "MaintenanceBudget") # "IntegrityFailure"
    BY DEF Actors, Outcome
  <2>3. \/ Return(m, "ok") \/ Return(m, "preview") \/ Return(m, Outcome(m, "MaintenanceBudget"))
        \/ UNCHANGED reply
    BY <2>1 DEF MaintainStep, StartMaintain, ListObjects, LoadMaintain, Plan, TraceBudget,
                PublishRetention, AuthoriseDeletion, DeleteObject, FinishMaintain, Start, Load
  <2> QED BY <1>1, <1>2, <2>2, <2>3
<1>8. CASE \E x \in Actors : PutObject(x) \/ MissingRead(x)
  BY <1>2, <1>8 DEF PutObject, MissingRead
<1>9. CASE \E x \in Actors : LoseRace(x)
  BY <1>4, <1>9 DEF LoseRace
<1>10. CASE \E x \in Actors : StaleMissing(x)
  <2>1. PICK x \in Actors : StaleMissing(x)
    BY <1>10
  <2>2. loaded[x] # root
    BY <2>1 DEF StaleMissing, GcInv, ActorSafe
  <2> QED BY <1>4, <2>1, <2>2 DEF StaleMissing
<1>11. CASE \E x \in Actors : Fail(x)
  <2>1. PICK x \in Actors : Fail(x)
    BY <1>11
  <2>2. Return(x, Failure(x)) /\ Failure(x) # "IntegrityFailure"
    BY <2>1 DEF Fail, Failure, Outcome
  <2> QED BY <1>1, <2>2
<1>12. CASE LatePut \/ LateDelete \/ LateCas \/ UNCHANGED vars
  BY <1>2, <1>12 DEF LatePut, LateDelete, LateCas, vars
<1> QED BY <1>5, <1>6, <1>7, <1>8, <1>9, <1>10, <1>11, <1>12 DEF Next, Step

(***************************************************************************)
(* No append, fetch or maintenance call ever reports an integrity failure  *)
(* because collection overtook it, however often it is overtaken.          *)
(***************************************************************************)
THEOREM MissesExcused == Spec => []NoIntegrityFailure
<1>1. Init => NoIntegrityFailure
  BY DEF Init, NoIntegrityFailure
<1>2. TypeOK /\ GcInv /\ NoIntegrityFailure /\ [Next]_vars => NoIntegrityFailure'
  BY RepliesClean
<1> QED BY <1>1, <1>2, TypeCorrect, GcInvariant, PTL DEF Spec

=============================================================================
