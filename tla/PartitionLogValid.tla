------------------------- MODULE PartitionLogValid -------------------------
(***************************************************************************)
(* Why a published manifest always passes the validation of its readers:   *)
(* RootValid for any number of brokers, maintenance processes, crashes and *)
(* late requests.                                                          *)
(*                                                                         *)
(* RootValid speaks about the current root only, and says nothing of a     *)
(* legacy one.  The strengthening holds of every root an operation works   *)
(* from or means to publish and of every root in a late conditional write, *)
(* says by how many full leaves the tail falls short of the log, and       *)
(* includes the private producer states of an append that is being         *)
(* decided.                                                                *)
(***************************************************************************)
EXTENDS PartitionLogHistory

\* What n full leaves hold.
Full(n) == n * PageEntries

\* The tail, the leaves behind the pages, and the revision of a root.
Shaped(r) ==
    /\ \E c \in 0 .. Len(r.segs) :
           /\ Len(r.segs) = r.tail + Full(c)
           /\ r.pages = {} <=> c = 0
           /\ c # 0 => r.tail > 0
           /\ r.legacy => c = 0
    /\ ~r.legacy => r.tail <= PageEntries
    /\ Len(r.segs) <= r.rev

\* A producer state a reader accepts in a log that ends at `next`.
Acceptable(st, next) == st = NewState(0) \/ ValidState(st, next)

\* A root readers accept.
Accepted(r) ==
    /\ Shaped(r)
    /\ \A p \in Producers : Acceptable(r.producers[p], r.next)

(***************************************************************************)
(* The inductive invariant.                                                *)
(***************************************************************************)
ValidInv ==
    /\ Accepted(root)
    /\ \A x \in Actors : Accepted(loaded[x]) /\ Accepted(draft[x])
    /\ \A x \in Actors : pc[x] = "decide" =>
           \A p \in Producers : Acceptable(work[x].states[p], work[x].next)
    /\ \A q \in lateCas : Accepted(q.new)

-----------------------------------------------------------------------------
(* Producer states.                                                        *)

\* The next sequence number a state expects is one a client can send.
LEMMA ExpectedRange ==
    ASSUME NEW st \in States(Contents)
    PROVE  Expected(st) \in 0 .. SeqModulus - 1
<1>1. ASSUME NEW a \in Nat, NEW c \in Nat PROVE Advance(a, c) \in 0 .. SeqModulus - 1
  BY <1>1, ModulusAssumption DEF Advance
<1>2. CASE st.batches = <<>>
  BY <1>2, ModulusAssumption DEF Expected
<1>3. CASE st.batches # <<>>
  <2>1. PICK l : l = st.batches[Len(st.batches)]
    OBVIOUS
  <2>2. l \in Identities(Contents)
    BY <1>3, <2>1 DEF States
  <2>3. l.seq \in Nat /\ l.count \in Nat
    BY <2>2, ModulusAssumption DEF Identities
  <2>4. Expected(st) = Advance(l.seq, l.count)
    BY <1>3, <2>1, Zenon DEF Expected
  <2> QED BY <1>1, <2>3, <2>4
<1> QED BY <1>2, <1>3

\* Identities that follow each other, in sequence and in offsets, up to `next`.
Chained(s, next) ==
    \A i \in DOMAIN s :
        /\ s[i].base + s[i].count <= next
        /\ i > 1 => /\ Advance(s[i - 1].seq, s[i - 1].count) = s[i].seq
                    /\ s[i - 1].base + s[i - 1].count <= s[i].base

\* A valid state is a short chain.
LEMMA ValidIsChained ==
    ASSUME NEW st, NEW next
    PROVE  ValidState(st, next) <=> Len(st.batches) \in 1 .. RetryBatches /\ Chained(st.batches, next)
  BY DEF ValidState, Chained

\* Identities have natural fields.
LEMMA IdentityFields ==
    ASSUME NEW s \in Seq(Identities(Contents)), NEW i \in DOMAIN s
    PROVE  s[i].base \in Nat /\ s[i].count \in Nat /\ s[i].base + s[i].count \in Nat
<1>1. s[i] \in Identities(Contents)
  OBVIOUS
<1> QED BY <1>1 DEF Identities

\* A chain stays one when the log grows.
LEMMA ChainedGrows ==
    ASSUME NEW s \in Seq(Identities(Contents)), NEW m \in Nat, NEW n \in Nat, m <= n, Chained(s, m)
    PROVE  Chained(s, n)
<1>1. ASSUME NEW i \in DOMAIN s PROVE s[i].base + s[i].count <= n
  <2>1. PICK e \in Nat : e = s[i].base + s[i].count
    BY IdentityFields
  <2>2. e <= m
    BY <2>1 DEF Chained
  <2> QED BY <2>1, <2>2
<1> QED BY <1>1 DEF Chained

\* A state stays acceptable when the log grows.
LEMMA AcceptableGrows ==
    ASSUME NEW st \in States(Contents), NEW m \in Nat, NEW n \in Nat, m <= n, Acceptable(st, m)
    PROVE  Acceptable(st, n)
<1>1. st.batches \in Seq(Identities(Contents))
  BY DEF States
<1> QED BY <1>1, ChainedGrows, ValidIsChained DEF Acceptable

\* The identity of the next batch in sequence continues a chain.
LEMMA ChainedAppend ==
    ASSUME NEW s \in Seq(Identities(Contents)), NEW next \in Nat, Chained(s, next),
           NEW id \in Identities(Contents), id.base = next,
           s # <<>> => id.seq = Advance(s[Len(s)].seq, s[Len(s)].count)
    PROVE  Chained(Append(s, id), next + id.count)
<1>1. PICK n \in Nat : n = Len(s) /\ (s # <<>> => n > 0)
  BY Length
<1>2. PICK u : u = Append(s, id)
  OBVIOUS
<1>3. /\ u \in Seq(Identities(Contents)) /\ Len(u) = n + 1 /\ u[n + 1] = id
      /\ \A i \in 1 .. n : u[i] = s[i]
  BY <1>1, <1>2
<1>4. DOMAIN u = 1 .. n + 1 /\ DOMAIN s = 1 .. n /\ id.count \in Nat
  BY <1>1, <1>3 DEF Identities
<1>5. \A i \in 1 .. n : s[i].base + s[i].count \in Nat /\ s[i].base + s[i].count <= next
  BY <1>4, IdentityFields DEF Chained
<1>6. ASSUME NEW i \in 1 .. n + 1
      PROVE  /\ u[i].base + u[i].count <= next + id.count
             /\ i > 1 => /\ Advance(u[i - 1].seq, u[i - 1].count) = u[i].seq
                         /\ u[i - 1].base + u[i - 1].count <= u[i].base
  <2>1. CASE i \in 1 .. n
    <3>1. u[i] = s[i] /\ (i > 1 => u[i - 1] = s[i - 1])
      <4>1. i > 1 => i - 1 \in 1 .. n
        BY <2>1
      <4> QED BY <1>3, <2>1, <4>1
    <3>2. s[i].base + s[i].count <= next + id.count
      BY <1>4, <1>5, <2>1
    <3>3. i > 1 => /\ Advance(s[i - 1].seq, s[i - 1].count) = s[i].seq
                   /\ s[i - 1].base + s[i - 1].count <= s[i].base
      BY <1>4, <2>1 DEF Chained
    <3> QED BY <3>1, <3>2, <3>3
  <2>2. CASE i = n + 1
    <3>1. u[i] = id /\ (i > 1 => n > 0 /\ u[i - 1] = s[n] /\ n \in 1 .. n)
      <4>1. i > 1 => n > 0 /\ n \in 1 .. n /\ i - 1 = n
        BY <2>2
      <4> QED BY <1>3, <2>2, <4>1
    <3>2. n > 0 => s # <<>>
      BY <1>1
    <3> QED BY <1>1, <1>4, <1>5, <3>1, <3>2
  <2> QED BY <2>1, <2>2
<1> QED BY <1>2, <1>4, <1>6, Zenon DEF Chained

\* A chain stays one when its oldest identity is forgotten.
LEMMA ChainedTail ==
    ASSUME NEW s \in Seq(Identities(Contents)), s # <<>>, NEW next, Chained(s, next)
    PROVE  Chained(Tail(s), next)
<1>1. PICK n \in Nat : n = Len(s) /\ n > 0
  BY Length
<1>2. PICK m \in Nat : m + 1 = n
  <2>1. n - 1 \in Nat /\ (n - 1) + 1 = n
    BY <1>1
  <2> QED BY <2>1
<1>3. PICK u : u = Tail(s)
  OBVIOUS
<1>4. u \in Seq(Identities(Contents)) /\ Len(u) = m /\ \A i \in 1 .. m : u[i] = s[i + 1]
  BY <1>1, <1>2, <1>3
<1>5. DOMAIN u = 1 .. m /\ DOMAIN s = 1 .. n
  BY <1>1, <1>4
<1>6. ASSUME NEW i \in 1 .. m
      PROVE  /\ u[i].base + u[i].count <= next
             /\ i > 1 => /\ Advance(u[i - 1].seq, u[i - 1].count) = u[i].seq
                         /\ u[i - 1].base + u[i - 1].count <= u[i].base
  <2>1. i + 1 \in 1 .. n /\ i + 1 > 1 /\ (i + 1) - 1 = i
    BY <1>2
  <2>2. u[i] = s[i + 1] /\ (i > 1 => u[i - 1] = s[i])
    <3>1. i > 1 => i - 1 \in 1 .. m /\ (i - 1) + 1 = i
      OBVIOUS
    <3> QED BY <1>4, <3>1
  <2>3. /\ s[i + 1].base + s[i + 1].count <= next
        /\ Advance(s[i].seq, s[i].count) = s[i + 1].seq
        /\ s[i].base + s[i].count <= s[i + 1].base
    BY <1>5, <2>1 DEF Chained
  <2> QED BY <2>2, <2>3
<1> QED BY <1>3, <1>5, <1>6, Zenon DEF Chained

\* A new batch leaves an acceptable state, whatever the window forgets.
LEMMA RememberAcceptable ==
    ASSUME NEW st \in States(Contents), NEW b \in AllBatches, NEW next \in Nat,
           Acceptable(st, next), Verdict(st, b) = "new"
    PROVE  Acceptable(Remember(st, b, next), next + b.count)
<1>1. PICK s : s = AtEpoch(st, b).batches
  OBVIOUS
<1>2. PICK id : id = Identity(b, next)
  OBVIOUS
<1>3. /\ id \in Identities(Contents) /\ id.base = next /\ id.count = b.count /\ id.seq = b.seq
      /\ b.count \in Nat
  BY <1>2 DEF Identity, Identities, AllBatches, Batches
<1>4. AtEpoch(st, b) = st \/ s = <<>>
  BY <1>1 DEF AtEpoch, NewState
<1>5. s \in Seq(Identities(Contents)) /\ Chained(s, next) /\ (s # <<>> => Len(s) \in 1 .. RetryBatches)
  <2>1. CASE s = <<>>
    BY <2>1 DEF Chained
  <2>2. CASE AtEpoch(st, b) = st /\ s # <<>>
    <3>1. s = st.batches
      BY <1>1, <2>2
    <3>2. st # NewState(0)
      BY <2>2, <3>1 DEF NewState
    <3>3. ValidState(st, next)
      BY <3>2 DEF Acceptable
    <3> QED BY <3>1, <3>3, ValidIsChained DEF States
  <2> QED BY <1>4, <2>1, <2>2
<1>6. s # <<>> => id.seq = Advance(s[Len(s)].seq, s[Len(s)].count)
  <2>1. b.seq = Expected(AtEpoch(st, b))
    BY DEF Verdict
  <2> QED BY <1>1, <1>3, <2>1 DEF Expected
<1>7. PICK u : u = Append(s, id)
  OBVIOUS
<1>8. u \in Seq(Identities(Contents)) /\ u # <<>> /\ Chained(u, next + b.count)
  <2>1. Chained(Append(s, id), next + id.count)
    BY <1>3, <1>5, <1>6, ChainedAppend
  <2> QED BY <1>3, <1>5, <1>7, <2>1
<1>9. PICK n \in Nat : n = Len(s) /\ (s # <<>> => n > 0) /\ n <= RetryBatches
  <2>1. PICK n \in Nat : n = Len(s) /\ (s # <<>> => n > 0)
    BY <1>5, Length
  <2>2. s = <<>> => n = 0
    BY <2>1
  <2> QED BY <1>5, <2>1, <2>2, RetryAssumption
<1>10. Len(u) = n + 1
  BY <1>5, <1>3, <1>7, <1>9
<1>11. PICK new : new = Remember(st, b, next)
  OBVIOUS
<1>12. new.batches = IF n + 1 > RetryBatches THEN Tail(u) ELSE u
  BY <1>1, <1>2, <1>7, <1>10, <1>11 DEF Remember
<1>13. CASE n + 1 > RetryBatches
  <2>1. Len(Tail(u)) = n /\ n \in 1 .. RetryBatches
    <3>1. n = RetryBatches
      BY <1>9, <1>13, RetryAssumption
    <3> QED BY <1>8, <1>10, <3>1, RetryAssumption
  <2>2. Chained(Tail(u), next + b.count)
    BY <1>8, ChainedTail
  <2> QED BY <1>11, <1>12, <1>13, <2>1, <2>2, ValidIsChained DEF Acceptable
<1>14. CASE ~(n + 1 > RetryBatches)
  <2>1. n + 1 \in 1 .. RetryBatches
    BY <1>14, RetryAssumption
  <2> QED BY <1>8, <1>10, <1>11, <1>12, <1>14, <2>1, ValidIsChained DEF Acceptable
<1> QED BY <1>13, <1>14

-----------------------------------------------------------------------------
(* The geometry of the tail and the leaves.                                *)

\* Numbers from one to a full page, and how many pages came before.
LEMMA Paging ==
    ASSUME NEW q \in Nat
    PROVE  \E s \in Nat, t \in Nat :
               /\ s = q \div PageEntries
               /\ t = (q % PageEntries) + 1
               /\ q + 1 = t + Full(s)
               /\ t > 0 /\ t <= PageEntries
<1>1. /\ q \div PageEntries \in Nat /\ (q % PageEntries) + 1 \in Nat
      /\ (q % PageEntries) + 1 > 0 /\ (q % PageEntries) + 1 <= PageEntries
      /\ q + 1 = ((q % PageEntries) + 1) + (q \div PageEntries) * PageEntries
  BY BoundsAssumption
<1> QED BY <1>1 DEF Full

\* Full leaves and some more full leaves.
LEMMA FullAdds ==
    ASSUME NEW c \in Nat, NEW s \in Nat
    PROVE  Full(c + s) = Full(c) + Full(s)
  BY BoundsAssumption DEF Full

\* Every full leaf holds at least one descriptor.
LEMMA FullBound ==
    /\ Full(0) = 0
    /\ \A c \in Nat : Full(c) \in Nat /\ Full(c) >= c
  BY BoundsAssumption DEF Full

\* The root of an append has the shape readers demand.
LEMMA AppendedShaped ==
    ASSUME NEW r \in Roots, Shaped(r), NEW w \in Works,
           NEW segs \in Seq(Descriptors), segs # <<>>,
           NEW ps, NEW ds, NEW idx, (idx = {}) <=> (Seals(r, Len(segs)) = 0),
           ps \in Rewritten(r.pages, idx)
    PROVE  Shaped(AppendedRoot(r, w, segs, ps, ds))
<1>1. PICK n \in Nat : n = Len(segs) /\ n > 0
  BY Length
<1>2. r.segs \in Seq(Descriptors) /\ r.tail \in Nat /\ r.rev \in Nat
  BY DEF Roots
<1>3. PICK m \in Nat : m = Len(r.segs)
  BY <1>2, Length
<1>4. PICK c \in Nat : /\ m = r.tail + Full(c)
                       /\ r.pages = {} <=> c = 0
                       /\ c # 0 => r.tail > 0
  BY <1>3 DEF Shaped
<1>5. PICK t0 \in Nat : t0 = r.tail
  BY <1>2
<1>6. PICK q \in Nat : q = t0 + n - 1 /\ q + 1 = t0 + n
  <2>1. t0 + n - 1 \in Nat /\ (t0 + n - 1) + 1 = t0 + n
    BY <1>1
  <2> QED BY <2>1
<1>7. PICK s \in Nat, t \in Nat :
               /\ s = q \div PageEntries
               /\ t = (q % PageEntries) + 1
               /\ q + 1 = t + Full(s)
               /\ t > 0 /\ t <= PageEntries
  BY Paging
<1>8. s = Seals(r, n) /\ t = NewTail(r.tail, n)
  BY <1>5, <1>6, <1>7 DEF Seals, NewTail
<1>9. PICK new : new = AppendedRoot(r, w, segs, ps, ds)
  OBVIOUS
<1>10. /\ new.segs = r.segs \o segs /\ new.tail = t /\ new.pages = ps
       /\ new.rev = r.rev + n /\ new.legacy = FALSE
  BY <1>1, <1>8, <1>9 DEF AppendedRoot, Roots
<1>11. Len(new.segs) = m + n
  BY <1>1, <1>2, <1>3, <1>10
<1>12. PICK a \in Nat, b \in Nat, e \in Nat :
          /\ a = Full(c) /\ b = Full(s) /\ e = Full(c + s)
          /\ e = a + b /\ e >= c + s
  <2>1. Full(c) \in Nat /\ Full(s) \in Nat /\ Full(c + s) \in Nat /\ Full(c + s) >= c + s
    BY FullBound
  <2> QED BY <2>1, FullAdds
<1>13. m + n = t + e /\ c + s \in 0 .. m + n /\ (c + s = 0 <=> c = 0 /\ s = 0)
  <2>1. m = t0 + a /\ t0 + n = t + b /\ e = a + b /\ e >= c + s
    BY <1>4, <1>5, <1>6, <1>7, <1>12
  <2>2. m + n = t + e
    BY <2>1
  <2> QED BY <2>1, <2>2
<1>14. ps = {} <=> c + s = 0
  <2>1. idx = {} <=> s = 0
    BY <1>1, <1>8
  <2>2. ps = {} <=> r.pages = {} /\ idx = {}
    BY DEF Rewritten
  <2> QED BY <1>4, <1>13, <2>1, <2>2
<1>15. t > 0 /\ t <= PageEntries
  BY <1>7
<1>16. Len(new.segs) <= new.rev
  <2>1. m <= r.rev
    BY <1>3 DEF Shaped
  <2> QED BY <1>2, <1>10, <1>11, <2>1
<1>17. m + n = t + Full(c + s)
  BY <1>12, <1>13
<1> QED BY <1>9, <1>10, <1>11, <1>13, <1>14, <1>15, <1>16, <1>17 DEF Shaped

\* The root of maintenance has the shape readers demand.
LEMMA RetainedShaped ==
    ASSUME NEW r \in Roots, Shaped(r), NEW k \in 0 .. Len(r.segs), NEW n \in Nat,
           n = Len(r.segs) - k, NEW idx, (idx = {}) <=> (Leaves(n) = 0)
    PROVE  Shaped(RetainedRoot(r, k, IF k # 0 \/ r.legacy THEN idx ELSE r.pages))
<1>1. r.segs \in Seq(Descriptors) /\ r.tail \in Nat /\ r.rev \in Nat
  BY DEF Roots
<1>2. PICK m \in Nat : m = Len(r.segs)
  BY <1>1, Length
<1>3. k \in Nat /\ k + n = m
  BY <1>2
<1>4. PICK kept : kept = SubSeq(r.segs, k + 1, m)
  OBVIOUS
<1>5. Len(kept) = n
  <2>1. k + n <= Len(r.segs) /\ kept = SubSeq(r.segs, k + 1, k + n)
    BY <1>2, <1>3, <1>4
  <2>2. k \in Nat /\ n \in Nat
    BY <1>3
  <2> QED BY ONLY <1>1, <2>1, <2>2, PieceAt
<1>6. PICK new : new = RetainedRoot(r, k, IF k # 0 \/ r.legacy THEN idx ELSE r.pages)
  OBVIOUS
<1>7. /\ new.segs = kept /\ new.legacy = FALSE /\ new.rev = r.rev + 1
      /\ new.pages = IF k # 0 \/ r.legacy THEN idx ELSE r.pages
      /\ new.tail = IF k = 0 /\ ~r.legacy THEN r.tail ELSE n - Leaves(n) * PageEntries
  BY <1>2, <1>4, <1>5, <1>6 DEF RetainedRoot, Trimmed, Roots
<1>8. Len(new.segs) <= new.rev
  <2>1. m <= r.rev
    BY <1>2 DEF Shaped
  <2> QED BY <1>1, <1>3, <1>5, <1>7, <2>1
<1>9. CASE k = 0 /\ ~r.legacy
  <2>1. n = m /\ new.tail = r.tail /\ new.pages = r.pages
    BY <1>3, <1>7, <1>9
  <2>2. PICK c \in 0 .. m :
            /\ m = r.tail + Full(c)
            /\ r.pages = {} <=> c = 0
            /\ c # 0 => r.tail > 0
    BY <1>2 DEF Shaped
  <2>3. r.tail <= PageEntries
    BY <1>9 DEF Shaped
  <2>4. Len(new.segs) = m /\ ~new.legacy
    BY <1>5, <1>7, <2>1
  <2>5. /\ c \in 0 .. Len(new.segs) /\ Len(new.segs) = new.tail + Full(c)
        /\ new.pages = {} <=> c = 0
        /\ c # 0 => new.tail > 0
        /\ new.legacy => c = 0
    <3>1. c \in 0 .. Len(new.segs)
      BY <2>2, <2>4, Zenon
    <3>2. Len(new.segs) = new.tail + Full(c)
      BY <2>1, <2>2, <2>4, Zenon
    <3>3. (new.pages = {} <=> c = 0) /\ (c # 0 => new.tail > 0)
      BY <2>1, <2>2, Zenon
    <3> QED BY <2>4, <3>1, <3>2, <3>3, Zenon
  <2>6. ~new.legacy => new.tail <= PageEntries
    BY <2>1, <2>3
  <2> QED BY <1>6, <1>8, <2>5, <2>6, Zenon DEF Shaped
<1>10. CASE ~(k = 0 /\ ~r.legacy)
  <2>1. new.tail = n - Leaves(n) * PageEntries /\ new.pages = idx
    BY <1>7, <1>10
  <2>2. CASE n = 0
    <3>0. Leaves(n) = 0
      BY <2>2 DEF Leaves
    <3>1. Leaves(n) = 0 /\ n - 0 * PageEntries = 0 /\ 0 + Full(0) = 0
      <4>1. PageEntries \in Nat
        BY BoundsAssumption
      <4>2. n - 0 * PageEntries = 0
        BY ONLY <2>2, <4>1
      <4>3. 0 + Full(0) = 0
        BY FullBound
      <4> QED BY <3>0, <4>2, <4>3
    <3>2. 0 <= PageEntries /\ 0 \in 0 .. 0 /\ new.tail = 0
      BY <2>1, <3>1, BoundsAssumption
    <3> QED BY <1>5, <1>6, <1>7, <1>8, <2>1, <2>2, <3>1, <3>2 DEF Shaped
  <2>3. CASE n # 0
    <3>1. PICK q \in Nat : q = n - 1 /\ q + 1 = n
      <4>1. n - 1 \in Nat /\ (n - 1) + 1 = n
        BY <2>3
      <4> QED BY <4>1
    <3>2. PICK s \in Nat, t \in Nat :
               /\ s = q \div PageEntries
               /\ t = (q % PageEntries) + 1
               /\ q + 1 = t + Full(s)
               /\ t > 0 /\ t <= PageEntries
      BY Paging
    <3>3. s = Leaves(n)
      BY <2>3, <3>1, <3>2 DEF Leaves
    <3>4. PICK e \in Nat : e = Full(s) /\ e >= s
      BY FullBound
    <3>5. n = t + e /\ n - e = t /\ s \in 0 .. n
      <4>1. n = t + e
        BY <3>1, <3>2, <3>4, Zenon
      <4> QED BY ONLY <3>4, <4>1, s \in Nat, t \in Nat, e \in Nat
    <3>6. new.tail = t /\ n = t + Full(s)
      BY <2>1, <3>3, <3>4, <3>5 DEF Full
    <3> QED BY <1>5, <1>6, <1>7, <1>8, <2>1, <3>2, <3>3, <3>5, <3>6 DEF Shaped
  <2> QED BY <2>2, <2>3
<1> QED BY <1>9, <1>10

-----------------------------------------------------------------------------
(* The roots an operation works from or designs.                           *)

\* A fresh path rewrite creates no page exactly when there is no path.
LEMMA FreshEmpty ==
    ASSUME NEW kind, NEW x, NEW from \in Nat, NEW n \in Nat, NEW ip \in Rewrites(n)
    PROVE  (Fresh(kind, x, from, ip) = {}) <=> (n = 0)
<1>1. CASE n = 0
  <2>1. ip = 0
    BY <1>1 DEF Rewrites
  <2>2. from .. from + 0 - 1 = {}
    OBVIOUS
  <2> QED BY <1>1, <2>1, <2>2 DEF Fresh
<1>2. CASE n # 0
  <2>1. ip \in n .. n * MaxPathPages
    BY <1>2 DEF Rewrites
  <2>2. ip \in Int /\ ip >= 1
    BY <1>2, <2>1
  <2>3. from \in from .. from + ip - 1
    BY <2>2
  <2> QED BY <1>2, <2>3 DEF Fresh
<1> QED BY <1>1, <1>2

\* A manifest that does not exist yet is accepted.
LEMMA EmptyAccepted == Accepted(EmptyRoot)
<1>1. /\ EmptyRoot.segs = <<>> /\ EmptyRoot.tail = 0 /\ EmptyRoot.pages = {}
      /\ EmptyRoot.legacy = FALSE /\ EmptyRoot.rev = 0
      /\ EmptyRoot.producers = [p \in Producers |-> NewState(0)]
  BY DEF EmptyRoot
<1>2. Len(<<>>) = 0 /\ 0 = 0 + Full(0) /\ 0 \in 0 .. 0 /\ 0 <= PageEntries
  BY FullBound, BoundsAssumption
<1>3. Shaped(EmptyRoot)
  BY <1>1, <1>2 DEF Shaped
<1> QED BY <1>1, <1>3 DEF Accepted, Acceptable

\* So is a legacy manifest.
LEMMA InitialAccepted ==
    ASSUME NEW r \in InitialRoots
    PROVE  Accepted(r)
<1>1. /\ r \in Roots /\ r.pages = {} /\ r.rev = Len(r.segs) /\ r.tail = Len(r.segs)
      /\ r.producers = [p \in Producers |-> NewState(0)]
      /\ r.legacy \/ r.segs = <<>>
  BY InitialRootFacts
<1>2. r.segs \in Seq(Descriptors)
  BY <1>1 DEF Roots
<1>3. PICK m \in Nat : m = Len(r.segs)
  BY <1>2, Length
<1>4. m = m + Full(0) /\ 0 \in 0 .. m /\ m <= m /\ (r.segs = <<>> => m <= PageEntries)
  <2>1. r.segs = <<>> => m = 0
    BY <1>3
  <2>2. m = m + 0 /\ 0 <= m /\ m <= m /\ 0 <= PageEntries
    BY BoundsAssumption
  <2> QED BY <2>1, <2>2, FullBound
<1>5. Shaped(r)
  BY <1>1, <1>3, <1>4 DEF Shaped
<1> QED BY <1>1, <1>5 DEF Accepted, Acceptable

\* Readers accept the root prepare_append designs.
LEMMA PrepareAccepted ==
    ASSUME OpOK, RestOK, NEW a \in Actors, Prepare(a), Accepted(loaded[a]),
           \A p \in Producers : Acceptable(work[a].states[p], work[a].next)
    PROVE  Accepted(draft'[a])
<1>1. PICK r : r = loaded[a]
  OBVIOUS
<1>2. PICK w : w = work[a]
  OBVIOUS
<1>3. PICK s : s = NewSegments(a, w)
  OBVIOUS
<1>4. r \in Roots /\ w \in Works /\ made[a] \in Nat /\ w.adds # <<>>
  BY <1>1, <1>2 DEF OpOK, RestOK, Prepare
<1>5. PICK n \in Nat : n = Len(w.adds) /\ n > 0
  <2>1. w.adds \in Seq([base: Nat, batch: AllBatches])
    BY <1>4 DEF Works, AllBatches
  <2> QED BY <1>4, <2>1, Length
<1>6. s \in Seq(Descriptors) /\ s # <<>> /\ Len(s) = n
  BY <1>3, <1>4, <1>5, NewSegmentsType
<1>7. \E ip \in Rewrites(Seals(r, n)) : \E dir :
      \E ps \in Rewritten(r.pages, Fresh("idx", a, made[a] + n, ip)), ds \in Rewritten(r.dir, dir) :
          draft' = [draft EXCEPT ![a] = AppendedRoot(r, w, s, ps, ds)]
  <2>1. PICK ip \in Rewrites(Seals(loaded[a], Len(work[a].adds))),
             dp \in Rewrites(Cardinality(StateEntries(work[a]))) :
        \E ps \in Rewritten(loaded[a].pages, Fresh("idx", a, made[a] + Len(work[a].adds), ip)),
           ds \in Rewritten(loaded[a].dir,
                            Fresh("dir", a, made[a] + Len(work[a].adds) + ip, dp)) :
           /\ draft' = [draft EXCEPT ![a] =
                           AppendedRoot(loaded[a], work[a], NewSegments(a, work[a]), ps, ds)]
           /\ todo' = [todo EXCEPT ![a] =
                  SegObjects(NewSegments(a, work[a]))
                      \cup Fresh("idx", a, made[a] + Len(work[a].adds), ip)
                      \cup Fresh("dir", a, made[a] + Len(work[a].adds) + ip, dp)]
           /\ made' = [made EXCEPT ![a] = @ + Len(work[a].adds) + ip + dp]
    BY DEF Prepare
  <2>2. PICK ps \in Rewritten(loaded[a].pages, Fresh("idx", a, made[a] + Len(work[a].adds), ip)),
             ds \in Rewritten(loaded[a].dir,
                              Fresh("dir", a, made[a] + Len(work[a].adds) + ip, dp)) :
           draft' = [draft EXCEPT ![a] =
                        AppendedRoot(loaded[a], work[a], NewSegments(a, work[a]), ps, ds)]
    BY <2>1
  <2>3. /\ ip \in Rewrites(Seals(r, n)) /\ ps \in Rewritten(r.pages, Fresh("idx", a, made[a] + n, ip))
        /\ ds \in Rewritten(r.dir, Fresh("dir", a, made[a] + n + ip, dp))
        /\ draft' = [draft EXCEPT ![a] = AppendedRoot(r, w, s, ps, ds)]
    BY <1>1, <1>2, <1>3, <1>5, <2>1, <2>2
  <2> QED BY <2>3, Zenon
<1>8. PICK ip \in Rewrites(Seals(r, n)) : \E dir :
      \E ps \in Rewritten(r.pages, Fresh("idx", a, made[a] + n, ip)), ds \in Rewritten(r.dir, dir) :
          draft' = [draft EXCEPT ![a] = AppendedRoot(r, w, s, ps, ds)]
  BY <1>7
<1>9. PICK idx : idx = Fresh("idx", a, made[a] + n, ip)
  OBVIOUS
<1>10. PICK ps \in Rewritten(r.pages, idx) : \E ds :
          draft' = [draft EXCEPT ![a] = AppendedRoot(r, w, s, ps, ds)]
  BY <1>8, <1>9
<1>11. PICK ds : draft'[a] = AppendedRoot(r, w, s, ps, ds)
  BY <1>10 DEF OpOK
<1>12. (idx = {}) <=> (Seals(r, Len(s)) = 0)
  <2>1. Seals(r, n) \in Nat /\ made[a] + n \in Nat
    BY <1>4, <1>5, SealsType
  <2> QED BY ONLY <1>6, <1>9, <2>1, ip \in Rewrites(Seals(r, n)), FreshEmpty
<1>13. Shaped(draft'[a])
  <2>1. Shaped(r)
    BY <1>1 DEF Accepted
  <2>2. ps \in Rewritten(r.pages, idx)
    BY <1>10
  <2> QED BY ONLY <1>4, <1>6, <1>11, <1>12, <2>1, <2>2, AppendedShaped, Zenon
<1>14. draft'[a].producers = w.states /\ draft'[a].next = w.next
  BY <1>4, <1>11 DEF AppendedRoot, Roots
<1> QED BY <1>2, <1>13, <1>14 DEF Accepted

\* Readers accept the root maintenance plans.
LEMMA PlanAccepted ==
    ASSUME OpOK, RestOK, NEW m \in Actors, Plan(m), pc' # [pc EXCEPT ![m] = "idle"],
           Accepted(loaded[m])
    PROVE  Accepted(draft'[m])
<1>1. PICK r : r = loaded[m]
  OBVIOUS
<1>2. r \in Roots /\ made[m] \in Nat /\ r.segs \in Seq(Descriptors)
  <2>1. r \in Roots /\ made[m] \in Nat
    BY <1>1 DEF OpOK, RestOK
  <2> QED BY <2>1 DEF Roots
<1>3. \E k \in 0 .. Len(r.segs) :
        \E ip \in Rewrites(IF k # 0 \/ r.legacy THEN Leaves(Len(r.segs) - k) ELSE 0) :
          draft' = [draft EXCEPT ![m] = RetainedRoot(r, k, IF k # 0 \/ r.legacy
                                                           THEN Fresh("idx", m, made[m], ip)
                                                           ELSE r.pages)]
  BY <1>1 DEF Plan, Return
<1>4. PICK k \in 0 .. Len(r.segs) :
        \E ip \in Rewrites(IF k # 0 \/ r.legacy THEN Leaves(Len(r.segs) - k) ELSE 0) :
          draft'[m] = RetainedRoot(r, k, IF k # 0 \/ r.legacy
                                         THEN Fresh("idx", m, made[m], ip) ELSE r.pages)
  BY <1>3 DEF OpOK
<1>5. PICK n \in Nat : n = Len(r.segs) - k
  <2>1. PICK l \in Nat : l = Len(r.segs)
    BY <1>2, Length
  <2>2. k \in 0 .. l
    BY <2>1
  <2>3. l - k \in Nat
    BY <2>2
  <2> QED BY <2>1, <2>3
<1>6. \E idx : /\ (idx = {}) <=> (Leaves(n) = 0)
               /\ draft'[m] = RetainedRoot(r, k, IF k # 0 \/ r.legacy THEN idx ELSE r.pages)
  <2>1. CASE k # 0 \/ r.legacy
    <3>1. PICK ip \in Rewrites(Leaves(n)) :
              draft'[m] = RetainedRoot(r, k, Fresh("idx", m, made[m], ip))
      BY <1>4, <1>5, <2>1
    <3>2. (Fresh("idx", m, made[m], ip) = {}) <=> (Leaves(n) = 0)
      <4>1. Leaves(n) \in Nat
        BY LeavesType
      <4> QED BY ONLY <1>2, <4>1, ip \in Rewrites(Leaves(n)), FreshEmpty
    <3> QED BY <2>1, <3>1, <3>2
  <2>2. CASE ~(k # 0 \/ r.legacy)
    <3>1. PICK idx : (idx = {}) <=> (Leaves(n) = 0)
      <4>1. ({} = {} <=> Leaves(n) = 0) \/ ({{}} = {} <=> Leaves(n) = 0)
        OBVIOUS
      <4> QED BY <4>1
    <3> QED BY <1>4, <2>2, <3>1
  <2> QED BY <2>1, <2>2
<1>7. PICK idx : /\ (idx = {}) <=> (Leaves(n) = 0)
                 /\ draft'[m] = RetainedRoot(r, k, IF k # 0 \/ r.legacy THEN idx ELSE r.pages)
  BY <1>6
<1>8. Shaped(draft'[m])
  BY <1>1, <1>2, <1>5, <1>7, RetainedShaped DEF Accepted
<1>9. draft'[m].producers = r.producers /\ draft'[m].next = r.next
  BY <1>2, <1>7 DEF RetainedRoot, Trimmed, Roots
<1> QED BY <1>1, <1>8, <1>9 DEF Accepted

\* A batch found to be new leaves acceptable private states.
LEMMA AdditionAcceptable ==
    ASSUME NEW w \in Works, Len(w.results) < Len(w.req), Judge(w) = "new",
           \A p \in Producers : Acceptable(w.states[p], w.next), NEW p \in Producers
    PROVE  Acceptable(Addition(w).states[p], Addition(w).next)
<1>1. PICK b \in AllBatches : b = Current(w)
  BY CurrentType
<1>2. b.count \in Nat /\ (b.pid # NoProducer => b.pid \in Producers)
  BY DEF AllBatches, Batches
<1>3. w.states \in [Producers -> States(Contents)]
  BY DEF Works
<1>4. PICK next \in Nat : next = w.next
  BY DEF Works
<1>5. PICK v : v = Addition(w)
  OBVIOUS
<1>6. v.next = next + b.count /\ v.states = Learned(w.states, b, next)
  BY <1>1, <1>4, <1>5 DEF Addition, Works
<1>7. PICK end \in Nat : end = next + b.count /\ next <= end
  <2>1. next + b.count \in Nat /\ next <= next + b.count
    BY <1>2
  <2> QED BY <2>1
<1>8. CASE b.pid = p
  <2>1. Verdict(w.states[p], b) = "new"
    BY <1>1, <1>8, ActorsAssumption DEF Judge
  <2>2. v.states[p] = Remember(w.states[p], b, next)
    BY <1>3, <1>6, <1>8, ActorsAssumption DEF Learned
  <2>3. w.states[p] \in States(Contents) /\ Acceptable(w.states[p], next)
    BY <1>3, <1>4
  <2>4. Acceptable(Remember(w.states[p], b, next), next + b.count)
    BY ONLY <2>1, <2>3, b \in AllBatches, next \in Nat, RememberAcceptable
  <2> QED BY <1>5, <1>6, <2>2, <2>4
<1>9. CASE b.pid # p
  <2>1. v.states[p] = w.states[p]
    BY <1>2, <1>3, <1>6, <1>9 DEF Learned
  <2>2. w.states[p] \in States(Contents) /\ Acceptable(w.states[p], next)
    BY <1>3, <1>4
  <2>3. Acceptable(w.states[p], end)
    BY <1>7, <2>2, AcceptableGrows
  <2> QED BY <1>5, <1>6, <1>7, <2>1, <2>3
<1> QED BY <1>8, <1>9

-----------------------------------------------------------------------------
(* The actions.                                                            *)

\* What the invariant says about one operation.
Sound(x) ==
    /\ Accepted(loaded[x]) /\ Accepted(draft[x])
    /\ pc[x] = "decide" => \A p \in Producers : Acceptable(work[x].states[p], work[x].next)

Keeps(x) ==
    pc'[x] = pc[x] /\ loaded'[x] = loaded[x] /\ draft'[x] = draft[x] /\ work'[x] = work[x]

\* A step of x that publishes only what x or a late request designed.
LEMMA StepSound ==
    ASSUME ValidInv, NEW x \in Actors, Sound(x)',
           \A y \in Actors \ {x} : Keeps(y),
           \/ root' = root \/ root' = draft[x] \/ \E q \in lateCas : root' = q.new,
           \A q \in lateCas' : q \in lateCas \/ q.new = draft[x]
    PROVE  ValidInv'
<1>1. Accepted(root') /\ \A q \in lateCas' : Accepted(q.new)
  BY DEF ValidInv
<1>2. \A y \in Actors : Sound(y)'
  BY DEF ValidInv, Keeps, Sound
<1> QED BY <1>1, <1>2 DEF ValidInv, Sound

\* The end of a call or of an attempt forgets the roots.
LEMMA EndsSound ==
    ASSUME OpOK, NEW x \in Actors, (\E o : Return(x, o)) \/ Again(x)
    PROVE  Sound(x)' /\ \A y \in Actors \ {x} : Keeps(y)
<1>1. loaded'[x] = EmptyRoot /\ draft'[x] = EmptyRoot /\ pc'[x] # "decide"
  BY DEF Return, Again, OpOK
<1> QED BY <1>1, EmptyAccepted, EndsCleared DEF Sound, Keeps

\* The ends of calls and attempts, successful or not.
LEMMA EndSound ==
    ASSUME OpOK, ValidInv, NEW x \in Actors, (\E o : Return(x, o)) \/ Again(x),
           root' = root \/ root' = draft[x],
           \A q \in lateCas' : q \in lateCas \/ q.new = draft[x]
    PROVE  ValidInv'
  BY EndsSound, StepSound

\* The actions of an append.
LEMMA AppendSound ==
    ASSUME OpOK, RestOK, ValidInv, NEW a \in Actors, StartAppend(a) \/ AppendStep(a)
    PROVE  ValidInv'
<1>0. Sound(a)
  BY DEF ValidInv, Sound
<1>1. CASE StartAppend(a)
  <2>1. pc'[a] = "load" /\ UNCHANGED <<root, lateCas, loaded, draft>>
        /\ \A y \in Actors \ {a} : Keeps(y)
    BY <1>1 DEF StartAppend, Start, store, late, OpOK, Keeps
  <2> QED BY <1>0, <2>1, StepSound DEF Sound
<1>2. CASE LoadAppend(a)
  <2>1. /\ UNCHANGED <<root, lateCas, draft>> /\ pc' = [pc EXCEPT ![a] = "decide"]
        /\ loaded' = [loaded EXCEPT ![a] = root]
        /\ work' = [work EXCEPT ![a].next = root.next, ![a].states = root.producers]
    BY <1>2 DEF LoadAppend, Load, store, late
  <2>2. \A y \in Actors \ {a} : Keeps(y)
    BY <2>1 DEF Keeps, OpOK
  <2>3. work'[a].next = root.next /\ work'[a].states = root.producers
    <3>1. work'[a] = [work[a] EXCEPT !.next = root.next, !.states = root.producers]
          /\ work[a] \in Works
      BY <2>1 DEF OpOK
    <3> QED BY <3>1 DEF Works
  <2>4. loaded'[a] = root /\ Accepted(root)
    BY <2>1 DEF OpOK, ValidInv
  <2> QED BY <1>0, <2>1, <2>2, <2>3, <2>4, StepSound DEF Sound, Accepted
<1>3. CASE Decide(a)
  <2>1. UNCHANGED <<root, lateCas>> /\ pc[a] = "decide" /\ Len(work[a].results) < Len(work[a].req)
    BY <1>3 DEF Decide, store, late
  <2>2. CASE \E o : Return(a, o)
    BY <2>1, <2>2, EndSound
  <2>3. CASE ~\E o : Return(a, o)
    <3>1. /\ \/ Judge(work[a]) = "new" /\ work' = [work EXCEPT ![a] = Addition(work[a])]
             \/ work' = [work EXCEPT ![a] = Duplicate(work[a])]
          /\ UNCHANGED <<pc, loaded, draft>>
      BY <1>3, <2>3 DEF Decide
    <3>2. \A y \in Actors \ {a} : Keeps(y)
      BY <3>1 DEF Keeps, OpOK
    <3>3. PICK w \in Works : w = work[a]
      BY DEF OpOK
    <3>4. \A p \in Producers : Acceptable(w.states[p], w.next)
      BY <1>0, <2>1, <3>3 DEF Sound
    <3>5. \A p \in Producers : Acceptable(work'[a].states[p], work'[a].next)
      <4>1. CASE Judge(w) = "new" /\ work'[a] = Addition(w)
        BY <2>1, <3>3, <3>4, <4>1, AdditionAcceptable
      <4>2. CASE work'[a] = Duplicate(w)
        <5>1. work'[a].states = w.states /\ work'[a].next = w.next
          BY <4>2 DEF Duplicate, Works
        <5> QED BY <3>4, <5>1
      <4> QED BY <3>1, <3>3, <4>1, <4>2 DEF OpOK
    <3> QED BY <1>0, <2>1, <3>1, <3>2, <3>5, StepSound DEF Sound
  <2> QED BY <2>2, <2>3
<1>4. CASE AnswerDuplicates(a)
  BY <1>4, EndSound DEF AnswerDuplicates, store, late
<1>5. CASE Prepare(a)
  <2>1. UNCHANGED <<root, lateCas, loaded, work>> /\ pc[a] = "decide"
        /\ pc' = [pc EXCEPT ![a] = "write"]
    BY <1>5 DEF Prepare, Decided, store, late
  <2>2. Accepted(draft'[a])
    BY <1>0, <1>5, <2>1, PrepareAccepted DEF Sound
  <2>3. draft' = [draft EXCEPT ![a] = draft'[a]]
    BY <1>5, PrepareFacts
  <2>4. pc'[a] = "write" /\ \A y \in Actors \ {a} : Keeps(y)
    BY <2>1, <2>3 DEF Keeps, OpOK
  <2> QED BY <1>0, <2>1, <2>2, <2>4, StepSound DEF Sound
<1>6. CASE CommitAppend(a)
  BY <1>6, EndSound DEF CommitAppend, Publish, late
<1> QED BY <1>1, <1>2, <1>3, <1>4, <1>5, <1>6 DEF AppendStep

\* The actions of a fetch.
LEMMA FetchKeepsSound ==
    ASSUME OpOK, RestOK, ValidInv, NEW f \in Actors, StartFetch(f) \/ FetchStep(f)
    PROVE  ValidInv'
<1>0. Sound(f) /\ Accepted(root)
  BY DEF ValidInv, Sound
<1>1. UNCHANGED <<root, lateCas>>
  BY DEF StartFetch, FetchStep, LoadFetch, FinishFetch, Start, Load, store, late
<1>2. CASE \E o : Return(f, o)
  BY <1>1, <1>2, EndSound
<1>3. CASE StartFetch(f)
  <2>1. pc'[f] = "load" /\ UNCHANGED <<loaded, draft>> /\ \A y \in Actors \ {f} : Keeps(y)
    BY <1>3 DEF StartFetch, Start, OpOK, Keeps
  <2> QED BY <1>0, <1>1, <2>1, StepSound DEF Sound
<1>4. CASE FetchStep(f) /\ ~\E o : Return(f, o)
  <2>1. /\ pc' = [pc EXCEPT ![f] = "read"] /\ loaded' = [loaded EXCEPT ![f] = root]
        /\ UNCHANGED <<draft, work>>
    BY <1>4 DEF FetchStep, LoadFetch, FinishFetch, Load
  <2>2. pc'[f] = "read" /\ loaded'[f] = root /\ \A y \in Actors \ {f} : Keeps(y)
    BY <2>1 DEF OpOK, Keeps
  <2> QED BY <1>0, <1>1, <2>1, <2>2, StepSound DEF Sound
<1> QED BY <1>2, <1>3, <1>4

\* The actions of maintenance.
LEMMA MaintainSound ==
    ASSUME OpOK, RestOK, ValidInv, NEW m \in Actors, StartMaintain(m) \/ MaintainStep(m)
    PROVE  ValidInv'
<1>0. Sound(m) /\ Accepted(root)
  BY DEF ValidInv, Sound
<1>1. ASSUME UNCHANGED <<work, lateCas>>, root' = root \/ root' = draft[m],
             pc' = [pc EXCEPT ![m] = pc'[m]], loaded' = [loaded EXCEPT ![m] = loaded'[m]],
             draft' = [draft EXCEPT ![m] = draft'[m]],
             pc'[m] # "decide", Accepted(loaded'[m]), Accepted(draft'[m])
      PROVE  ValidInv'
  <2>1. Sound(m)' /\ \A y \in Actors \ {m} : Keeps(y)
    BY <1>1 DEF Sound, Keeps, OpOK
  <2> QED BY <1>1, <2>1, StepSound
<1>2. CASE (\E o : Return(m, o)) /\ UNCHANGED <<root, lateCas>>
  BY <1>2, EndSound
<1>3. CASE StartMaintain(m)
  BY <1>0, <1>1, <1>3 DEF StartMaintain, Start, OpOK, store, late, Sound
<1>4. CASE ListObjects(m)
  <2>1. CASE ~\E o : Return(m, o)
    <3>1. /\ UNCHANGED <<root, lateCas, loaded, draft, work>> /\ pc[m] = "list"
          /\ pc' = [pc EXCEPT ![m] = "load"] \/ UNCHANGED pc
      BY <1>4, <2>1, Zenon DEF ListObjects, store, late
    <3> QED BY <1>0, <1>1, <3>1 DEF OpOK, Sound
  <2> QED BY <1>2, <1>4, <2>1 DEF ListObjects, store, late
<1>5. CASE LoadMaintain(m)
  BY <1>0, <1>1, <1>5 DEF LoadMaintain, Load, OpOK, store, late, Sound
<1>6. CASE Plan(m)
  <2>1. UNCHANGED <<root, lateCas>>
    BY <1>6 DEF Plan, store, late
  <2>2. CASE pc' = [pc EXCEPT ![m] = "idle"]
    <3>1. pc' # [pc EXCEPT ![m] = "write"]
      BY <2>2 DEF OpOK
    <3>2. \E o : Return(m, o)
      BY <1>6, <3>1, Zenon DEF Plan
    <3> QED BY <1>2, <2>1, <3>2
  <2>3. CASE pc' # [pc EXCEPT ![m] = "idle"]
    <3>1. /\ draft' = [draft EXCEPT ![m] = draft'[m]] /\ pc' = [pc EXCEPT ![m] = "write"]
          /\ UNCHANGED <<loaded, work>>
      BY <1>6, <2>3, PlanFacts
    <3>2. Accepted(draft'[m])
      BY <1>0, <1>6, <2>3, PlanAccepted DEF Sound
    <3> QED BY <1>0, <1>1, <2>1, <3>1, <3>2 DEF OpOK, Sound
  <2> QED BY <2>2, <2>3
<1>7. CASE TraceBudget(m) \/ FinishMaintain(m)
  BY <1>2, <1>7 DEF TraceBudget, FinishMaintain, store, late
<1>8. CASE PublishRetention(m)
  <2>1. /\ root' = draft[m] /\ UNCHANGED <<lateCas, work>>
        /\ loaded' = [loaded EXCEPT ![m] = draft[m]] /\ pc' = [pc EXCEPT ![m] = "retrace"]
        /\ draft' = [draft EXCEPT ![m] = EmptyRoot]
    BY <1>8 DEF PublishRetention, Publish, late
  <2> QED BY <1>0, <1>1, <2>1, EmptyAccepted DEF OpOK, Sound
<1>9. CASE AuthoriseDeletion(m)
  BY <1>0, <1>1, <1>9 DEF AuthoriseDeletion, OpOK, store, late, Sound
<1>10. CASE DeleteObject(m)
  <2>1. UNCHANGED <<root, lateCas, pc, loaded, draft, work>>
    BY <1>10 DEF DeleteObject, late
  <2> QED BY <2>1 DEF ValidInv
<1> QED BY <1>3, <1>4, <1>5, <1>6, <1>7, <1>8, <1>9, <1>10 DEF MaintainStep

\* Every step preserves the invariant.
LEMMA ValidNext == TypeOK /\ ValidInv /\ [Next]_vars => ValidInv'
<1> SUFFICES ASSUME OpOK, RestOK, ValidInv, [Next]_vars
             PROVE  ValidInv'
  BY DEF TypeOK, OpOK, RestOK
<1>1. CASE \E a \in Appenders : StartAppend(a) \/ AppendStep(a)
  BY <1>1, AppendSound DEF Actors
<1>2. CASE \E f \in Fetchers : StartFetch(f) \/ FetchStep(f)
  BY <1>2, FetchKeepsSound DEF Actors
<1>3. CASE \E m \in Maintainers : StartMaintain(m) \/ MaintainStep(m)
  BY <1>3, MaintainSound DEF Actors
<1>4. CASE (\E x \in Actors : PutObject(x)) \/ LatePut \/ LateDelete \/ UNCHANGED vars
  <2>1. UNCHANGED <<root, lateCas, pc, loaded, draft, work>>
    BY <1>4 DEF PutObject, LatePut, LateDelete, late, vars, store, op
  <2> QED BY <2>1 DEF ValidInv
<1>5. CASE \E x \in Actors : LoseRace(x) \/ StaleMissing(x)
  BY <1>5, EndSound DEF LoseRace, StaleMissing, store, late
<1>6. CASE \E x \in Actors : MissingRead(x)
  <2>1. /\ UNCHANGED <<root, lateCas, loaded, draft, work>>
        /\ \E x \in Actors : pc' = [pc EXCEPT ![x] = "check"]
    BY <1>6 DEF MissingRead, store, late, op
  <2>2. \A y \in Actors : pc'[y] = "decide" => pc[y] = "decide"
    BY <2>1 DEF OpOK
  <2> QED BY <2>1, <2>2 DEF ValidInv
<1>7. CASE \E x \in Actors : Fail(x)
  <2>1. PICK x \in Actors : Fail(x)
    BY <1>7
  <2>2. (\E o : Return(x, o)) /\ UNCHANGED root
    BY <2>1 DEF Fail, store
  <2>3. \A q \in lateCas' : q \in lateCas \/ q.new = draft[x]
    BY <2>1 DEF Fail, late
  <2> QED BY <2>2, <2>3, EndSound
<1>8. CASE LateCas
  <2>1. /\ lateCas' \subseteq lateCas /\ UNCHANGED <<pc, loaded, draft, work>>
        /\ root' = root \/ \E q \in lateCas : root' = q.new
    BY <1>8 DEF LateCas, Publish, op
  <2> QED BY <2>1 DEF ValidInv
<1> QED BY <1>1, <1>2, <1>3, <1>4, <1>5, <1>6, <1>7, <1>8 DEF Next, Step

-----------------------------------------------------------------------------
(* The theorems.                                                           *)

\* The invariant holds throughout.
THEOREM ValidInvariant == Spec => []ValidInv
<1>1. Init => ValidInv
  <2> SUFFICES ASSUME Init PROVE ValidInv
    OBVIOUS
  <2>1. Accepted(root)
    BY InitialAccepted DEF Init
  <2>2. ASSUME NEW x \in Actors
        PROVE  Accepted(loaded[x]) /\ Accepted(draft[x]) /\ pc[x] = "idle"
    BY EmptyAccepted DEF Init
  <2>3. lateCas = {}
    BY DEF Init
  <2> QED BY <2>1, <2>2, <2>3 DEF ValidInv
<1>2. TypeOK /\ ValidInv /\ [Next]_vars => ValidInv'
  BY ValidNext
<1> QED BY <1>1, <1>2, TypeCorrect, PTL DEF Spec

(***************************************************************************)
(* Whatever publishes, the manifest passes the validation of its readers:  *)
(* appends, retention and rebuilds by any number of processes never lead   *)
(* to a tail out of bounds, a leaf that is not full, a revision behind the *)
(* segments or a producer state that does not follow its own sequence.     *)
(***************************************************************************)
THEOREM AlwaysReadable == Spec => []RootValid
<1>1. TypeOK /\ ValidInv => RootValid
  <2> SUFFICES ASSUME TypeOK, ValidInv, ~root.legacy
               PROVE  /\ root.tail <= PageEntries
                      /\ root.pages = {} <=> Len(root.segs) = root.tail
                      /\ root.pages # {} => root.tail > 0
                      /\ (Len(root.segs) - root.tail) % PageEntries = 0
                      /\ Len(root.segs) <= root.rev
                      /\ \A p \in Producers :
                             \/ root.producers[p] = NewState(0)
                             \/ /\ ValidState(root.producers[p], root.next)
                                /\ Expected(root.producers[p]) \in 0 .. SeqModulus - 1
    BY DEF RootValid
  <2>1. Accepted(root) /\ root \in Roots
    BY DEF ValidInv, TypeOK
  <2>2. root.tail <= PageEntries /\ Len(root.segs) <= root.rev
    BY <2>1 DEF Accepted, Shaped
  <2>3. root.segs \in Seq(Descriptors) /\ root.producers \in [Producers -> States(Contents)]
    BY <2>1 DEF Roots
  <2>4. PICK m \in Nat, t \in Nat : m = Len(root.segs) /\ t = root.tail
    BY <2>1, <2>3 DEF Roots
  <2>5. PICK c \in Nat : /\ m = t + Full(c)
                         /\ root.pages = {} <=> c = 0
                         /\ c # 0 => t > 0
    BY <2>1, <2>4 DEF Accepted, Shaped
  <2>6. PICK e \in Nat : e = c * PageEntries /\ e = Full(c) /\ e >= c /\ (c = 0 => e = 0)
    BY <2>5, FullBound DEF Full
  <2>7. m - t = e /\ (c = 0 <=> m = t)
    BY <2>5, <2>6
  <2>8. e % PageEntries = 0
    BY <2>6, BoundsAssumption
  <2>9. ASSUME NEW p \in Producers
        PROVE  \/ root.producers[p] = NewState(0)
               \/ /\ ValidState(root.producers[p], root.next)
                  /\ Expected(root.producers[p]) \in 0 .. SeqModulus - 1
    BY <2>1, <2>3, ExpectedRange DEF Accepted, Acceptable
  <2> QED BY <2>2, <2>4, <2>5, <2>7, <2>8, <2>9
<1> QED BY <1>1, ValidInvariant, TypeCorrect, PTL
============================================================================
