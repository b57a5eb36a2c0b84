------------------------ MODULE PartitionLogHistory ------------------------
(***************************************************************************)
(* What the manifest says of the commit history, for any number of         *)
(* brokers, maintenance processes, crashes and late requests: no update is *)
(* lost (RootMatchesHistory), revisions and offsets only move forward      *)
(* (RootMovesForward), and a fetch returns a gapless piece of the history  *)
(* (FetchSound).                                                           *)
(*                                                                         *)
(* None of the three is inductive.  A root is replaced by a draft that was *)
(* designed several steps earlier, or by a late conditional write of an    *)
(* operation that is long gone; so the strengthening follows a draft from  *)
(* its design to its publication: every draft, and every conditional write *)
(* still under way, either appends dense batches to the root it was made   *)
(* from or drops some of its first batches (Follows).                      *)
(***************************************************************************)
EXTENDS PartitionLogSafety, SequenceTheorems

\* Every batch starts where the previous one ends, the first one at `from`.
DenseFrom(s, from) ==
    \A i \in DOMAIN s : s[i].base = IF i = 1 THEN from ELSE End(s[i - 1])

\* Where a dense sequence that starts at `from` ends.
EndFrom(s, from) == IF s = <<>> THEN from ELSE End(s[Len(s)])

\* The sequence r is the end of the sequence h.
EndOf(h, r) ==
    /\ Len(r) <= Len(h)
    /\ \A i \in 1 .. Len(r) : r[i] = h[Len(h) - Len(r) + i]

\* The batches a conditional write of `new` over `old` commits.
Added(old, new) == SubSeq(new.segs, Len(old.segs) + 1, Len(new.segs))

\* A root holds the newest batches of the history h, and its offsets.
RootIn(h, r) ==
    /\ DenseFrom(h, 0)
    /\ EndOf(h, r.segs)
    /\ r.next = EndFrom(h, 0)
    /\ r.start = IF r.segs = <<>> THEN r.next ELSE r.segs[1].base

\* The root of an append.
Appends(old, new) ==
    /\ new.segs = old.segs \o Added(old, new)
    /\ Added(old, new) # <<>>
    /\ DenseFrom(Added(old, new), old.next)
    /\ new.next = EndFrom(Added(old, new), old.next)
    /\ new.start = old.start

\* The root of maintenance.
Retains(old, new) ==
    /\ \E k \in 0 .. Len(old.segs) : new.segs = SubSeq(old.segs, k + 1, Len(old.segs))
    /\ new.next = old.next
    /\ new.start = IF new.segs = <<>> THEN new.next ELSE new.segs[1].base

Follows(old, new) == Appends(old, new) \/ Retains(old, new)

\* The batches an append has found new continue the root it works from.
Continues(x) ==
    /\ DenseFrom(work[x].adds, loaded[x].next)
    /\ work[x].next = EndFrom(work[x].adds, loaded[x].next)

\* The sequence s is the piece of the sequence h behind its first d places.
PieceOf(h, d, s) ==
    /\ d + Len(s) <= Len(h)
    /\ \A i \in 1 .. Len(s) : s[i] = h[d + i]

\* A selection is a piece of the history h, and the requested offset is in
\* its first batch.
Selected(h, w) ==
    w.segs # <<>> =>
        /\ \E d \in 0 .. Len(h) : PieceOf(h, d, w.segs)
        /\ w.segs[1].base <= w.offset
        /\ w.offset < End(w.segs[1])

\* What an operation has designed so far follows the root it works from.
Designed(x) ==
    /\ pc[x] \in {"idle", "list", "load"} =>
           work[x].adds = <<>> /\ work[x].results = <<>> /\ want[x].segs = <<>>
    /\ pc[x] = "decide" => Continues(x)
    /\ pc[x] = "write" => Follows(loaded[x], draft[x])

(***************************************************************************)
(* The inductive invariant.                                                *)
(***************************************************************************)
HistoryInv ==
    /\ RootIn(history, root)
    /\ \A x \in Actors : Designed(x)
    /\ \A x \in Actors : Selected(history, want[x]) /\ Selected(history, got[x])
    /\ \A q \in lateCas : Follows(q.expect, q.new)

-----------------------------------------------------------------------------
(* Sequences, place by place.                                              *)

\* The length of a sequence is a number, positive unless it is empty.
LEMMA Length ==
    ASSUME NEW S, NEW s \in Seq(S)
    PROVE  \E n \in Nat : n = Len(s) /\ (s # <<>> => n > 0)
  OBVIOUS

\* Concatenation, place by place.
LEMMA ConcatAt ==
    ASSUME NEW S, NEW s \in Seq(S), NEW t \in Seq(S),
           NEW m \in Nat, m = Len(s), NEW n \in Nat, n = Len(t), NEW u, u = s \o t
    PROVE  /\ u \in Seq(S) /\ Len(u) = m + n
           /\ \A i \in 1 .. m : u[i] = s[i]
           /\ \A i \in 1 .. n : u[m + i] = t[i]
<1>1. /\ s \o t \in Seq(S) /\ Len(s \o t) = Len(s) + Len(t)
      /\ \A i \in 1 .. Len(s) : (s \o t)[i] = s[i]
      /\ \A i \in 1 .. Len(t) : (s \o t)[Len(s) + i] = t[i]
  OBVIOUS
<1> QED BY <1>1, Zenon

\* A piece of a sequence, place by place.
LEMMA PieceAt ==
    ASSUME NEW S, NEW s \in Seq(S), NEW d \in Nat, NEW n \in Nat, d + n <= Len(s),
           NEW u, u = SubSeq(s, d + 1, d + n)
    PROVE  u \in Seq(S) /\ Len(u) = n /\ \A i \in 1 .. n : u[i] = s[d + i]
<1>1. PICK m \in Nat : m = d + n
  OBVIOUS
<1>2. \A i \in d + 1 .. m : s[i] \in S
  BY <1>1
<1>3. u = SubSeq(s, d + 1, m)
  BY <1>1
<1>4. /\ u \in Seq(S)
      /\ Len(u) = IF d + 1 <= m THEN m - (d + 1) + 1 ELSE 0
      /\ \A i \in 1 .. m - (d + 1) + 1 : u[i] = s[(d + 1) + i - 1]
  BY <1>2, <1>3, SubSeqProperties
<1>5. Len(u) = n /\ \A i \in 1 .. n : u[i] = s[d + i]
  BY <1>1, <1>4
<1> QED BY <1>4, <1>5

\* The same of a piece given by its last place.
LEMMA PieceUpTo ==
    ASSUME NEW S, NEW s \in Seq(S), NEW d \in Nat, NEW n \in Nat, NEW m, m = d + n,
           m <= Len(s), NEW u, u = SubSeq(s, d + 1, m)
    PROVE  u \in Seq(S) /\ Len(u) = n /\ \A i \in 1 .. n : u[i] = s[d + i]
<1>1. d + n \in Nat /\ \A i \in d + 1 .. m : s[i] \in S
  OBVIOUS
<1>2. /\ u \in Seq(S)
      /\ Len(u) = IF d + 1 <= m THEN m - (d + 1) + 1 ELSE 0
      /\ \A i \in 1 .. m - (d + 1) + 1 : u[i] = s[(d + 1) + i - 1]
  BY <1>1, SubSeqProperties
<1>3. Len(u) = n
  BY <1>1, <1>2
<1>4. ASSUME NEW i \in 1 .. n PROVE u[i] = s[d + i]
  <2>1. i \in 1 .. m - (d + 1) + 1 /\ (d + 1) + i - 1 = d + i
    OBVIOUS
  <2> QED BY <1>2, <2>1, Zenon
<1> QED BY <1>2, <1>3, <1>4

\* Sequences that agree place by place are equal.
LEMMA SameAt ==
    ASSUME NEW S, NEW s \in Seq(S), NEW t \in Seq(S), Len(s) = Len(t),
           \A i \in 1 .. Len(s) : s[i] = t[i]
    PROVE  s = t
  OBVIOUS

\* The difference of two lengths.
LEMMA Distance ==
    ASSUME NEW m \in Nat, NEW n \in Nat, m <= n
    PROVE  \E d \in Nat : n = d + m /\ n - m = d
<1>1. n - m \in Nat /\ n = (n - m) + m
  OBVIOUS
<1> QED BY <1>1

\* The end of a sequence stays its end when both grow alike.
LEMMA SuffixGrows ==
    ASSUME NEW S, NEW h \in Seq(S), NEW r \in Seq(S), NEW t \in Seq(S), EndOf(h, r)
    PROVE  EndOf(h \o t, r \o t)
<1>1. PICK lh \in Nat : lh = Len(h)
  BY Length
<1>2. PICK lr \in Nat : lr = Len(r)
  BY Length
<1>3. PICK lt \in Nat : lt = Len(t)
  BY Length
<1> DEFINE v == h \o t
           u == r \o t
<1>4. /\ v \in Seq(S) /\ Len(v) = lh + lt
      /\ \A i \in 1 .. lh : v[i] = h[i]
      /\ \A i \in 1 .. lt : v[lh + i] = t[i]
  BY <1>1, <1>3, ConcatAt
<1>5. /\ u \in Seq(S) /\ Len(u) = lr + lt
      /\ \A i \in 1 .. lr : u[i] = r[i]
      /\ \A i \in 1 .. lt : u[lr + i] = t[i]
  BY <1>2, <1>3, ConcatAt
<1> HIDE DEF u, v
<1>6. lr <= lh /\ \A i \in 1 .. lr : r[i] = h[lh - lr + i]
  BY <1>1, <1>2, Zenon DEF EndOf
<1>7. PICK d \in Nat : lh = d + lr /\ lh - lr = d
  BY <1>6, Distance
<1>8. ASSUME NEW i \in 1 .. lr + lt PROVE u[i] = v[d + i]
  <2>1. CASE i <= lr
    <3>1. i \in 1 .. lr /\ d + i \in 1 .. lh
      BY <1>7, <2>1
    <3>2. u[i] = r[i] /\ r[i] = h[d + i] /\ v[d + i] = h[d + i]
      BY <1>4, <1>5, <1>6, <1>7, <3>1, Zenon
    <3> QED BY <3>2
  <2>2. CASE i > lr
    <3>1. PICK j \in 1 .. lt : i = lr + j
      <4>1. i - lr \in 1 .. lt /\ i = lr + (i - lr)
        BY <2>2
      <4> QED BY <4>1
    <3>2. d + i = lh + j
      BY <1>7, <3>1
    <3> QED BY <1>4, <1>5, <3>1, <3>2, Zenon
  <2> QED BY <2>1, <2>2
<1>9. /\ lr + lt <= lh + lt /\ (lh + lt) - (lr + lt) = d
  BY <1>6, <1>7
<1>10. EndOf(v, u)
  BY <1>4, <1>5, <1>8, <1>9, Zenon DEF EndOf
<1> QED BY <1>10 DEF u, v

\* The end of a sequence, as the property writes it.
LEMMA SuffixIs ==
    ASSUME NEW S, NEW h \in Seq(S), NEW r \in Seq(S), EndOf(h, r)
    PROVE  r = SubSeq(h, Len(h) - Len(r) + 1, Len(h))
<1>1. PICK lh \in Nat : lh = Len(h)
  BY Length
<1>2. PICK lr \in Nat : lr = Len(r)
  BY Length
<1>3. lr <= lh /\ \A i \in 1 .. lr : r[i] = h[lh - lr + i]
  BY <1>1, <1>2, Zenon DEF EndOf
<1>4. PICK d \in Nat : lh = d + lr /\ lh - lr = d
  BY <1>3, Distance
<1>5. d + lr <= Len(h)
  BY <1>1, <1>4
<1> DEFINE u == SubSeq(h, d + 1, d + lr)
<1>6. u \in Seq(S) /\ Len(u) = lr /\ \A i \in 1 .. lr : u[i] = h[d + i]
  BY <1>5, PieceAt
<1> HIDE DEF u
<1>7. Len(r) = Len(u) /\ \A i \in 1 .. Len(r) : r[i] = u[i]
  BY <1>2, <1>3, <1>4, <1>6, Zenon
<1>8. r = u
  BY <1>6, <1>7, SameAt
<1> QED BY <1>1, <1>2, <1>4, <1>8, Zenon DEF u

-----------------------------------------------------------------------------
(* Dense sequences.                                                        *)

\* A dense sequence goes on where another one ends.
LEMMA DenseConcat ==
    ASSUME NEW S, NEW s \in Seq(S), NEW t \in Seq(S), NEW from,
           DenseFrom(s, from), DenseFrom(t, EndFrom(s, from))
    PROVE  /\ DenseFrom(s \o t, from)
           /\ EndFrom(s \o t, from) = EndFrom(t, EndFrom(s, from))
<1> DEFINE u == s \o t
<1>1. /\ u \in Seq(S) /\ Len(s) \in Nat /\ Len(t) \in Nat /\ Len(u) = Len(s) + Len(t)
      /\ \A i \in 1 .. Len(s) : u[i] = s[i]
      /\ \A i \in 1 .. Len(t) : u[Len(s) + i] = t[i]
  OBVIOUS
<1>2. ASSUME NEW i \in 1 .. Len(u)
      PROVE  u[i].base = IF i = 1 THEN from ELSE End(u[i - 1])
  <2>1. CASE i <= Len(s)
    <3>1. i \in DOMAIN s /\ u[i] = s[i] /\ (i # 1 => u[i - 1] = s[i - 1])
      BY <1>1, <1>2, <2>1
    <3> QED BY <3>1 DEF DenseFrom
  <2>2. CASE i = Len(s) + 1
    <3>1. u[i] = t[1] /\ 1 \in DOMAIN t /\ t[1].base = EndFrom(s, from)
      BY <1>1, <1>2, <2>2 DEF DenseFrom
    <3>2. CASE s = <<>>
      BY <2>2, <3>1, <3>2 DEF EndFrom
    <3>3. CASE s # <<>>
      BY <1>1, <2>2, <3>1, <3>3 DEF EndFrom
    <3> QED BY <3>2, <3>3
  <2>3. CASE i > Len(s) + 1
    <3>1. PICK j \in Nat : j = i - Len(s)
      BY <1>1, <1>2, <2>3
    <3>2. j \in DOMAIN t /\ j # 1 /\ u[i] = t[j] /\ u[i - 1] = t[j - 1]
      <4>1. j \in 1 .. Len(t) /\ j - 1 \in 1 .. Len(t)
        BY <1>1, <1>2, <2>3, <3>1
      <4>2. i = Len(s) + j /\ i - 1 = Len(s) + (j - 1)
        BY <1>1, <3>1
      <4> QED BY <1>1, <4>1, <4>2
    <3>3. t[j].base = End(t[j - 1])
      BY <3>2 DEF DenseFrom
    <3> QED BY <1>1, <2>3, <3>2, <3>3
  <2>4. PICK m \in Nat : m = Len(s)
    BY <1>1
  <2>5. i \in Nat
    OBVIOUS
  <2>6. i <= m \/ i = m + 1 \/ i > m + 1
    BY ONLY <2>4, <2>5
  <2> QED BY <2>1, <2>2, <2>3, <2>4, <2>6, Zenon
<1>3. DenseFrom(u, from)
  <2>1. DOMAIN u = 1 .. Len(u)
    BY <1>1
  <2> HIDE DEF u
  <2> QED BY <1>2, <2>1 DEF DenseFrom
<1>4. EndFrom(u, from) = EndFrom(t, EndFrom(s, from))
  <2>1. CASE t = <<>>
    BY <2>1 DEF EndFrom
  <2>2. CASE t # <<>>
    <3>1. u # <<>> /\ u[Len(u)] = t[Len(t)]
      BY <1>1, <2>2
    <3> QED BY <2>2, <3>1 DEF EndFrom
  <2> QED BY <2>1, <2>2
<1> QED BY <1>3, <1>4

\* Descriptors have natural offsets.
LEMMA DescriptorOffsets ==
    ASSUME NEW s \in Seq(Descriptors), NEW i \in DOMAIN s
    PROVE  s[i].base \in Nat /\ End(s[i]) \in Nat /\ s[i].base < End(s[i])
<1>1. PICK d \in Descriptors : d = s[i]
  OBVIOUS
<1>2. d.base \in Nat /\ d.batch \in AllBatches
  BY DEF Descriptors, AllBatches
<1>3. d.batch.count \in Nat \ {0}
  BY <1>2 DEF AllBatches, Batches
<1>4. End(d) = d.base + d.batch.count
  BY DEF End
<1>5. End(d) \in Nat /\ d.base < End(d)
  BY ONLY <1>2, <1>3, <1>4
<1> QED BY <1>1, <1>2, <1>5

\* The offsets of a dense sequence increase.
LEMMA DenseOrdered ==
    ASSUME NEW s \in Seq(Descriptors), NEW from \in Nat, DenseFrom(s, from),
           NEW i \in DOMAIN s, NEW j \in DOMAIN s, i < j
    PROVE  End(s[i]) <= s[j].base
<1>1. \A k \in DOMAIN s : s[k].base \in Nat /\ s[k].batch.count \in Nat \ {0}
  <2>1. \A k \in DOMAIN s : s[k] \in Descriptors
    OBVIOUS
  <2> QED BY <2>1 DEF Descriptors, Batches
<1> DEFINE T == {k \in DOMAIN s : i < k /\ ~(End(s[i]) <= s[k].base)}
<1>2. ASSUME T # {} PROVE FALSE
  <2>1. T \in SUBSET Nat
    OBVIOUS
  <2>2. PICK k \in T : \A l \in T : k <= l
    BY <1>2, <2>1, Minimum
  <2>3. k \in DOMAIN s /\ i < k /\ k - 1 \in DOMAIN s /\ k # 1
    BY <2>2
  <2>4. s[k].base = End(s[k - 1])
    BY <2>3 DEF DenseFrom
  <2>5. CASE k - 1 = i
    BY <1>1, <2>2, <2>4, <2>5 DEF End
  <2>6. CASE k - 1 # i
    <3>1. k - 1 \notin T /\ i < k - 1
      BY <2>2, <2>3, <2>6
    <3>2. End(s[i]) <= s[k - 1].base
      BY <2>3, <3>1
    <3>3. PICK a \in Nat : a = End(s[i])
      BY DescriptorOffsets
    <3>4. PICK b \in Nat : b = s[k - 1].base
      BY <2>3, DescriptorOffsets
    <3>5. PICK e \in Nat : e = s[k].base /\ b < e
      BY <2>3, <2>4, <3>4, DescriptorOffsets
    <3>6. ~(a <= e)
      BY <2>2, <3>3, <3>5
    <3>7. a <= b
      BY <3>2, <3>3, <3>4
    <3> QED BY ONLY <3>5, <3>6, <3>7, a \in Nat, b \in Nat
  <2> QED BY <2>5, <2>6
<1> QED BY <1>2

\* A dense sequence of batches does not end before it starts.
LEMMA DenseGrows ==
    ASSUME NEW s \in Seq(Descriptors), NEW from \in Nat, DenseFrom(s, from)
    PROVE  EndFrom(s, from) \in Nat /\ EndFrom(s, from) >= from
<1>1. CASE s = <<>>
  BY <1>1 DEF EndFrom
<1>2. CASE s # <<>>
  <2>0. PICK n \in Nat : n = Len(s) /\ n > 0
    BY <1>2, Length
  <2>1. 1 \in DOMAIN s /\ Len(s) \in DOMAIN s
    BY <1>2
  <2>2. \A k \in DOMAIN s : s[k].base \in Nat /\ End(s[k]) \in Nat /\ End(s[k]) >= s[k].base
    BY DescriptorOffsets
  <2>3. s[1].base = from
    BY <2>1 DEF DenseFrom
  <2>4. Len(s) = 1 \/ End(s[1]) <= s[Len(s)].base
    <3>1. CASE 1 < Len(s)
      BY <2>1, <3>1, DenseOrdered
    <3>2. n = 1 \/ 1 < n
      BY <2>0
    <3> QED BY <2>0, <3>1, <3>2
  <2> QED BY <1>2, <2>1, <2>2, <2>3, <2>4 DEF EndFrom
<1> QED BY <1>1, <1>2



-----------------------------------------------------------------------------
(* Publication.                                                            *)

\* The offsets of a root lie in the history.
LEMMA RootOffsets ==
    ASSUME NEW h \in Seq(Descriptors), NEW r \in Roots, RootIn(h, r)
    PROVE  r.next \in Nat /\ r.start \in Nat /\ r.start <= r.next
<1>1. r.segs \in Seq(Descriptors) /\ r.next \in Nat /\ r.start \in Nat
  BY DEF Roots
<1>2. PICK lh \in Nat : lh = Len(h)
  BY Length
<1>3. PICK lr \in Nat : lr = Len(r.segs) /\ (r.segs # <<>> => lr > 0)
  BY <1>1, Length
<1>4. CASE r.segs = <<>>
  BY <1>1, <1>4 DEF RootIn
<1>5. CASE r.segs # <<>>
  <2>1. lr <= lh /\ \A i \in 1 .. lr : r.segs[i] = h[lh - lr + i]
    BY <1>2, <1>3, Zenon DEF RootIn, EndOf
  <2>2. PICK d \in Nat : lh = d + lr /\ lh - lr = d
    BY <2>1, Distance
  <2>3. d + 1 \in 1 .. lh /\ lh \in 1 .. lh /\ 1 \in 1 .. lr /\ (d + 1 = lh \/ d + 1 < lh)
    BY <1>3, <1>5, <2>2
  <2>4. r.segs[1] = h[d + 1]
    BY <2>1, <2>2, <2>3, Zenon
  <2>5. DOMAIN h = 1 .. lh /\ h # <<>>
    BY <1>2, <2>3
  <2>6. /\ h[d + 1].base \in Nat /\ End(h[d + 1]) \in Nat /\ h[d + 1].base < End(h[d + 1])
        /\ h[lh].base \in Nat /\ End(h[lh]) \in Nat /\ h[lh].base < End(h[lh])
    <3>1. d + 1 \in DOMAIN h /\ lh \in DOMAIN h
      BY <2>3, <2>5
    <3> QED BY <3>1, DescriptorOffsets
  <2>7. d + 1 = lh \/ End(h[d + 1]) <= h[lh].base
    <3>1. d + 1 \in DOMAIN h /\ lh \in DOMAIN h
      BY <2>3, <2>5
    <3> QED BY <2>3, <3>1, DenseOrdered DEF RootIn
  <2>8. r.start = h[d + 1].base /\ r.next = End(h[lh])
    BY <1>2, <1>5, <2>4, <2>5, Zenon DEF RootIn, EndFrom
  <2>9. PICK a \in Nat, b \in Nat, c \in Nat, e \in Nat :
            a = h[d + 1].base /\ b = End(h[d + 1]) /\ c = h[lh].base /\ e = End(h[lh])
    BY <2>6
  <2>10. a < b /\ c < e /\ (a = c \/ b <= c)
    BY <2>6, <2>7, <2>9
  <2>11. a <= e
    BY <2>10
  <2> QED BY <1>1, <2>8, <2>9, <2>11
<1> QED BY <1>4, <1>5

\* The publication of an append extends the history by what it adds.
LEMMA PublishAppend ==
    ASSUME NEW h \in Seq(Descriptors), NEW old \in Roots, NEW new \in Roots,
           RootIn(h, old), Appends(old, new)
    PROVE  /\ Added(old, new) \in Seq(Descriptors)
           /\ RootIn(h \o Added(old, new), new)
           /\ new.start >= old.start /\ new.next >= old.next
<1>1. /\ old.segs \in Seq(Descriptors) /\ new.segs \in Seq(Descriptors)
      /\ old.next \in Nat /\ old.start \in Nat
  BY DEF Roots
<1>2. PICK t : t = Added(old, new)
  OBVIOUS
<1>3. t \in Seq(Descriptors) /\ t # <<>>
  <2>1. Added(old, new) \in Seq(Descriptors)
    BY <1>1 DEF Added
  <2> QED BY <1>2, <2>1 DEF Appends
<1>4. /\ new.segs = old.segs \o t /\ DenseFrom(t, old.next)
      /\ new.next = EndFrom(t, old.next) /\ new.start = old.start
  BY <1>2 DEF Appends
<1>5. DenseFrom(h, 0) /\ EndOf(h, old.segs) /\ old.next = EndFrom(h, 0)
  BY DEF RootIn
<1>6. DenseFrom(h \o t, 0) /\ EndFrom(h \o t, 0) = new.next
  BY <1>3, <1>4, <1>5, DenseConcat
<1>7. EndOf(h \o t, new.segs)
  BY <1>1, <1>3, <1>4, <1>5, SuffixGrows
<1>8. new.next >= old.next
  BY <1>1, <1>3, <1>4, DenseGrows
<1>9. new.segs # <<>> /\ new.start = new.segs[1].base
  <2>1. CASE old.segs = <<>>
    <3>1. new.segs = t
      BY <1>3, <1>4, <2>1
    <3>2. 1 \in DOMAIN t
      BY <1>3
    <3>3. t[1].base = old.next
      BY <1>4, <3>2 DEF DenseFrom
    <3> QED BY <1>3, <1>4, <2>1, <3>1, <3>3 DEF RootIn
  <2>2. CASE old.segs # <<>>
    <3>1. new.segs # <<>> /\ new.segs[1] = old.segs[1]
      BY <1>1, <1>3, <1>4, <2>2
    <3> QED BY <1>4, <2>2, <3>1 DEF RootIn
  <2> QED BY <2>1, <2>2
<1>10. RootIn(h \o t, new)
  BY <1>6, <1>7, <1>9 DEF RootIn
<1>11. new.start >= old.start
  BY <1>1, <1>4
<1> QED BY <1>2, <1>3, <1>8, <1>10, <1>11

\* The publication of maintenance commits nothing and trims at the front.
LEMMA PublishTrim ==
    ASSUME NEW h \in Seq(Descriptors), NEW old \in Roots, NEW new \in Roots,
           RootIn(h, old), Retains(old, new)
    PROVE  /\ Added(old, new) = <<>>
           /\ RootIn(h, new)
           /\ new.start >= old.start /\ new.next = old.next
<1>1. old.segs \in Seq(Descriptors) /\ old.next \in Nat /\ old.start \in Nat
  BY DEF Roots
<1>2. PICK lr \in Nat : lr = Len(old.segs)
  BY <1>1, Length
<1>3. PICK k \in Nat : k <= lr /\ new.segs = SubSeq(old.segs, k + 1, lr)
  BY <1>2 DEF Retains
<1>4. PICK n \in Nat : k + n = lr
  <2>1. lr - k \in Nat /\ k + (lr - k) = lr
    BY <1>3
  <2> QED BY <2>1
<1>5. /\ new.segs \in Seq(Descriptors) /\ Len(new.segs) = n /\ EndOf(h, new.segs)
      /\ \A i \in 1 .. n : new.segs[i] = old.segs[k + i]
  <2>1. EndOf(h, old.segs)
    BY DEF RootIn
  <2>2. PICK r : r = old.segs
    OBVIOUS
  <2>3. PICK s : s = new.segs
    OBVIOUS
  <2>4. r \in Seq(Descriptors) /\ EndOf(h, r) /\ lr = Len(r) /\ s = SubSeq(r, k + 1, lr)
    BY <1>1, <1>2, <1>3, <2>1, <2>2, <2>3, Zenon
  <2>5. PICK lh \in Nat : lh = Len(h)
    BY Length
  <2>6. lr <= lh /\ \A i \in 1 .. lr : r[i] = h[lh - lr + i]
    BY <2>4, <2>5, Zenon DEF EndOf
  <2>7. s \in Seq(Descriptors) /\ Len(s) = n /\ \A i \in 1 .. n : s[i] = r[k + i]
    <3>1. r \in Seq(Descriptors) /\ k \in Nat /\ n \in Nat /\ k + n <= Len(r)
      BY <1>4, <2>4
    <3>2. s = SubSeq(r, k + 1, k + n)
      BY <1>4, <2>4
    <3> QED BY ONLY <3>1, <3>2, PieceAt
  <2>8. n <= lh
    BY <1>4, <2>6
  <2>9. \A i \in 1 .. n : s[i] = h[lh - n + i]
    <3>1. TAKE i \in 1 .. n
    <3>2. k + i \in 1 .. lr /\ lh - lr + (k + i) = lh - n + i
      BY <1>4
    <3>3. r[k + i] = h[lh - lr + (k + i)]
      BY <2>6, <3>2, Zenon
    <3> QED BY <2>7, <3>2, <3>3, Zenon
  <2>10. EndOf(h, s)
    BY <2>5, <2>7, <2>8, <2>9, Zenon DEF EndOf
  <2> QED BY <2>2, <2>3, <2>7, <2>10, Zenon
<1>6. Added(old, new) = <<>>
  <2>2. n < lr + 1
    BY <1>4
  <2>3. Added(old, new) = SubSeq(new.segs, lr + 1, n)
    BY <1>2, <1>5 DEF Added
  <2> QED BY <2>2, <2>3, SubSeqEmpty
<1>7. new.next = old.next /\ new.start = IF new.segs = <<>> THEN new.next ELSE new.segs[1].base
  BY DEF Retains
<1>8. RootIn(h, new)
  BY <1>5, <1>7 DEF RootIn
<1>9. new.start >= old.start
  <2>1. CASE new.segs = <<>>
    BY <1>1, <1>7, <2>1, RootOffsets
  <2>2. CASE new.segs # <<>>
    <3>0. n > 0
      BY <1>5, <2>2, Length
    <3>1. k < lr /\ 1 \in 1 .. n
      BY <1>4, <3>0
    <3>2. new.start = old.segs[k + 1].base /\ old.segs # <<>> /\ old.start = old.segs[1].base
      BY <1>2, <1>5, <1>7, <2>2, <3>1 DEF RootIn
    <3>3. PICK lh \in Nat : lh = Len(h)
      BY Length
    <3>4. lr <= lh /\ \A i \in 1 .. lr : old.segs[i] = h[lh - lr + i]
      BY <1>2, <3>3, Zenon DEF RootIn, EndOf
    <3>5. PICK d \in Nat : lh = d + lr /\ lh - lr = d
      BY <3>4, Distance
    <3>6. 1 \in 1 .. lr /\ k + 1 \in 1 .. lr /\ d + 1 \in 1 .. lh /\ d + (k + 1) \in 1 .. lh
      BY <1>4, <3>1, <3>5
    <3>7. old.segs[1] = h[d + 1] /\ old.segs[k + 1] = h[d + (k + 1)]
      BY <3>4, <3>5, <3>6, Zenon
    <3>8. d + 1 \in DOMAIN h /\ d + (k + 1) \in DOMAIN h
      BY <3>3, <3>6
    <3>9. /\ h[d + 1].base \in Nat /\ End(h[d + 1]) \in Nat /\ h[d + 1].base < End(h[d + 1])
          /\ h[d + (k + 1)].base \in Nat
      BY <3>8, DescriptorOffsets
    <3>10. CASE k = 0
      BY <3>2, <3>9, <3>10, <3>7
    <3>11. CASE k # 0
      <4>1. d + 1 < d + (k + 1)
        BY <1>4, <3>11
      <4>2. End(h[d + 1]) <= h[d + (k + 1)].base
        BY <3>8, <4>1, DenseOrdered DEF RootIn
      <4>3. PICK a \in Nat, b \in Nat, c \in Nat :
                a = h[d + 1].base /\ b = End(h[d + 1]) /\ c = h[d + (k + 1)].base
        BY <3>9
      <4>4. a < b /\ b <= c
        BY <3>9, <4>2, <4>3
      <4> QED BY <3>2, <3>7, <4>3, <4>4
    <3> QED BY <3>10, <3>11
  <2> QED BY <2>1, <2>2
<1> QED BY <1>6, <1>7, <1>8, <1>9

\* A selection stays one when the history grows.
LEMMA SelectedGrows ==
    ASSUME NEW h \in Seq(Descriptors), NEW t \in Seq(Descriptors), NEW w \in Wants, Selected(h, w)
    PROVE  Selected(h \o t, w)
<1> SUFFICES ASSUME w.segs # <<>> PROVE Selected(h \o t, w)
  BY DEF Selected
<1>1. PICK lh \in Nat : lh = Len(h)
  BY Length
<1>2. PICK lt \in Nat : lt = Len(t)
  BY Length
<1>3. w.segs \in Seq(Descriptors)
  BY DEF Wants
<1>4. PICK n \in Nat : n = Len(w.segs)
  BY <1>3, Length
<1>5. PICK d \in Nat : PieceOf(h, d, w.segs)
  BY <1>1 DEF Selected
<1>6. d + n <= lh /\ \A i \in 1 .. n : w.segs[i] = h[d + i]
  BY <1>1, <1>4, <1>5, Zenon DEF PieceOf
<1>7. PICK u : u = h \o t
  OBVIOUS
<1>8. u \in Seq(Descriptors) /\ Len(u) = lh + lt /\ \A i \in 1 .. lh : u[i] = h[i]
  BY <1>1, <1>2, <1>7, ConcatAt
<1>9. ASSUME NEW i \in 1 .. n PROVE w.segs[i] = u[d + i]
  <2>1. d + i \in 1 .. lh
    BY <1>6
  <2> QED BY <1>6, <1>8, <2>1, Zenon
<1>10. d + n <= lh + lt
  BY <1>6
<1>11. PieceOf(u, d, w.segs)
  BY <1>4, <1>8, <1>9, <1>10, Zenon DEF PieceOf
<1>12. d \in 0 .. Len(u)
  <2>1. d \in 0 .. lh + lt
    BY <1>10
  <2> QED BY <1>8, <2>1, Zenon
<1> QED BY <1>7, <1>11, <1>12, Zenon DEF Selected

\* What First picks in the segments of the root is a selection.
LEMMA FirstSelected ==
    ASSUME NEW h \in Seq(Descriptors), NEW r \in Roots, RootIn(h, r), NEW w \in Wants,
           r.start <= w.offset, NEW i \in First(r.segs, w.offset), NEW j \in i - 1 .. Len(r.segs)
    PROVE  Selected(h, [w EXCEPT !.segs = SubSeq(r.segs, i, j)])
<1>1. r.segs \in Seq(Descriptors) /\ r.start \in Nat /\ w.offset \in Nat
  BY DEF Roots, Wants
<1>2. PICK lh \in Nat : lh = Len(h)
  BY Length
<1>3. PICK lr \in Nat : lr = Len(r.segs)
  BY <1>1, Length
<1>4. /\ i \in 1 .. lr /\ j \in i - 1 .. lr
      /\ End(r.segs[i]) > w.offset
      /\ \A k \in 1 .. lr : End(r.segs[k]) > w.offset => i <= k
  <2>1. DOMAIN r.segs = 1 .. lr
    BY <1>1, <1>3
  <2> QED BY <1>3, <2>1 DEF First, From
<1>5. PICK k \in Nat : i = k + 1 /\ k < lr
  <2>1. i - 1 \in Nat /\ i = (i - 1) + 1 /\ i - 1 < lr
    BY <1>4
  <2> QED BY <2>1
<1>6. PICK n \in Nat : j = k + n /\ k + n <= lr
  <2>1. j - k \in Nat /\ j = k + (j - k)
    BY <1>4, <1>5
  <2> QED BY <1>4, <2>1
<1>7. PICK s : s = SubSeq(r.segs, k + 1, k + n)
  OBVIOUS
<1>8. s \in Seq(Descriptors) /\ Len(s) = n /\ \A l \in 1 .. n : s[l] = r.segs[k + l]
  <2>1. k + n <= Len(r.segs)
    BY <1>3, <1>6
  <2> QED BY ONLY <1>1, <1>7, <2>1, k \in Nat, n \in Nat, PieceAt
<1>9. lr <= lh /\ \A l \in 1 .. lr : r.segs[l] = h[lh - lr + l]
  BY <1>2, <1>3, Zenon DEF RootIn, EndOf
<1>10. PICK d \in Nat : lh = d + lr /\ lh - lr = d
  BY <1>9, Distance
<1>11. PieceOf(h, d + k, s)
  <2>1. (d + k) + n <= lh
    BY <1>6, <1>10
  <2>2. ASSUME NEW l \in 1 .. n PROVE s[l] = h[(d + k) + l]
    <3>1. k + l \in 1 .. lr /\ (d + k) + l = d + (k + l)
      BY <1>6, <1>10
    <3> QED BY <1>8, <1>9, <1>10, <3>1, Zenon
  <2> QED BY <1>2, <1>8, <2>1, <2>2, Zenon DEF PieceOf
<1>12. r.segs[k + 1].base <= w.offset
  <2>1. CASE k = 0
    <3>1. r.segs # <<>>
      BY <1>3, <1>5
    <3> QED BY <2>1, <3>1 DEF RootIn
  <2>2. CASE k # 0
    <3>1. k \in 1 .. lr /\ ~(i <= k)
      BY <1>5, <2>2
    <3>2. ~(End(r.segs[k]) > w.offset)
      BY <1>4, <3>1
    <3>3. r.segs[k] = h[d + k] /\ r.segs[k + 1] = h[d + (k + 1)]
      <4>1. k + 1 \in 1 .. lr
        BY <1>5
      <4> QED BY <1>9, <1>10, <3>1, <4>1, Zenon
    <3>4. d + (k + 1) \in DOMAIN h /\ d + (k + 1) # 1 /\ d + (k + 1) - 1 = d + k /\ d + k \in DOMAIN h
      <4>1. d + (k + 1) \in 1 .. lh /\ d + (k + 1) # 1 /\ d + (k + 1) - 1 = d + k /\ d + k \in 1 .. lh
        BY <1>5, <1>10, <2>2
      <4> QED BY <1>2, <4>1
    <3>5. h[d + (k + 1)].base = End(h[d + k])
      BY <3>4 DEF RootIn, DenseFrom
    <3>6. End(h[d + k]) \in Nat
      BY <3>4, DescriptorOffsets
    <3> QED BY <1>1, <3>2, <3>3, <3>5, <3>6
  <2> QED BY <2>1, <2>2
<1>13. CASE n = 0
  <2>1. s = <<>>
    BY <1>8, <1>13
  <2>2. [w EXCEPT !.segs = SubSeq(r.segs, i, j)].segs = s
    BY <1>5, <1>6, <1>7 DEF Wants
  <2> QED BY <2>1, <2>2 DEF Selected
<1>14. CASE n # 0
  <2>1. 1 \in 1 .. n /\ d + k \in 0 .. Len(h)
    BY <1>2, <1>5, <1>10, <1>14
  <2>2. s[1] = r.segs[k + 1]
    BY <1>8, <2>1
  <2>3. s[1].base <= w.offset /\ w.offset < End(s[1])
    <3>1. w.offset < End(r.segs[i])
      BY <1>4
    <3> QED BY <1>5, <1>12, <2>2, <3>1
  <2>4. PICK v : v = [w EXCEPT !.segs = SubSeq(r.segs, i, j)]
    OBVIOUS
  <2>5. v.segs = s /\ v.offset = w.offset
    BY <1>5, <1>6, <1>7, <2>4 DEF Wants
  <2> QED BY <1>11, <2>1, <2>3, <2>4, <2>5, Zenon DEF Selected
<1> QED BY <1>13, <1>14

-----------------------------------------------------------------------------
(* Frame lemmas.                                                           *)

Still(x) ==
    /\ pc'[x] = pc[x] /\ loaded'[x] = loaded[x] /\ draft'[x] = draft[x]
    /\ work'[x] = work[x] /\ want'[x] = want[x] /\ got'[x] = got[x]

\* An operation that does not move keeps its design and its selections.
LEMMA StillDesigned ==
    ASSUME NEW x \in Actors, Designed(x), Still(x)
    PROVE  Designed(x)'
  BY DEF Designed, Still, Continues

\* A step that publishes nothing keeps the invariant if the operation that
\* moves keeps what it has designed and selected.
LEMMA SameHistory ==
    ASSUME HistoryInv, UNCHANGED <<root, history>>,
           \A y \in Actors : \/ Still(y)
                             \/ /\ Designed(y)'
                                /\ Selected(history, want'[y]) /\ Selected(history, got'[y]),
           \A q \in lateCas' : q \in lateCas \/ Follows(q.expect, q.new)
    PROVE  HistoryInv'
<1>1. RootIn(history, root)'
  BY DEF HistoryInv
<1>2. \A y \in Actors : Designed(y)'
  BY StillDesigned DEF HistoryInv
<1>3. \A y \in Actors : Selected(history, want[y])' /\ Selected(history, got[y])'
  BY DEF HistoryInv, Still
<1>4. \A q \in lateCas' : Follows(q.expect, q.new)
  BY DEF HistoryInv
<1> QED BY <1>1, <1>2, <1>3, <1>4 DEF HistoryInv

\* The publication of a root that follows the current one keeps the
\* invariant, and the offsets of the root do not regress.
LEMMA Publication ==
    ASSUME OpOK, RestOK, HistoryInv, NEW new \in Roots, Publish(root, new), Follows(root, new),
           \A y \in Actors : Still(y) \/ Designed(y)',
           \A y \in Actors : /\ want'[y] = want[y] \/ want'[y].segs = <<>>
                             /\ got'[y] = got[y],
           lateCas' \subseteq lateCas
    PROVE  /\ HistoryInv'
           /\ root'.start >= root.start /\ root'.next >= root.next
<1>1. root' = new /\ history' = history \o Added(root, new)
  BY DEF Publish, Added
<1>2. history \in Seq(Descriptors) /\ root \in Roots /\ RootIn(history, root)
  BY DEF RestOK, HistoryInv
<1>3. /\ Added(root, new) \in Seq(Descriptors)
      /\ RootIn(history \o Added(root, new), new)
      /\ new.start >= root.start /\ new.next >= root.next
  <2>1. CASE Appends(root, new)
    BY <1>2, <2>1, PublishAppend
  <2>2. CASE Retains(root, new)
    <3>1. /\ Added(root, new) = <<>> /\ RootIn(history, new)
          /\ new.start >= root.start /\ new.next = root.next
      BY <1>2, <2>2, PublishTrim
    <3>2. history \o <<>> = history /\ <<>> \in Seq(Descriptors)
      BY <1>2
    <3>3. root.next \in Nat
      BY <1>2 DEF Roots
    <3>4. new.next >= root.next
      BY <3>1, <3>3
    <3> QED BY <3>1, <3>2, <3>4, Zenon
  <2> QED BY <2>1, <2>2 DEF Follows
<1>4. RootIn(history', root')
  BY <1>1, <1>3
<1>5. \A y \in Actors : Designed(y)'
  BY StillDesigned DEF HistoryInv
<1>6. ASSUME NEW y \in Actors PROVE Selected(history', want'[y]) /\ Selected(history', got'[y])
  <2>1. want[y] \in Wants /\ got[y] \in Wants
    BY DEF OpOK, RestOK
  <2>2. Selected(history, want[y]) /\ Selected(history, got[y])
    BY DEF HistoryInv
  <2>3. Selected(history', want[y]) /\ Selected(history', got[y])
    BY <1>1, <1>2, <1>3, <2>1, <2>2, SelectedGrows
  <2>4. want'[y].segs = <<>> => Selected(history', want'[y])
    BY DEF Selected
  <2> QED BY <2>3, <2>4
<1>7. \A q \in lateCas' : Follows(q.expect, q.new)
  BY DEF HistoryInv
<1>8. HistoryInv'
  BY <1>4, <1>5, <1>6, <1>7 DEF HistoryInv
<1> QED BY <1>1, <1>3, <1>8

-----------------------------------------------------------------------------
(* Steps that end a call or an attempt.                                    *)

\* The end of a call or of an attempt forgets the design and the selection.
LEMMA EndsCleared ==
    ASSUME OpOK, NEW x \in Actors, (\E o : Return(x, o)) \/ Again(x)
    PROVE  /\ Designed(x)' /\ want'[x].segs = <<>>
           /\ \A y \in Actors \ {x} :
                 /\ pc'[y] = pc[y] /\ loaded'[y] = loaded[y] /\ draft'[y] = draft[y]
                 /\ work'[y] = work[y] /\ want'[y] = want[y]
<1>1. ASSUME NEW o, Return(x, o)
      PROVE  /\ pc'[x] = "idle" /\ work'[x] = NoWork /\ want'[x] = NoWant
             /\ \A y \in Actors \ {x} :
                 /\ pc'[y] = pc[y] /\ loaded'[y] = loaded[y] /\ draft'[y] = draft[y]
                 /\ work'[y] = work[y] /\ want'[y] = want[y]
  BY <1>1 DEF Return, OpOK
<1>2. CASE \E o : Return(x, o)
  <2>1. NoWork.adds = <<>> /\ NoWork.results = <<>> /\ NoWant.segs = <<>>
    BY DEF NoWork, NoWant
  <2> QED BY <1>1, <1>2, <2>1 DEF Designed
<1>3. CASE Again(x) /\ ~(\E o : Return(x, o))
  <2>1. /\ pc' = [pc EXCEPT ![x] = IF x \in Maintainers THEN "list" ELSE "load"]
        /\ loaded' = [loaded EXCEPT ![x] = EmptyRoot]
        /\ draft' = [draft EXCEPT ![x] = EmptyRoot]
        /\ work' = [work EXCEPT ![x] = [NoWork EXCEPT !.req = work[x].req]]
        /\ want' = [want EXCEPT ![x].segs = <<>>]
    BY <1>3 DEF Again
  <2>2. pc'[x] \in {"list", "load"}
    BY <2>1 DEF OpOK
  <2>3. work'[x].adds = <<>> /\ work'[x].results = <<>>
    <3>1. work'[x] = [NoWork EXCEPT !.req = work[x].req]
      BY <2>1 DEF OpOK
    <3> QED BY <3>1 DEF NoWork
  <2>4. want'[x].segs = <<>>
    <3>1. want'[x] = [want[x] EXCEPT !.segs = <<>>] /\ want[x] \in Wants
      BY <2>1 DEF OpOK
    <3> QED BY <3>1 DEF Wants
  <2>5. \A y \in Actors \ {x} :
                 /\ pc'[y] = pc[y] /\ loaded'[y] = loaded[y] /\ draft'[y] = draft[y]
                 /\ work'[y] = work[y] /\ want'[y] = want[y]
    BY <2>1 DEF OpOK
  <2> QED BY <2>2, <2>3, <2>4, <2>5 DEF Designed
<1> QED BY <1>2, <1>3

\* The ends of calls and attempts that publish nothing, with the last request
\* of the operation possibly still under way.
LEMMA EndFollows ==
    ASSUME OpOK, HistoryInv, NEW x \in Actors, (\E o : Return(x, o)) \/ Again(x),
           UNCHANGED <<root, history>>, Selected(history, got'[x]),
           \A y \in Actors \ {x} : got'[y] = got[y],
           \A q \in lateCas' :
               \/ q \in lateCas
               \/ pc[x] = "write" /\ q = [expect |-> loaded[x], new |-> draft[x]]
    PROVE  HistoryInv'
<1>1. /\ Designed(x)' /\ Selected(history, want'[x])
      /\ \A y \in Actors \ {x} : Still(y)
  BY EndsCleared DEF Selected, Still
<1>2. pc[x] = "write" => Follows(loaded[x], draft[x])
  BY DEF HistoryInv, Designed
<1>3. \A q \in lateCas' : q \in lateCas \/ Follows(q.expect, q.new)
  BY <1>2
<1> QED BY <1>1, <1>3, SameHistory

\* The ends that leave the store, the late requests and the results alone.
LEMMA QuietEndFollows ==
    ASSUME OpOK, HistoryInv, NEW x \in Actors, (\E o : Return(x, o)) \/ Again(x),
           UNCHANGED <<store, late, got>>
    PROVE  HistoryInv'
<1>1. UNCHANGED <<root, history, lateCas, got>>
  BY DEF store, late
<1>2. Selected(history, got'[x])
  BY <1>1 DEF HistoryInv
<1> QED BY <1>1, <1>2, EndFollows

\* A step in the middle of a call that publishes nothing.
LEMMA MoveFollows ==
    ASSUME HistoryInv, NEW x \in Actors, UNCHANGED <<store, late, got>>,
           \A y \in Actors \ {x} : Still(y), Designed(x)',
           want'[x] = want[x] \/ Selected(history, want'[x])
    PROVE  HistoryInv'
<1>1. UNCHANGED <<root, history, lateCas, got>>
  BY DEF store, late
<1>2. Selected(history, want'[x]) /\ Selected(history, got'[x])
  BY <1>1 DEF HistoryInv
<1> QED BY <1>1, <1>2, SameHistory

-----------------------------------------------------------------------------
(* The two actions that design a root.                                     *)

\* What a concatenation has beyond its first part is its second part.
LEMMA AddedConcat ==
    ASSUME NEW S, NEW s \in Seq(S), NEW t \in Seq(S)
    PROVE  SubSeq(s \o t, Len(s) + 1, Len(s \o t)) = t
<1>1. PICK m \in Nat : m = Len(s)
  BY Length
<1>2. PICK n \in Nat : n = Len(t)
  BY Length
<1>3. PICK u : u = s \o t
  OBVIOUS
<1>4. u \in Seq(S) /\ Len(u) = m + n /\ \A i \in 1 .. n : u[m + i] = t[i]
  BY <1>1, <1>2, <1>3, ConcatAt
<1>5. PICK v : v = SubSeq(u, m + 1, m + n)
  OBVIOUS
<1>6. v \in Seq(S) /\ Len(v) = n /\ \A i \in 1 .. n : v[i] = u[m + i]
  <2>1. u \in Seq(S) /\ m \in Nat /\ n \in Nat /\ m + n <= Len(u)
    BY <1>4
  <2>2. PICK l : l = m + n
    OBVIOUS
  <2>3. /\ u \in Seq(S) /\ m \in Nat /\ n \in Nat /\ l = m + n /\ l <= Len(u)
        /\ v = SubSeq(u, m + 1, l)
    BY <1>5, <2>1, <2>2
  <2> QED BY ONLY <2>3, PieceUpTo
<1>7. Len(v) = Len(t) /\ \A i \in 1 .. Len(v) : v[i] = t[i]
  BY <1>2, <1>4, <1>6, Zenon
<1>8. v = t
  BY <1>6, <1>7, SameAt
<1> QED BY <1>1, <1>3, <1>4, <1>5, <1>8, Zenon

\* The descriptors of an append continue the root like the batches they are
\* made of.
LEMMA SegmentsDense ==
    ASSUME NEW x \in Actors, NEW w \in Works, made[x] \in Nat, w.adds # <<>>,
           NEW from, DenseFrom(w.adds, from)
    PROVE  /\ DenseFrom(NewSegments(x, w), from)
           /\ EndFrom(NewSegments(x, w), from) = EndFrom(w.adds, from)
<1>1. w.adds \in Seq([base: Nat, batch: AllBatches])
  BY DEF Works, AllBatches
<1>2. PICK n \in Nat : n = Len(w.adds) /\ n > 0
  BY <1>1, Length
<1>3. PICK s : s = NewSegments(x, w)
  OBVIOUS
<1>4. s \in Seq(Descriptors) /\ Len(s) = n /\ s # <<>>
  BY <1>2, <1>3, NewSegmentsType
<1>5. \A i \in 1 .. n : s[i].base = w.adds[i].base /\ s[i].batch = w.adds[i].batch
  BY <1>2, <1>3 DEF NewSegments
<1>6. \A i \in 1 .. n : End(s[i]) = End(w.adds[i])
  BY <1>5 DEF End
<1>7. DOMAIN s = 1 .. n /\ DOMAIN w.adds = 1 .. n
  BY <1>1, <1>2, <1>4
<1>8. DenseFrom(s, from)
  <2>1. ASSUME NEW i \in 1 .. n PROVE s[i].base = IF i = 1 THEN from ELSE End(s[i - 1])
    <3>1. w.adds[i].base = IF i = 1 THEN from ELSE End(w.adds[i - 1])
      BY <1>7 DEF DenseFrom
    <3>2. i # 1 => i - 1 \in 1 .. n
      OBVIOUS
    <3> QED BY <1>5, <1>6, <3>1, <3>2
  <2> QED BY <1>7, <2>1, Zenon DEF DenseFrom
<1>9. EndFrom(s, from) = EndFrom(w.adds, from)
  <2>1. n \in 1 .. n
    BY <1>2
  <2> QED BY <1>2, <1>4, <1>6, <2>1, Zenon DEF EndFrom
<1> QED BY <1>3, <1>8, <1>9

\* The root prepare_append designs appends to the root it was made from.
LEMMA PrepareAppends ==
    ASSUME OpOK, RestOK, NEW a \in Actors, Prepare(a), Continues(a)
    PROVE  Appends(loaded[a], draft'[a])
<1>1. PICK r : r = loaded[a]
  OBVIOUS
<1>2. PICK w : w = work[a]
  OBVIOUS
<1>3. PICK s : s = NewSegments(a, w)
  OBVIOUS
<1>4. \E ps, ds : draft' = [draft EXCEPT ![a] = AppendedRoot(r, w, s, ps, ds)]
  BY <1>1, <1>2, <1>3 DEF Prepare
<1>5. PICK ps, ds : draft'[a] = AppendedRoot(r, w, s, ps, ds)
  BY <1>4 DEF OpOK
<1>6. PICK new : new = draft'[a]
  OBVIOUS
<1>7. r \in Roots /\ w \in Works /\ made[a] \in Nat /\ w.adds # <<>>
  BY <1>1, <1>2 DEF OpOK, RestOK, Prepare
<1>8. r.segs \in Seq(Descriptors)
  BY <1>7 DEF Roots
<1>9. /\ DenseFrom(s, r.next) /\ EndFrom(s, r.next) = w.next
      /\ s \in Seq(Descriptors) /\ s # <<>>
  <2>1. DenseFrom(w.adds, r.next) /\ w.next = EndFrom(w.adds, r.next)
    BY <1>1, <1>2 DEF Continues
  <2> QED BY <1>3, <1>7, <2>1, SegmentsDense, NewSegmentsType
<1>10. new.segs = r.segs \o s /\ new.next = w.next /\ new.start = r.start
  BY <1>5, <1>6, <1>7 DEF AppendedRoot, Roots
<1>11. Added(r, new) = s
  BY <1>8, <1>9, <1>10, AddedConcat DEF Added
<1>12. Appends(r, new)
  BY <1>9, <1>10, <1>11 DEF Appends
<1> QED BY <1>1, <1>6, <1>12

\* The root maintenance plans drops some of the first batches, nothing else.
LEMMA PlanRetains ==
    ASSUME OpOK, RestOK, NEW m \in Actors, Plan(m), pc' # [pc EXCEPT ![m] = "idle"]
    PROVE  Retains(loaded[m], draft'[m])
<1>1. PICK r : r = loaded[m]
  OBVIOUS
<1>2. \E k \in 0 .. Len(r.segs) : \E pages : draft' = [draft EXCEPT ![m] = RetainedRoot(r, k, pages)]
  BY <1>1 DEF Plan, Return
<1>3. PICK k \in 0 .. Len(r.segs) : \E pages : draft'[m] = RetainedRoot(r, k, pages)
  BY <1>2 DEF OpOK
<1>4. PICK new : new = draft'[m]
  OBVIOUS
<1>5. r \in Roots
  BY <1>1 DEF OpOK
<1>6. PICK s : s = SubSeq(r.segs, k + 1, Len(r.segs))
  OBVIOUS
<1>7. /\ new.segs = s /\ new.next = r.next
      /\ new.start = IF s = <<>> THEN r.next ELSE s[1].base
  BY <1>3, <1>4, <1>5, <1>6 DEF RetainedRoot, Trimmed, Roots
<1>8. Retains(r, new)
  BY <1>6, <1>7 DEF Retains
<1> QED BY <1>1, <1>4, <1>8

-----------------------------------------------------------------------------
(* The actions.                                                            *)

\* A late conditional write that wins publishes a root that follows.
LEMMA LateFollows ==
    ASSUME OpOK, RestOK, HistoryInv, LatePut \/ LateDelete \/ LateCas
    PROVE  /\ HistoryInv'
           /\ root' # root => root'.start >= root.start /\ root'.next >= root.next
<1>1. \A y \in Actors : Still(y)
  BY DEF LatePut, LateDelete, LateCas, op, Still
<1>2. CASE UNCHANGED <<root, history>>
  <2>1. lateCas' \subseteq lateCas
    BY DEF LatePut, LateDelete, LateCas
  <2> QED BY <1>1, <1>2, <2>1, SameHistory
<1>3. CASE ~UNCHANGED <<root, history>>
  <2>1. PICK q \in lateCas : root = q.expect /\ Publish(q.expect, q.new) /\ lateCas' \subseteq lateCas
    BY <1>3 DEF LatePut, LateDelete, LateCas, Holds
  <2>2. Follows(root, q.new) /\ q.new \in Roots /\ Publish(root, q.new)
    BY <2>1 DEF HistoryInv, RestOK
  <2>3. \A y \in Actors : want'[y] = want[y] /\ got'[y] = got[y]
    BY <1>1 DEF Still
  <2> QED BY <1>1, <2>1, <2>2, <2>3, Publication
<1> QED BY <1>2, <1>3

\* The offsets a root may show after the current one.
Forward == root' # root => root'.start >= root.start /\ root'.next >= root.next

\* The actions of an append.
LEMMA AppendFollows ==
    ASSUME OpOK, RestOK, HistoryInv, NEW a \in Actors, StartAppend(a) \/ AppendStep(a)
    PROVE  HistoryInv' /\ Forward
<1>1. CASE StartAppend(a)
  <2>1. PICK r \in Requests : work' = [work EXCEPT ![a].req = r]
    BY <1>1 DEF StartAppend
  <2>2. /\ UNCHANGED <<store, late, loaded, draft, want, got>>
        /\ pc[a] = "idle" /\ pc' = [pc EXCEPT ![a] = "load"]
    BY <1>1 DEF StartAppend, Start
  <2>3. \A y \in Actors \ {a} : Still(y)
    BY <2>1, <2>2 DEF Still, OpOK
  <2>4. Designed(a)'
    <3>1. work[a].adds = <<>> /\ work[a].results = <<>> /\ want[a].segs = <<>>
      BY <2>2 DEF HistoryInv, Designed
    <3>2. work'[a] = [work[a] EXCEPT !.req = r] /\ work[a] \in Works /\ pc'[a] = "load"
      BY <2>1, <2>2 DEF OpOK
    <3>3. work'[a].adds = <<>> /\ work'[a].results = <<>>
      BY <3>1, <3>2 DEF Works
    <3> QED BY <2>2, <3>1, <3>2, <3>3 DEF Designed
  <2> QED BY <2>2, <2>3, <2>4, MoveFollows DEF Forward, store
<1>2. CASE LoadAppend(a)
  <2>1. /\ UNCHANGED <<store, late, draft, want, got>> /\ pc[a] = "load"
        /\ pc' = [pc EXCEPT ![a] = "decide"] /\ loaded' = [loaded EXCEPT ![a] = root]
        /\ work' = [work EXCEPT ![a].next = root.next, ![a].states = root.producers]
    BY <1>2 DEF LoadAppend, Load
  <2>2. \A y \in Actors \ {a} : Still(y)
    BY <2>1 DEF Still, OpOK
  <2>3. Designed(a)'
    <3>1. work[a].adds = <<>>
      BY <2>1 DEF HistoryInv, Designed
    <3>2. work'[a] = [work[a] EXCEPT !.next = root.next, !.states = root.producers]
          /\ work[a] \in Works /\ pc'[a] = "decide" /\ loaded'[a] = root
      BY <2>1 DEF OpOK
    <3>3. work'[a].adds = <<>> /\ work'[a].next = root.next
      BY <3>1, <3>2 DEF Works
    <3>4. DenseFrom(<<>>, root.next) /\ EndFrom(<<>>, root.next) = root.next
      BY DEF DenseFrom, EndFrom
    <3>5. Continues(a)'
      BY <3>2, <3>3, <3>4 DEF Continues
    <3> QED BY <3>2, <3>5 DEF Designed
  <2> QED BY <2>1, <2>2, <2>3, MoveFollows DEF Forward, store
<1>3. CASE Decide(a)
  <2>1. UNCHANGED <<store, late, got>> /\ pc[a] = "decide" /\ Len(work[a].results) < Len(work[a].req)
    BY <1>3 DEF Decide
  <2>2. CASE \E o : Return(a, o)
    BY <2>1, <2>2, QuietEndFollows DEF Forward, store
  <2>3. CASE ~\E o : Return(a, o)
    <3>1. /\ work' = [work EXCEPT ![a] = work'[a]]
          /\ work'[a] = Addition(work[a]) \/ work'[a] = Duplicate(work[a])
          /\ UNCHANGED <<pc, loaded, draft, want>>
      BY <1>3, <2>3 DEF Decide, OpOK
    <3>2. \A y \in Actors \ {a} : Still(y)
      BY <2>1, <3>1 DEF Still, OpOK
    <3>3. PICK w, v : w \in Works /\ w = work[a] /\ v = work'[a]
      BY DEF OpOK
    <3>4. PICK from : from = loaded[a].next
      OBVIOUS
    <3>5. DenseFrom(w.adds, from) /\ w.next = EndFrom(w.adds, from)
      BY <2>1, <3>3, <3>4 DEF HistoryInv, Designed, Continues
    <3>6. DenseFrom(v.adds, from) /\ v.next = EndFrom(v.adds, from)
      <4>1. CASE v = Duplicate(w)
        <5>1. v.adds = w.adds /\ v.next = w.next
          BY <4>1 DEF Duplicate, Works
        <5> QED BY <3>5, <5>1
      <4>2. CASE v = Addition(w)
        <5>1. PICK d : d = [base |-> w.next, batch |-> Current(w)]
          OBVIOUS
        <5>2. v.adds = Append(w.adds, d) /\ v.next = w.next + Current(w).count
          BY <4>2, <5>1 DEF Addition, Works
        <5>3. PICK S : w.adds \in Seq(S) /\ d \in S
          <6>1. w.adds \in Seq([base: Nat, batch: AllBatches])
            BY <3>3 DEF Works, AllBatches
          <6>2. Current(w) \in AllBatches /\ w.next \in Nat
            BY <2>1, <3>3, CurrentType DEF Works
          <6> QED BY <5>1, <6>1, <6>2
        <5>4. <<d>> \in Seq(S) /\ Append(w.adds, d) = w.adds \o <<d>>
          BY <5>3
        <5>5. DenseFrom(<<d>>, w.next) /\ EndFrom(<<d>>, w.next) = End(d)
          BY <5>1 DEF DenseFrom, EndFrom
        <5>6. End(d) = w.next + Current(w).count
          BY <5>1 DEF End
        <5>7. PICK t : t = <<d>>
          OBVIOUS
        <5>8. DenseFrom(w.adds \o t, from) /\ EndFrom(w.adds \o t, from) = EndFrom(t, w.next)
          <6>1. PICK s, m : s = w.adds /\ m = w.next
            OBVIOUS
          <6>2. s \in Seq(S) /\ t \in Seq(S) /\ DenseFrom(s, from) /\ m = EndFrom(s, from)
            BY <3>5, <5>3, <5>4, <5>7, <6>1
          <6>3. DenseFrom(t, m)
            BY <5>5, <5>7, <6>1
          <6>4. DenseFrom(s \o t, from) /\ EndFrom(s \o t, from) = EndFrom(t, m)
            BY ONLY <6>2, <6>3, DenseConcat
          <6> QED BY <6>1, <6>4
        <5> QED BY <5>2, <5>4, <5>5, <5>6, <5>7, <5>8
      <4> QED BY <3>1, <3>3, <4>1, <4>2
    <3>7. Designed(a)'
      <4>1. Continues(a)' /\ pc'[a] = "decide"
        BY <2>1, <3>1, <3>3, <3>4, <3>6 DEF Continues
      <4> QED BY <4>1 DEF Designed
    <3> QED BY <2>1, <3>1, <3>2, <3>7, MoveFollows DEF Forward, store
  <2> QED BY <2>2, <2>3
<1>4. CASE AnswerDuplicates(a)
  <2>1. Return(a, "ok") /\ UNCHANGED <<store, late, got>>
    BY <1>4 DEF AnswerDuplicates
  <2> QED BY <2>1, QuietEndFollows DEF Forward, store
<1>5. CASE Prepare(a)
  <2>1. /\ UNCHANGED <<store, late, loaded, work, want, got>> /\ pc[a] = "decide"
        /\ pc' = [pc EXCEPT ![a] = "write"]
        /\ \A y \in Actors \ {a} : draft'[y] = draft[y]
    BY <1>5 DEF Prepare, Decided, OpOK
  <2>2. \A y \in Actors \ {a} : Still(y)
    BY <2>1 DEF Still, OpOK
  <2>3. Continues(a)
    BY <2>1 DEF HistoryInv, Designed
  <2>4. Appends(loaded[a], draft'[a])
    BY <1>5, <2>3, PrepareAppends
  <2>5. Designed(a)'
    <3>1. pc'[a] = "write" /\ loaded'[a] = loaded[a]
      BY <2>1 DEF OpOK
    <3> QED BY <2>4, <3>1 DEF Designed, Follows
  <2> QED BY <2>1, <2>2, <2>5, MoveFollows DEF Forward, store
<1>6. CASE CommitAppend(a)
  <2>1. /\ pc[a] = "write" /\ root = loaded[a] /\ Publish(root, draft[a])
        /\ Return(a, "ok") /\ UNCHANGED <<late, got>>
    BY <1>6 DEF CommitAppend, Holds
  <2>2. Follows(root, draft[a]) /\ draft[a] \in Roots
    BY <2>1 DEF HistoryInv, Designed, OpOK
  <2>3. /\ Designed(a)' /\ want'[a].segs = <<>>
        /\ \A y \in Actors \ {a} : Still(y)
    BY <2>1, EndsCleared DEF Still
  <2>4. \A y \in Actors : /\ want'[y] = want[y] \/ want'[y].segs = <<>>
                          /\ got'[y] = got[y]
    BY <2>1, <2>3 DEF Still
  <2>5. lateCas' \subseteq lateCas
    BY <2>1 DEF late
  <2> QED BY <2>1, <2>2, <2>3, <2>4, <2>5, Publication DEF Forward
<1> QED BY <1>1, <1>2, <1>3, <1>4, <1>5, <1>6 DEF AppendStep

\* The actions of a fetch.
LEMMA FetchFollows ==
    ASSUME OpOK, RestOK, HistoryInv, NEW f \in Actors, StartFetch(f) \/ FetchStep(f)
    PROVE  HistoryInv' /\ Forward
<1>1. CASE StartFetch(f)
  <2>1. PICK o : want' = [want EXCEPT ![f].offset = o]
    BY <1>1 DEF StartFetch
  <2>2. /\ UNCHANGED <<store, late, loaded, draft, work, got>>
        /\ pc[f] = "idle" /\ pc' = [pc EXCEPT ![f] = "load"]
    BY <1>1 DEF StartFetch, Start
  <2>3. \A y \in Actors \ {f} : Still(y)
    BY <2>1, <2>2 DEF Still, OpOK
  <2>4. Designed(f)' /\ want'[f].segs = <<>>
    <3>1. work[f].adds = <<>> /\ work[f].results = <<>> /\ want[f].segs = <<>>
      BY <2>2 DEF HistoryInv, Designed
    <3>2. want'[f] = [want[f] EXCEPT !.offset = o] /\ want[f] \in Wants /\ pc'[f] = "load"
      BY <2>1, <2>2 DEF OpOK
    <3>3. want'[f].segs = <<>>
      BY <3>1, <3>2 DEF Wants
    <3> QED BY <2>2, <3>1, <3>2, <3>3 DEF Designed
  <2>5. Selected(history, want'[f])
    BY <2>4 DEF Selected
  <2> QED BY <2>2, <2>3, <2>4, <2>5, MoveFollows DEF Forward, store
<1>2. ASSUME Return(f, "ok"), got' = [got EXCEPT ![f] = want[f]], UNCHANGED <<store, late>>
      PROVE  HistoryInv' /\ Forward
  <2>1. UNCHANGED <<root, history, lateCas>>
    BY <1>2 DEF store, late
  <2>2. got'[f] = want[f] /\ \A y \in Actors \ {f} : got'[y] = got[y]
    BY <1>2 DEF RestOK
  <2>3. Selected(history, got'[f])
    BY <2>2 DEF HistoryInv
  <2> QED BY <1>2, <2>1, <2>2, <2>3, EndFollows DEF Forward
<1>3. CASE FinishFetch(f)
  BY <1>2, <1>3 DEF FinishFetch
<1>4. CASE LoadFetch(f)
  <2>1. CASE Return(f, "OffsetOutOfRange") /\ UNCHANGED <<store, late, got>>
    BY <2>1, QuietEndFollows DEF Forward, store
  <2>2. CASE Return(f, "ok") /\ got' = [got EXCEPT ![f] = want[f]] /\ UNCHANGED <<store, late>>
    BY <1>2, <2>2
  <2>3. CASE /\ want[f].offset >= root.start /\ Load(f, "read") /\ UNCHANGED work
             /\ \E i \in First(root.segs, want[f].offset) : \E j \in i - 1 .. Len(root.segs) :
                    want' = [want EXCEPT ![f].segs = SubSeq(root.segs, i, j)]
    <3>1. UNCHANGED <<store, late, draft, work, got>> /\ pc' = [pc EXCEPT ![f] = "read"]
          /\ loaded' = [loaded EXCEPT ![f] = root]
      BY <2>3 DEF Load
    <3>0. PICK i \in First(root.segs, want[f].offset) : \E j \in i - 1 .. Len(root.segs) :
              want' = [want EXCEPT ![f].segs = SubSeq(root.segs, i, j)]
      BY <2>3
    <3>2. PICK j \in i - 1 .. Len(root.segs) :
              want' = [want EXCEPT ![f].segs = SubSeq(root.segs, i, j)]
      BY <3>0
    <3>3. \A y \in Actors \ {f} : Still(y)
      BY <3>1, <3>2 DEF Still, OpOK
    <3>4. PICK w \in Wants : w = want[f]
      BY DEF OpOK
    <3>5. want'[f] = [w EXCEPT !.segs = SubSeq(root.segs, i, j)]
      BY <3>2, <3>4 DEF OpOK
    <3>6. Selected(history, want'[f])
      <4>1. history \in Seq(Descriptors) /\ root \in Roots /\ RootIn(history, root)
        BY DEF RestOK, HistoryInv
      <4>2. root.start <= w.offset /\ i \in First(root.segs, w.offset)
        BY <2>3, <3>4, <4>1 DEF Roots, Wants
      <4> QED BY <3>5, <4>1, <4>2, FirstSelected
    <3>7. Designed(f)'
      <4>1. pc'[f] = "read"
        BY <3>1 DEF OpOK
      <4> QED BY <4>1 DEF Designed
    <3> QED BY <3>1, <3>3, <3>6, <3>7, MoveFollows DEF Forward, store
  <2> QED BY <1>4, <2>1, <2>2, <2>3 DEF LoadFetch
<1> QED BY <1>1, <1>3, <1>4 DEF FetchStep

\* The actions of maintenance.
LEMMA MaintainFollows ==
    ASSUME OpOK, RestOK, HistoryInv, NEW m \in Actors, StartMaintain(m) \/ MaintainStep(m)
    PROVE  HistoryInv' /\ Forward
<1>1. ASSUME UNCHANGED <<store, late, got, work, want>>,
             pc' = [pc EXCEPT ![m] = pc'[m]], loaded' = [loaded EXCEPT ![m] = loaded'[m]],
             draft' = [draft EXCEPT ![m] = draft'[m]],
             \/ pc'[m] \in {"trace", "delete"}
             \/ pc[m] \in {"idle", "list"} /\ pc'[m] \in {"list", "load"}
             \/ pc'[m] = "write" /\ Retains(loaded'[m], draft'[m])
      PROVE  HistoryInv' /\ Forward
  <2>1. \A y \in Actors \ {m} : Still(y)
    BY <1>1 DEF Still, OpOK
  <2>2. Designed(m)
    BY DEF HistoryInv
  <2>3. Designed(m)'
    BY <1>1, <2>2 DEF Designed, Follows
  <2>4. UNCHANGED <<store, late, got>> /\ want'[m] = want[m]
    BY <1>1
  <2> QED BY <2>1, <2>3, <2>4, MoveFollows DEF Forward, store
<1>2. CASE \E o : Return(m, o) /\ UNCHANGED <<store, late, got>>
  BY <1>2, QuietEndFollows DEF Forward, store
<1>3. CASE StartMaintain(m)
  BY <1>1, <1>3 DEF StartMaintain, Start, OpOK
<1>4. CASE ListObjects(m)
  <2>1. CASE ~\E o : Return(m, o)
    <3>1. /\ UNCHANGED <<store, late, got, loaded, draft, work, want>> /\ pc[m] = "list"
          /\ pc' = [pc EXCEPT ![m] = "load"] \/ UNCHANGED pc
      BY <1>4, <2>1, Zenon DEF ListObjects
    <3> QED BY <1>1, <3>1 DEF OpOK
  <2> QED BY <1>2, <1>4, <2>1 DEF ListObjects
<1>5. CASE LoadMaintain(m)
  BY <1>1, <1>5 DEF LoadMaintain, Load, OpOK
<1>6. CASE Plan(m)
  <2>1. UNCHANGED <<store, late, got>>
    BY <1>6 DEF Plan
  <2>2. CASE pc' = [pc EXCEPT ![m] = "idle"]
    <3>1. pc' # [pc EXCEPT ![m] = "write"]
      BY <2>2 DEF OpOK
    <3>2. \E o : Return(m, o)
      BY <1>6, <3>1, Zenon DEF Plan
    <3> QED BY <1>2, <2>1, <3>2
  <2>3. CASE pc' # [pc EXCEPT ![m] = "idle"]
    <3>1. /\ draft' = [draft EXCEPT ![m] = draft'[m]] /\ pc' = [pc EXCEPT ![m] = "write"]
          /\ UNCHANGED <<loaded, work, want>>
      BY <1>6, <2>3, PlanFacts
    <3>2. Retains(loaded[m], draft'[m])
      BY <1>6, <2>3, PlanRetains
    <3> QED BY <1>1, <2>1, <3>1, <3>2 DEF OpOK
  <2> QED BY <2>2, <2>3
<1>7. CASE TraceBudget(m) \/ FinishMaintain(m)
  BY <1>2, <1>7 DEF TraceBudget, FinishMaintain
<1>8. CASE PublishRetention(m)
  <2>1. /\ pc[m] = "write" /\ root = loaded[m] /\ Publish(root, draft[m])
        /\ loaded' = [loaded EXCEPT ![m] = draft[m]] /\ pc' = [pc EXCEPT ![m] = "retrace"]
        /\ draft' = [draft EXCEPT ![m] = EmptyRoot]
        /\ UNCHANGED <<lateCas, work, want, got>>
    BY <1>8 DEF PublishRetention, Holds, late
  <2>2. Follows(root, draft[m]) /\ draft[m] \in Roots
    BY <2>1 DEF HistoryInv, Designed, OpOK
  <2>3. Designed(m)'
    <3>1. pc'[m] = "retrace"
      BY <2>1 DEF OpOK
    <3> QED BY <3>1 DEF Designed
  <2>4. \A y \in Actors \ {m} : Still(y)
    BY <2>1 DEF Still, OpOK
  <2>5. \A y \in Actors : want'[y] = want[y] /\ got'[y] = got[y]
    BY <2>1
  <2>6. lateCas' \subseteq lateCas
    BY <2>1
  <2> QED BY <2>1, <2>2, <2>3, <2>4, <2>5, <2>6, Publication DEF Forward
<1>9. CASE AuthoriseDeletion(m)
  BY <1>1, <1>9 DEF AuthoriseDeletion, OpOK
<1>10. CASE DeleteObject(m)
  <2>1. UNCHANGED <<root, history, lateCas>> /\ \A y \in Actors : Still(y)
    BY <1>10 DEF DeleteObject, late, Still
  <2> QED BY <2>1, SameHistory DEF Forward
<1> QED BY <1>3, <1>4, <1>5, <1>6, <1>7, <1>8, <1>9, <1>10 DEF MaintainStep

-----------------------------------------------------------------------------
(* The theorems.                                                           *)

\* The invariant holds initially.
LEMMA HistoryInit == Init => HistoryInv
<1> SUFFICES ASSUME Init PROVE HistoryInv
  OBVIOUS
<1>1. /\ root \in Roots /\ root.start = 0 /\ history = root.segs
      /\ root.next = IF root.segs = <<>> THEN 0 ELSE End(root.segs[Len(root.segs)])
      /\ \A i \in DOMAIN root.segs :
             root.segs[i].base = IF i = 1 THEN 0 ELSE End(root.segs[i - 1])
  BY InitialRootFacts DEF Init
<1>2. RootIn(history, root)
  <2>1. DenseFrom(history, 0)
    BY <1>1 DEF DenseFrom
  <2>2. EndOf(history, root.segs)
    <3>1. root.segs \in Seq(Descriptors)
      BY <1>1 DEF Roots
    <3>2. PICK n \in Nat : n = Len(root.segs)
      BY <3>1, Length
    <3>3. n <= n /\ \A i \in 1 .. n : n - n + i = i
      OBVIOUS
    <3> QED BY <1>1, <3>2, <3>3, Zenon DEF EndOf
  <2>3. root.next = EndFrom(history, 0)
    BY <1>1 DEF EndFrom
  <2>4. root.start = IF root.segs = <<>> THEN root.next ELSE root.segs[1].base
    <3>1. CASE root.segs = <<>>
      BY <1>1, <3>1
    <3>2. CASE root.segs # <<>>
      <4>1. 1 \in DOMAIN root.segs
        BY <1>1, <3>2 DEF Roots
      <4> QED BY <1>1, <3>2, <4>1
    <3> QED BY <3>1, <3>2
  <2> QED BY <2>1, <2>2, <2>3, <2>4 DEF RootIn
<1>3. ASSUME NEW x \in Actors
      PROVE  Designed(x) /\ Selected(history, want[x]) /\ Selected(history, got[x])
  <2>1. pc[x] = "idle" /\ work[x] = NoWork /\ want[x] = NoWant /\ got[x] = NoWant
    BY DEF Init
  <2> QED BY <2>1 DEF Designed, Selected, NoWork, NoWant
<1>4. lateCas = {}
  BY DEF Init
<1> QED BY <1>2, <1>3, <1>4 DEF HistoryInv

\* Every step preserves the invariant and moves the offsets forward.
LEMMA HistoryNext == TypeOK /\ HistoryInv /\ [Next]_vars => HistoryInv' /\ Forward
<1> SUFFICES ASSUME OpOK, RestOK, HistoryInv, [Next]_vars
             PROVE  HistoryInv' /\ Forward
  BY DEF TypeOK, OpOK, RestOK
<1>1. CASE \E a \in Appenders : StartAppend(a) \/ AppendStep(a)
  BY <1>1, AppendFollows DEF Actors
<1>2. CASE \E f \in Fetchers : StartFetch(f) \/ FetchStep(f)
  BY <1>2, FetchFollows DEF Actors
<1>3. CASE \E m \in Maintainers : StartMaintain(m) \/ MaintainStep(m)
  BY <1>3, MaintainFollows DEF Actors
<1>4. CASE (\E x \in Actors : PutObject(x)) \/ UNCHANGED vars
  <2>1. UNCHANGED <<root, history, lateCas>> /\ \A y \in Actors : Still(y)
    BY <1>4 DEF PutObject, late, Still, vars, store, op
  <2> QED BY <2>1, SameHistory DEF Forward
<1>5. CASE \E x \in Actors : LoseRace(x) \/ StaleMissing(x)
  BY <1>5, QuietEndFollows DEF LoseRace, StaleMissing, Forward, store
<1>6. CASE \E x \in Actors : MissingRead(x)
  <2>1. PICK x \in Actors : MissingRead(x)
    BY <1>6
  <2>2. /\ UNCHANGED <<store, late, got>> /\ want'[x] = want[x] /\ pc'[x] = "check"
        /\ \A y \in Actors \ {x} : Still(y)
    BY <2>1 DEF MissingRead, Still, op, OpOK
  <2> QED BY <2>2, MoveFollows DEF Designed, Forward, store
<1>7. CASE \E x \in Actors : Fail(x)
  <2>1. PICK x \in Actors : Fail(x)
    BY <1>7
  <2>2. (\E o : Return(x, o)) /\ UNCHANGED <<root, history, got>>
    BY <2>1 DEF Fail, store
  <2>3. \A q \in lateCas' :
               \/ q \in lateCas
               \/ pc[x] = "write" /\ q = [expect |-> loaded[x], new |-> draft[x]]
    BY <2>1 DEF Fail, late
  <2>4. Selected(history, got'[x])
    BY <2>2 DEF HistoryInv
  <2> QED BY <2>2, <2>3, <2>4, EndFollows DEF Forward
<1>8. CASE LatePut \/ LateDelete \/ LateCas
  BY <1>8, LateFollows DEF Forward
<1> QED BY <1>1, <1>2, <1>3, <1>4, <1>5, <1>6, <1>7, <1>8 DEF Next, Step

\* The invariant holds throughout.
THEOREM HistoryInvariant == Spec => []HistoryInv
<1>1. Init => HistoryInv
  BY HistoryInit
<1>2. TypeOK /\ HistoryInv /\ [Next]_vars => HistoryInv'
  BY HistoryNext
<1>3. Spec => []TypeOK
  BY TypeCorrect
<1> QED BY <1>1, <1>2, <1>3, PTL DEF Spec

(***************************************************************************)
(* No update is lost: whichever broker or collector wins the conditional   *)
(* write, with a root it designed at any earlier time, the manifest holds  *)
(* the newest batches of everything that was ever committed.               *)
(***************************************************************************)
THEOREM NothingLost == Spec => []RootMatchesHistory
<1>1. TypeOK /\ HistoryInv => RootMatchesHistory
  <2> SUFFICES ASSUME TypeOK, HistoryInv PROVE RootMatchesHistory
    OBVIOUS
  <2>1. history \in Seq(Descriptors) /\ root.segs \in Seq(Descriptors)
    BY DEF TypeOK, Roots
  <2>2. RootIn(history, root)
    BY DEF HistoryInv
  <2>3. root.segs = SubSeq(history, Len(history) - Len(root.segs) + 1, Len(history))
    BY <2>1, <2>2, SuffixIs DEF RootIn
  <2> QED BY <2>2, <2>3 DEF RootIn, EndFrom, RootMatchesHistory
<1> QED BY <1>1, HistoryInvariant, TypeCorrect, PTL

\* A publication has a larger revision than the root it replaces.
LEMMA RevisionGrows ==
    ASSUME OpOK, RestOK, GcInv, [Next]_vars, root' # root
    PROVE  root'.rev > root.rev
<1>1. \/ \E x \in Actors : pc[x] = "write" /\ root = loaded[x] /\ root' = draft[x]
      \/ \E q \in lateCas : root = q.expect /\ root' = q.new
  <2>1. CASE \E a \in Appenders : StartAppend(a) \/ AppendStep(a)
    BY <2>1 DEF Actors, StartAppend, AppendStep, LoadAppend, Decide, AnswerDuplicates, Prepare,
                CommitAppend, Start, Load, Holds, Publish, store
  <2>2. CASE \E f \in Fetchers : StartFetch(f) \/ FetchStep(f)
    BY <2>2 DEF StartFetch, FetchStep, LoadFetch, FinishFetch, Start, Load, store
  <2>3. CASE \E m \in Maintainers : StartMaintain(m) \/ MaintainStep(m)
    BY <2>3 DEF Actors, StartMaintain, MaintainStep, ListObjects, LoadMaintain, Plan, TraceBudget,
                PublishRetention, AuthoriseDeletion, DeleteObject, FinishMaintain, Start, Load,
                Holds, Publish, store
  <2>4. CASE \E x \in Actors : \/ PutObject(x) \/ LoseRace(x) \/ MissingRead(x)
                               \/ StaleMissing(x) \/ Fail(x)
    BY <2>4 DEF PutObject, LoseRace, MissingRead, StaleMissing, Fail, store
  <2>5. CASE LatePut \/ LateDelete \/ LateCas \/ UNCHANGED vars
    BY <2>5 DEF LatePut, LateDelete, LateCas, Holds, Publish, vars, store
  <2> QED BY <2>1, <2>2, <2>3, <2>4, <2>5 DEF Next, Step
<1> QED BY <1>1 DEF GcInv, ActorSafe, CasSafe

(***************************************************************************)
(* Every publication has a new, larger revision, so an ETag never comes    *)
(* back to let a stale writer win, and neither the log start nor the next  *)
(* offset ever regresses.                                                  *)
(***************************************************************************)
THEOREM MovesForward == Spec => RootMovesForward
<1>1. TypeOK /\ GcInv /\ HistoryInv /\ [Next]_vars
        => (root' # root => /\ root'.rev > root.rev
                            /\ root'.start >= root.start
                            /\ root'.next >= root.next)
  BY HistoryNext, RevisionGrows DEF Forward, TypeOK, OpOK, RestOK
<1>2. Spec => [](TypeOK /\ GcInv /\ HistoryInv)
  BY TypeCorrect, GcInvariant, HistoryInvariant, PTL
<1> QED BY <1>1, <1>2, PTL DEF Spec, RootMovesForward

(***************************************************************************)
(* A fetch returns a gapless piece of the commit history that starts with  *)
(* the batch holding the requested offset, however often collection        *)
(* overtook it.                                                            *)
(***************************************************************************)
THEOREM FetchesSound == Spec => []FetchSound
<1>1. TypeOK /\ HistoryInv => FetchSound
  <2> SUFFICES ASSUME TypeOK, HistoryInv, NEW f \in Fetchers, got[f].segs # <<>>
               PROVE  \E i \in DOMAIN history :
                          /\ got[f].segs = SubSeq(history, i, i + Len(got[f].segs) - 1)
                          /\ history[i].base <= got[f].offset
                          /\ got[f].offset < End(history[i])
    BY DEF FetchSound
  <2>1. PICK w \in Wants : w = got[f] /\ Selected(history, w)
    BY DEF TypeOK, HistoryInv, Actors
  <2>2. history \in Seq(Descriptors) /\ w.segs \in Seq(Descriptors) /\ w.segs # <<>>
    BY <2>1 DEF TypeOK, Wants
  <2>3. PICK lh \in Nat : lh = Len(history)
    BY <2>2, Length
  <2>4. PICK n \in Nat : n = Len(w.segs) /\ n > 0
    BY <2>2, Length
  <2>5. PICK d \in Nat : PieceOf(history, d, w.segs)
    BY <2>1, <2>2, <2>3 DEF Selected
  <2>6. d + n <= lh /\ \A i \in 1 .. n : w.segs[i] = history[d + i]
    BY <2>3, <2>4, <2>5, Zenon DEF PieceOf
  <2>7. PICK s : s = SubSeq(history, d + 1, d + n)
    OBVIOUS
  <2>8. s \in Seq(Descriptors) /\ Len(s) = n /\ \A i \in 1 .. n : s[i] = history[d + i]
    <3>1. d \in Nat /\ n \in Nat /\ d + n <= Len(history)
      BY <2>3, <2>6
    <3> QED BY ONLY <2>2, <2>7, <3>1, PieceAt
  <2>9. w.segs = s
    <3>1. Len(w.segs) = Len(s) /\ \A i \in 1 .. Len(w.segs) : w.segs[i] = s[i]
      BY <2>4, <2>6, <2>8, Zenon
    <3> QED BY <2>2, <2>8, <3>1, SameAt
  <2>10. w.segs[1] = history[d + 1] /\ d + 1 \in DOMAIN history /\ (d + 1) + n - 1 = d + n
    <3>1. n > 0 /\ d + n <= lh
      BY <2>4, <2>6
    <3>2. 1 \in 1 .. n /\ d + 1 \in 1 .. lh /\ (d + 1) + n - 1 = d + n
      BY ONLY <3>1, d \in Nat, n \in Nat, lh \in Nat
    <3> QED BY <2>2, <2>3, <2>6, <3>2
  <2> QED BY <2>1, <2>2, <2>4, <2>7, <2>9, <2>10, Zenon DEF Selected
<1> QED BY <1>1, HistoryInvariant, TypeCorrect, PTL
============================================================================
