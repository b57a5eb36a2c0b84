----------------------- MODULE PartitionLogRefinement -----------------------
(***************************************************************************)
(* Why the protocol implements the abstract log of AbstractLog, for any    *)
(* number of brokers, maintenance processes, crashes and late requests:    *)
(* the steps of the partition log, seen through the commit history, are    *)
(* commits, answers, trims and stutters of the abstract log.               *)
(*                                                                         *)
(* A commit is only possible while the root is the one the append worked   *)
(* from, and the root never comes back once it was replaced (its revision  *)
(* grows).  So the invariant says of everything that may still publish     *)
(* what its publication would make of the history PROVIDED the root is     *)
(* still the expected one, and every publication makes the provisos of all *)
(* the others false.  What the replies of an append rest on must hold      *)
(* without that proviso: a request of duplicates is answered without any   *)
(* write, when the root may long be another one.                           *)
(***************************************************************************)
EXTENDS PartitionLogHistory

\* Places of a log: descriptors, and the batches an append has found new.
Entries == Descriptors \cup [base: Nat, batch: AllBatches]

\* The place k holds the batch before the one at i, of the same producer.
Previous(h, k, i) ==
    /\ k < i /\ h[k].batch.pid = h[i].batch.pid
    /\ \A j \in DOMAIN h : k < j /\ j < i => h[j].batch.pid # h[i].batch.pid

\* The place i holds the last batch of the producer p.
Latest(h, i, p) ==
    /\ h[i].batch.pid = p
    /\ \A j \in DOMAIN h : i < j => h[j].batch.pid # p

\* The batch b may follow the batch a of the same producer.
Succeeds(a, b) ==
    IF a.epoch < b.epoch THEN b.seq = 0
    ELSE a.epoch = b.epoch /\ b.seq = Advance(a.seq, a.count)

\* Every producer's batches are in sequence.
Sequenced(h) ==
    \A i \in DOMAIN h : h[i].batch.pid # NoProducer =>
        /\ (\A j \in DOMAIN h : j < i => h[j].batch.pid # h[i].batch.pid) => h[i].batch.seq = 0
        /\ \A k \in DOMAIN h : Previous(h, k, i) => Succeeds(h[k].batch, h[i].batch)

\* The log h has the batch b at the offset base.
Occurs(h, b, base) == \E i \in DOMAIN h : h[i].batch = b /\ h[i].base = base

\* The batch a producer state remembers under an identity.
BatchOf(p, st, id) ==
    [pid |-> p, epoch |-> st.epoch, seq |-> id.seq, count |-> id.count, fp |-> id.fp]

\* Everything a producer state remembers is in the log h or in the log g.
Documented(h, g, p, st) ==
    \A i \in DOMAIN st.batches :
        LET id == st.batches[i] IN
        Occurs(h, BatchOf(p, st, id), id.base) \/ Occurs(g, BatchOf(p, st, id), id.base)

\* A producer state knows the last batch of its producer in the log h.
UpToDate(h, p, st) ==
    /\ (\A i \in DOMAIN h : h[i].batch.pid # p) => st = NewState(0)
    /\ \A i \in DOMAIN h : Latest(h, i, p) =>
           /\ st.batches # <<>> /\ st.epoch = h[i].batch.epoch
           /\ st.batches[Len(st.batches)] = Identity(h[i].batch, h[i].base)

\* The log h is in sequence, and the states are those of its producers.
Tracks(h, states) ==
    /\ Sequenced(h)
    /\ \A p \in Producers : UpToDate(h, p, states[p]) /\ Documented(h, <<>>, p, states[p])

\* The batches of the sequence s come from the request r.
TakenFrom(s, r) == \A i \in DOMAIN s : \E j \in DOMAIN r : s[i].batch = r[j]

\* Publishing `new` over `old` extends the history h by one whole request,
\* in sequence, or by nothing.
Sequel(h, old, new) ==
    /\ Tracks(h \o Added(old, new), new.producers)
    /\ Added(old, new) # <<>> =>
           \E r \in Requests :
               /\ TakenFrom(Added(old, new), r)
               /\ \A j \in DOMAIN r : \E i \in DOMAIN (h \o Added(old, new)) :
                      (h \o Added(old, new))[i].batch = r[j]

\* The results so far name places of the log h or of the new batches.
Answered(h, w) ==
    /\ Len(w.results) <= Len(w.req)
    /\ \A j \in DOMAIN w.results :
           /\ Occurs(h, w.req[j], w.results[j].base) \/ Occurs(w.adds, w.req[j], w.results[j].base)
           /\ w.results[j].last = w.results[j].base + w.req[j].count - 1

\* What is known of the decisions taken so far, whatever happens to the root.
Justified(h, w) ==
    /\ Answered(h, w)
    /\ TakenFrom(w.adds, w.req)
    /\ \A p \in Producers : Documented(h, w.adds, p, w.states[p])

\* Two logs with the same batches at the same offsets.
Alike(g, h) ==
    /\ Len(g) = Len(h)
    /\ \A i \in 1 .. Len(h) : g[i].base = h[i].base /\ g[i].batch = h[i].batch

\* An append that is being decided.
Deciding(x) ==
    /\ x \in Appenders
    /\ Justified(history, work[x])
    /\ root = loaded[x] => Tracks(history \o work[x].adds, work[x].states)

\* An operation that means to publish its draft.
Publishing(x) ==
    /\ root = loaded[x] => Sequel(history, loaded[x], draft[x])
    /\ x \in Appenders =>
           /\ Answered(history, work[x]) /\ Len(work[x].results) = Len(work[x].req)
           /\ Alike(Added(loaded[x], draft[x]), work[x].adds)
           /\ Appends(loaded[x], draft[x])

Implements(x) ==
    /\ x \in Appenders /\ pc[x] # "idle" => work[x].req \in Requests
    /\ pc[x] = "decide" => Deciding(x)
    /\ pc[x] = "write" => Publishing(x)

(***************************************************************************)
(* The inductive invariant.                                                *)
(***************************************************************************)
LogInv ==
    /\ Tracks(history, root.producers)
    /\ \A x \in Actors : Implements(x)
    /\ \A q \in lateCas : root = q.expect => Sequel(history, q.expect, q.new)

-----------------------------------------------------------------------------
(* Logs.                                                                   *)

\* The fields of an entry.
LEMMA EntryFields ==
    ASSUME NEW e \in Entries
    PROVE  e.base \in Nat /\ e.batch \in AllBatches
  BY DEF Entries, Descriptors, AllBatches

\* Descriptors and new batches are entries.
LEMMA EntrySequences ==
    /\ Seq(Descriptors) \subseteq Seq(Entries)
    /\ Seq([base: Nat, batch: AllBatches]) \subseteq Seq(Entries)
<1>1. Descriptors \subseteq Entries /\ [base: Nat, batch: AllBatches] \subseteq Entries
  BY DEF Entries
<1> QED BY <1>1, SeqMonotonic

\* A batch occurs in a concatenation if it occurs in either part.
LEMMA OccursConcat ==
    ASSUME NEW h \in Seq(Entries), NEW g \in Seq(Entries), NEW b, NEW base
    PROVE  Occurs(h \o g, b, base) <=> Occurs(h, b, base) \/ Occurs(g, b, base)
<1>1. PICK m \in Nat : m = Len(h)
  BY Length
<1>2. PICK n \in Nat : n = Len(g)
  BY Length
<1>3. PICK u : u = h \o g
  OBVIOUS
<1>4. /\ u \in Seq(Entries) /\ Len(u) = m + n
      /\ \A i \in 1 .. m : u[i] = h[i]
      /\ \A i \in 1 .. n : u[m + i] = g[i]
  BY <1>1, <1>2, <1>3, ConcatAt
<1>5. DOMAIN u = 1 .. m + n /\ DOMAIN h = 1 .. m /\ DOMAIN g = 1 .. n
  BY <1>1, <1>2, <1>4
<1>6. ASSUME Occurs(u, b, base) PROVE Occurs(h, b, base) \/ Occurs(g, b, base)
  <2>1. PICK i \in 1 .. m + n : u[i].batch = b /\ u[i].base = base
    BY <1>5, <1>6 DEF Occurs
  <2>2. CASE i <= m
    <3>1. i \in 1 .. m
      BY <2>2
    <3> QED BY <1>4, <1>5, <2>1, <3>1 DEF Occurs
  <2>3. CASE ~(i <= m)
    <3>1. PICK j \in 1 .. n : m + j = i
      <4>1. i - m \in 1 .. n /\ m + (i - m) = i
        BY <2>3
      <4> QED BY <4>1
    <3>2. u[i] = g[j]
      BY <1>4, <3>1
    <3> QED BY <1>5, <2>1, <3>1, <3>2 DEF Occurs
  <2> QED BY <2>2, <2>3
<1>7. ASSUME Occurs(h, b, base) PROVE Occurs(u, b, base)
  <2>1. PICK i \in 1 .. m : h[i].batch = b /\ h[i].base = base
    BY <1>5, <1>7 DEF Occurs
  <2>2. i \in 1 .. m + n
    OBVIOUS
  <2> QED BY <1>4, <1>5, <2>1, <2>2 DEF Occurs
<1>8. ASSUME Occurs(g, b, base) PROVE Occurs(u, b, base)
  <2>1. PICK i \in 1 .. n : g[i].batch = b /\ g[i].base = base
    BY <1>5, <1>8 DEF Occurs
  <2>2. m + i \in 1 .. m + n /\ u[m + i] = g[i]
    BY <1>4
  <2> QED BY <1>5, <2>1, <2>2 DEF Occurs
<1> QED BY <1>3, <1>6, <1>7, <1>8

\* What occurs in a log is among its batches.
LEMMA OccursBatch ==
    ASSUME NEW h, NEW b, NEW base, Occurs(h, b, base)
    PROVE  \E i \in DOMAIN h : h[i].batch = b
  BY DEF Occurs

\* Logs that are alike are tracked by the same states.
LEMMA AlikeTracks ==
    ASSUME NEW g \in Seq(Entries), NEW h \in Seq(Entries), Alike(g, h), NEW states,
           Tracks(h, states)
    PROVE  Tracks(g, states)
<1>1. PICK n \in Nat : n = Len(h) /\ DOMAIN h = 1 .. n
  BY Length
<1>2. DOMAIN g = 1 .. n
  BY <1>1 DEF Alike
<1>3. \A i \in 1 .. n : g[i].base = h[i].base /\ g[i].batch = h[i].batch
  BY <1>1 DEF Alike
<1>4. Sequenced(g)
  <2>1. ASSUME NEW k \in 1 .. n, NEW i \in 1 .. n, Previous(g, k, i) PROVE Previous(h, k, i)
    <3>1. \A j \in 1 .. n : g[j].batch = h[j].batch
      BY <1>3
    <3> QED BY ONLY <1>1, <1>2, <2>1, <3>1 DEF Previous
  <2>2. Sequenced(h)
    BY DEF Tracks
  <2> QED BY <1>1, <1>2, <1>3, <2>1, <2>2 DEF Sequenced
<1>5. \A b, base : Occurs(h, b, base) => Occurs(g, b, base)
  BY <1>1, <1>2, <1>3 DEF Occurs
<1>6. ASSUME NEW p \in Producers PROVE Documented(g, <<>>, p, states[p])
  BY <1>5 DEF Tracks, Documented
<1>7. ASSUME NEW p \in Producers PROVE UpToDate(g, p, states[p])
  <2>1. UpToDate(h, p, states[p])
    BY DEF Tracks
  <2>2. \A i \in 1 .. n : Latest(g, i, p) => Latest(h, i, p)
    BY <1>1, <1>2, <1>3 DEF Latest
  <2>3. \A i \in 1 .. n : Identity(g[i].batch, g[i].base) = Identity(h[i].batch, h[i].base)
    BY <1>3
  <2> QED BY <1>1, <1>2, <1>3, <2>1, <2>2, <2>3 DEF UpToDate
<1> QED BY <1>4, <1>6, <1>7 DEF Tracks

-----------------------------------------------------------------------------
(* Producer states and the logs they stand for.                            *)

\* What a state remembers after a new batch: that batch last, and before it
\* only what it remembered in the same epoch.
LEMMA RememberKnows ==
    ASSUME NEW st \in States(Contents), NEW b \in AllBatches, NEW next \in Nat,
           Verdict(st, b) = "new", NEW new, new = Remember(st, b, next)
    PROVE  /\ new.epoch = b.epoch /\ new.batches # <<>>
           /\ new.batches[Len(new.batches)] = Identity(b, next)
           /\ \A i \in DOMAIN new.batches :
                 \/ new.batches[i] = Identity(b, next)
                 \/ /\ new.epoch = st.epoch
                    /\ \E j \in DOMAIN st.batches : new.batches[i] = st.batches[j]
<1>1. PICK s : s = AtEpoch(st, b).batches
  OBVIOUS
<1>2. PICK id : id = Identity(b, next)
  OBVIOUS
<1>3. id \in Identities(Contents) /\ b.epoch \in Nat
  BY <1>2 DEF Identity, Identities, AllBatches, Batches
<1>4. st.batches \in Seq(Identities(Contents)) /\ st.epoch \in Nat
  BY DEF States
<1>5. s = <<>> \/ (s = st.batches /\ st.epoch = b.epoch)
  <2>1. ~(b.epoch < st.epoch)
    BY DEF Verdict
  <2> QED BY <1>1, <1>3, <1>4, <2>1 DEF AtEpoch, NewState
<1>6. s \in Seq(Identities(Contents))
  <2>1. <<>> \in Seq(Identities(Contents))
    OBVIOUS
  <2> QED BY <1>4, <1>5, <2>1
<1>7. PICK n \in Nat : n = Len(s)
  BY <1>6, Length
<1>8. PICK u : u = Append(s, id)
  OBVIOUS
<1>9. /\ u \in Seq(Identities(Contents)) /\ Len(u) = n + 1 /\ u[n + 1] = id
      /\ DOMAIN u = 1 .. n + 1 /\ u # <<>>
      /\ \A i \in 1 .. n : u[i] = s[i]
  BY <1>3, <1>6, <1>7, <1>8
<1>10. \A i \in 1 .. n + 1 :
           \/ u[i] = id
           \/ st.epoch = b.epoch /\ \E j \in DOMAIN st.batches : u[i] = st.batches[j]
  <2>1. ASSUME NEW i \in 1 .. n
        PROVE  st.epoch = b.epoch /\ \E j \in DOMAIN st.batches : u[i] = st.batches[j]
    <3>1. s # <<>> /\ i \in DOMAIN s /\ u[i] = s[i]
      BY <1>6, <1>7, <1>9
    <3> QED BY <1>5, <3>1
  <2>2. \A i \in 1 .. n + 1 : i \in 1 .. n \/ i = n + 1
    OBVIOUS
  <2> QED BY <1>9, <2>1, <2>2, Zenon
<1>11. new.epoch = b.epoch /\ new.batches = IF n + 1 > RetryBatches THEN Tail(u) ELSE u
  BY <1>1, <1>2, <1>8, <1>9 DEF Remember
<1>12. CASE n + 1 > RetryBatches
  <2>1. PICK v : v = Tail(u)
    OBVIOUS
  <2>2. n > 0
    BY <1>12, RetryAssumption
  <2>3. v \in Seq(Identities(Contents)) /\ Len(v) = n /\ \A i \in 1 .. n : v[i] = u[i + 1]
    BY <1>9, <2>1
  <2>4. v # <<>> /\ v[n] = id /\ DOMAIN v = 1 .. n
    BY <1>9, <2>2, <2>3
  <2>5. \A i \in 1 .. n : i + 1 \in 1 .. n + 1
    OBVIOUS
  <2>6. new.batches = v
    BY <1>11, <1>12, <2>1
  <2>7. \A i \in 1 .. n :
            \/ v[i] = id
            \/ st.epoch = b.epoch /\ \E j \in DOMAIN st.batches : v[i] = st.batches[j]
    BY <1>10, <2>3, <2>5
  <2> QED BY <1>2, <1>11, <2>3, <2>4, <2>6, <2>7, Zenon
<1>13. CASE ~(n + 1 > RetryBatches)
  <2>1. new.batches = u
    BY <1>11, <1>13
  <2> QED BY <1>2, <1>9, <1>10, <1>11, <2>1
<1> QED BY <1>12, <1>13

\* The identity of a batch stands for that batch.
LEMMA BatchOfIdentity ==
    ASSUME NEW b \in AllBatches, NEW st, st.epoch = b.epoch, NEW id,
           id.seq = b.seq, id.count = b.count, id.fp = b.fp
    PROVE  BatchOf(b.pid, st, id) = b
  BY DEF BatchOf, AllBatches, Batches

\* What a state knows in one epoch does not depend on the rest of the state.
LEMMA BatchOfEpoch ==
    ASSUME NEW p, NEW st, NEW new, st.epoch = new.epoch, NEW id
    PROVE  BatchOf(p, st, id) = BatchOf(p, new, id)
  BY DEF BatchOf

\* After a new batch a state is documented by a log that has that batch.
LEMMA RememberDocumented ==
    ASSUME NEW st \in States(Contents), NEW b \in AllBatches, NEW next \in Nat,
           Verdict(st, b) = "new", NEW h, NEW g, Documented(h, g, b.pid, st),
           NEW h2, NEW g2,
           \A c, base : Occurs(h, c, base) \/ Occurs(g, c, base)
                            => Occurs(h2, c, base) \/ Occurs(g2, c, base),
           Occurs(h2, b, next) \/ Occurs(g2, b, next)
    PROVE  Documented(h2, g2, b.pid, Remember(st, b, next))
<1>1. PICK new : new = Remember(st, b, next)
  OBVIOUS
<1>2. PICK id : id = Identity(b, next)
  OBVIOUS
<1>3. id.seq = b.seq /\ id.count = b.count /\ id.fp = b.fp /\ id.base = next
  BY <1>2 DEF Identity
<1>4. /\ new.epoch = b.epoch
      /\ \A i \in DOMAIN new.batches :
                 \/ new.batches[i] = id
                 \/ /\ new.epoch = st.epoch
                    /\ \E j \in DOMAIN st.batches : new.batches[i] = st.batches[j]
  BY <1>1, <1>2, RememberKnows
<1>5. BatchOf(b.pid, new, id) = b
  BY <1>3, <1>4, BatchOfIdentity
<1>6. ASSUME NEW i \in DOMAIN new.batches, NEW d, d = new.batches[i]
      PROVE  \/ Occurs(h2, BatchOf(b.pid, new, d), d.base)
             \/ Occurs(g2, BatchOf(b.pid, new, d), d.base)
  <2>1. CASE d = id
    BY <1>3, <1>5, <2>1
  <2>2. CASE new.epoch = st.epoch /\ \E j \in DOMAIN st.batches : d = st.batches[j]
    <3>1. BatchOf(b.pid, new, d) = BatchOf(b.pid, st, d)
      BY <2>2, BatchOfEpoch
    <3>2. \/ Occurs(h, BatchOf(b.pid, st, d), d.base)
          \/ Occurs(g, BatchOf(b.pid, st, d), d.base)
      BY <2>2 DEF Documented
    <3> QED BY <3>1, <3>2
  <2> QED BY <1>4, <1>6, <2>1, <2>2
<1> QED BY <1>1, <1>6, Zenon DEF Documented

\* Appending a new batch to a tracked log gives a log that is in sequence.
LEMMA AppendSequenced ==
    ASSUME NEW h \in Seq(Entries), NEW states \in [Producers -> States(Contents)],
           Tracks(h, states), NEW e \in Entries,
           e.batch.pid # NoProducer => Verdict(states[e.batch.pid], e.batch) = "new"
    PROVE  Sequenced(Append(h, e))
<1>1. PICK n \in Nat : n = Len(h) /\ DOMAIN h = 1 .. n
  BY Length
<1>2. PICK g : g = Append(h, e)
  OBVIOUS
<1>3. /\ g \in Seq(Entries) /\ DOMAIN g = 1 .. n + 1 /\ g[n + 1] = e
      /\ \A i \in 1 .. n : g[i] = h[i]
  BY <1>1, <1>2
<1>4. PICK b \in AllBatches : b = e.batch
  BY EntryFields
<1>5. ASSUME NEW i \in 1 .. n, h[i].batch.pid # NoProducer
      PROVE  /\ (\A j \in 1 .. n + 1 : j < i => g[j].batch.pid # h[i].batch.pid) => h[i].batch.seq = 0
             /\ \A k \in 1 .. n + 1 : Previous(g, k, i) => Succeeds(g[k].batch, h[i].batch)
  <2>1. /\ (\A j \in 1 .. n : j < i => h[j].batch.pid # h[i].batch.pid) => h[i].batch.seq = 0
        /\ \A k \in 1 .. n : Previous(h, k, i) => Succeeds(h[k].batch, h[i].batch)
    BY <1>1, <1>5 DEF Tracks, Sequenced
  <2>2. \A j \in 1 .. n : j \in 1 .. n + 1
    OBVIOUS
  <2>3. \A k \in 1 .. n + 1 : Previous(g, k, i) => k \in 1 .. n /\ Previous(h, k, i)
    <3>1. ASSUME NEW k \in 1 .. n + 1, Previous(g, k, i) PROVE k \in 1 .. n /\ Previous(h, k, i)
      <4>1. k < i
        BY <3>1 DEF Previous
      <4>2. k \in 1 .. n
        BY <4>1
      <4> QED BY <1>1, <1>3, <2>2, <3>1, <4>2 DEF Previous
    <3> QED BY <3>1
  <2> QED BY <1>3, <2>1, <2>2, <2>3, Zenon
<1>6. ASSUME b.pid # NoProducer
      PROVE  /\ (\A j \in 1 .. n + 1 : j < n + 1 => g[j].batch.pid # b.pid) => b.seq = 0
             /\ \A k \in 1 .. n + 1 : Previous(g, k, n + 1) => Succeeds(g[k].batch, b)
  <2>1. b.pid \in Producers /\ b.epoch \in Nat
    BY <1>6 DEF AllBatches, Batches
  <2>2. PICK st : st = states[b.pid]
    OBVIOUS
  <2>3. st \in States(Contents) /\ UpToDate(h, b.pid, st) /\ Verdict(st, b) = "new"
    BY <1>4, <1>6, <2>1, <2>2 DEF Tracks
  <2>4. st.epoch \in Nat /\ ~(b.epoch < st.epoch) /\ b.seq = Expected(AtEpoch(st, b))
    BY <2>3 DEF Verdict, States
  <2>5. b.epoch > st.epoch => b.seq = 0
    BY <2>4 DEF AtEpoch, NewState, Expected
  <2>6. b.epoch = st.epoch => b.seq = Expected(st)
    BY <2>1, <2>4 DEF AtEpoch
  <2>7. \A j \in 1 .. n : j \in 1 .. n + 1 /\ j < n + 1
    OBVIOUS
  <2>8. ASSUME \A j \in 1 .. n + 1 : j < n + 1 => g[j].batch.pid # b.pid PROVE b.seq = 0
    <3>1. \A j \in DOMAIN h : h[j].batch.pid # b.pid
      BY <1>1, <1>3, <2>7, <2>8
    <3>2. st = NewState(0)
      BY <2>3, <3>1 DEF UpToDate
    <3>3. AtEpoch(st, b).batches = <<>>
      BY <3>2 DEF AtEpoch, NewState
    <3> QED BY <2>4, <3>3 DEF Expected
  <2>9. ASSUME NEW k \in 1 .. n + 1, Previous(g, k, n + 1) PROVE Succeeds(g[k].batch, b)
    <3>1. k < n + 1
      BY <2>9 DEF Previous
    <3>2. k \in 1 .. n /\ g[k] = h[k]
      BY <1>3, <3>1
    <3>3. Latest(h, k, b.pid)
      BY <1>1, <1>3, <1>4, <2>7, <2>9, <3>2 DEF Latest, Previous
    <3>4. PICK a \in AllBatches : a = h[k].batch
      BY <1>1, <3>2, EntryFields
    <3>5. /\ st.batches # <<>> /\ st.epoch = a.epoch
          /\ st.batches[Len(st.batches)] = Identity(a, h[k].base)
      BY <1>1, <2>3, <3>2, <3>3, <3>4 DEF UpToDate
    <3>6. Expected(st) = Advance(a.seq, a.count)
      BY <3>5 DEF Expected, Identity
    <3> QED BY <2>1, <2>4, <2>5, <2>6, <3>2, <3>4, <3>5, <3>6 DEF Succeeds
  <2> QED BY <2>8, <2>9
<1>7. ASSUME NEW i \in 1 .. n + 1, g[i].batch.pid # NoProducer
      PROVE  /\ (\A j \in 1 .. n + 1 : j < i => g[j].batch.pid # g[i].batch.pid) => g[i].batch.seq = 0
             /\ \A k \in 1 .. n + 1 : Previous(g, k, i) => Succeeds(g[k].batch, g[i].batch)
  <2>1. CASE i \in 1 .. n
    BY <1>3, <1>5, <1>7, <2>1
  <2>2. CASE i = n + 1
    <3>1. g[i].batch = b
      BY <1>3, <1>4, <2>2
    <3> QED BY <1>6, <1>7, <2>2, <3>1
  <2> QED BY <2>1, <2>2
<1> QED BY <1>2, <1>3, <1>7, Zenon DEF Sequenced

\* An appended batch occurs in the log, beside what was there.
LEMMA OccursAppend ==
    ASSUME NEW h \in Seq(Entries), NEW e \in Entries
    PROVE  /\ Occurs(Append(h, e), e.batch, e.base)
           /\ \A b, base : Occurs(h, b, base) => Occurs(Append(h, e), b, base)
<1>1. PICK n \in Nat : n = Len(h) /\ DOMAIN h = 1 .. n
  BY Length
<1>2. PICK g : g = Append(h, e)
  OBVIOUS
<1>3. /\ DOMAIN g = 1 .. n + 1 /\ g[n + 1] = e /\ n + 1 \in 1 .. n + 1
      /\ \A i \in 1 .. n : i \in 1 .. n + 1 /\ g[i] = h[i]
  BY <1>1, <1>2
<1> QED BY <1>1, <1>2, <1>3, Zenon DEF Occurs

\* The producer of an appended batch is up to date again, and so are the others.
LEMMA AppendUpToDate ==
    ASSUME NEW h \in Seq(Entries), NEW p \in Producers, NEW st \in States(Contents),
           UpToDate(h, p, st), NEW e \in Entries,
           e.batch.pid = p => Verdict(st, e.batch) = "new",
           NEW new, new = IF e.batch.pid = p THEN Remember(st, e.batch, e.base) ELSE st
    PROVE  UpToDate(Append(h, e), p, new)
<1>1. PICK n \in Nat : n = Len(h) /\ DOMAIN h = 1 .. n
  BY Length
<1>2. PICK g : g = Append(h, e)
  OBVIOUS
<1>3. /\ DOMAIN g = 1 .. n + 1 /\ g[n + 1] = e /\ n + 1 \in 1 .. n + 1
      /\ \A i \in 1 .. n : i \in 1 .. n + 1 /\ i < n + 1 /\ g[i] = h[i]
      /\ \A i \in 1 .. n + 1 : i \in 1 .. n \/ i = n + 1
  BY <1>1, <1>2
<1>4. CASE e.batch.pid = p
  <2>1. e.batch \in AllBatches /\ e.base \in Nat
    BY EntryFields
  <2>2. /\ new.epoch = e.batch.epoch /\ new.batches # <<>>
        /\ new.batches[Len(new.batches)] = Identity(e.batch, e.base)
    <3>1. new = Remember(st, e.batch, e.base) /\ Verdict(st, e.batch) = "new"
      BY <1>4
    <3> QED BY ONLY <2>1, <3>1, st \in States(Contents), RememberKnows
  <2>3. \A i \in 1 .. n + 1 : Latest(g, i, p) => i = n + 1
    BY <1>3, <1>4 DEF Latest
  <2>4. ~\A i \in DOMAIN g : g[i].batch.pid # p
    BY <1>3, <1>4
  <2> QED BY <1>2, <1>3, <2>2, <2>3, <2>4, Zenon DEF UpToDate
<1>5. CASE e.batch.pid # p
  <2>1. new = st
    BY <1>5
  <2>2. (\A i \in DOMAIN g : g[i].batch.pid # p) => \A i \in DOMAIN h : h[i].batch.pid # p
    BY <1>1, <1>3
  <2>3. ASSUME NEW i \in 1 .. n + 1, Latest(g, i, p)
        PROVE  i \in 1 .. n /\ Latest(h, i, p) /\ g[i] = h[i]
    <3>1. i \in 1 .. n
      BY <1>3, <1>5, <2>3 DEF Latest
    <3> QED BY <1>1, <1>3, <2>3, <3>1 DEF Latest
  <2> QED BY <1>1, <1>2, <1>3, <2>1, <2>2, <2>3, Zenon DEF UpToDate
<1> QED BY <1>4, <1>5

\* A new batch appended to a tracked log: the private states track the result.
LEMMA AppendTracks ==
    ASSUME NEW h \in Seq(Entries), NEW states \in [Producers -> States(Contents)],
           Tracks(h, states), NEW e \in Entries,
           e.batch.pid # NoProducer => Verdict(states[e.batch.pid], e.batch) = "new"
    PROVE  Tracks(Append(h, e), Learned(states, e.batch, e.base))
<1>1. Sequenced(Append(h, e))
  BY AppendSequenced
<1>2. PICK new : new = Learned(states, e.batch, e.base)
  OBVIOUS
<1>3. ASSUME NEW p \in Producers
      PROVE  UpToDate(Append(h, e), p, new[p]) /\ Documented(Append(h, e), <<>>, p, new[p])
  <2>1. PICK st \in States(Contents) : st = states[p]
    OBVIOUS
  <2>2. UpToDate(h, p, st) /\ Documented(h, <<>>, p, st)
    BY <2>1 DEF Tracks
  <2>3. new[p] = IF e.batch.pid = p THEN Remember(st, e.batch, e.base) ELSE st
    BY <1>2, <2>1, ActorsAssumption DEF Learned
  <2>4. e.batch.pid = p => Verdict(st, e.batch) = "new"
    BY <2>1, ActorsAssumption
  <2>5. UpToDate(Append(h, e), p, new[p])
    BY ONLY <2>2, <2>3, <2>4, h \in Seq(Entries), p \in Producers, st \in States(Contents),
            e \in Entries, AppendUpToDate
  <2>6. Documented(Append(h, e), <<>>, p, new[p])
    <3>1. CASE e.batch.pid = p
      <4>1. e.batch \in AllBatches /\ e.base \in Nat
        BY EntryFields
      <4>2. Documented(h, <<>>, e.batch.pid, st) /\ Verdict(st, e.batch) = "new"
        BY <2>2, <2>4, <3>1
      <4>3. Documented(Append(h, e), <<>>, e.batch.pid, Remember(st, e.batch, e.base))
        BY ONLY <4>1, <4>2, st \in States(Contents), OccursAppend, RememberDocumented,
                h \in Seq(Entries), e \in Entries
      <4> QED BY <2>3, <3>1, <4>3
    <3>2. CASE e.batch.pid # p
      BY <2>2, <2>3, <3>2, OccursAppend DEF Documented
    <3> QED BY <3>1, <3>2
  <2> QED BY <2>5, <2>6
<1> QED BY <1>1, <1>2, <1>3 DEF Tracks

\* A recognised duplicate is a batch its producer's state remembers.
LEMMA DuplicateKnown ==
    ASSUME NEW st \in States(Contents), NEW b \in AllBatches, Verdict(st, b) = "duplicate",
           NEW h, NEW g, Documented(h, g, b.pid, st)
    PROVE  \/ Occurs(h, b, Original(st, b).base)
           \/ Occurs(g, b, Original(st, b).base)
<1>1. st.batches \in Seq(Identities(Contents)) /\ st.epoch \in Nat /\ b.epoch \in Nat
  BY DEF States, AllBatches, Batches
<1>2. Remembered(AtEpoch(st, b), b) # {} /\ Matches(Original(AtEpoch(st, b), b), b)
      /\ ~(b.epoch < st.epoch)
  BY DEF Verdict
<1>3. AtEpoch(st, b) = st /\ st.epoch = b.epoch
  BY <1>1, <1>2 DEF AtEpoch, NewState, Remembered
<1>4. PICK n \in Nat : n = Len(st.batches) /\ DOMAIN st.batches = 1 .. n
  BY <1>1, Length
<1>5. PICK i : i = CHOOSE k \in Remembered(st, b) : \A j \in Remembered(st, b) : k <= j
  OBVIOUS
<1>6. i \in Remembered(st, b)
  <2>1. Remembered(st, b) \in SUBSET Nat /\ Remembered(st, b) # {}
    BY <1>2, <1>3, <1>4 DEF Remembered
  <2>2. \E m \in Remembered(st, b) : \A j \in Remembered(st, b) : m <= j
    BY <2>1, Minimum
  <2> QED BY <1>5, <2>2
<1>7. i \in DOMAIN st.batches /\ st.batches[i].seq = b.seq
  BY <1>6 DEF Remembered
<1>8. PICK id : id = st.batches[i]
  OBVIOUS
<1>9. id = Original(st, b)
  BY <1>5, <1>8 DEF Original
<1>10. id.seq = b.seq /\ id.count = b.count /\ id.fp = b.fp
  BY <1>2, <1>3, <1>7, <1>8, <1>9 DEF Matches
<1>11. BatchOf(b.pid, st, id) = b
  BY <1>3, <1>10, BatchOfIdentity
<1> QED BY <1>7, <1>8, <1>9, <1>11 DEF Documented

-----------------------------------------------------------------------------
(* The decisions of an append.                                             *)

\* It stays known when the log grows.
LEMMA JustifiedGrows ==
    ASSUME NEW h, NEW h2, \A b, base : Occurs(h, b, base) => Occurs(h2, b, base), NEW w
    PROVE  /\ Answered(h, w) => Answered(h2, w)
           /\ Justified(h, w) => Justified(h2, w)
  BY DEF Justified, Answered, Documented

\* One more result that is an occurrence of the next batch of the request.
LEMMA AnswerOneMore ==
    ASSUME NEW h, NEW w \in Works, Len(w.results) < Len(w.req), Answered(h, w),
           NEW b \in AllBatches, b = Current(w), NEW base \in Int,
           NEW v, v.req = w.req, v.results = Append(w.results, Result(base, b)),
           \A c, o : Occurs(w.adds, c, o) => Occurs(v.adds, c, o),
           Occurs(h, b, base) \/ Occurs(v.adds, b, base)
    PROVE  Answered(h, v)
<1>1. w.results \in Seq([base: Int, last: Int]) /\ w.req \in Seq(AllBatches)
  BY RequestType DEF Works
<1>2. PICK n \in Nat : n = Len(w.results) /\ DOMAIN w.results = 1 .. n
  BY <1>1, Length
<1>3. PICK m \in Nat : m = Len(w.req)
  BY <1>1, Length
<1>4. n + 1 <= m /\ b = w.req[n + 1]
  BY <1>2, <1>3 DEF Current
<1>5. PICK d : d = Result(base, b)
  OBVIOUS
<1>6. d.base = base /\ d.last = base + b.count - 1 /\ d \in [base: Int, last: Int]
  BY <1>5 DEF Result, AllBatches, Batches
<1>7. PICK s : s = Append(w.results, d)
  OBVIOUS
<1>8. /\ Len(s) = n + 1 /\ DOMAIN s = 1 .. n + 1 /\ s[n + 1] = d
      /\ \A i \in 1 .. n : s[i] = w.results[i]
      /\ \A i \in 1 .. n + 1 : i \in 1 .. n \/ i = n + 1
  BY <1>1, <1>2, <1>6, <1>7
<1>9. ASSUME NEW j \in 1 .. n + 1
      PROVE  /\ Occurs(h, w.req[j], s[j].base) \/ Occurs(v.adds, w.req[j], s[j].base)
             /\ s[j].last = s[j].base + w.req[j].count - 1
  <2>1. CASE j \in 1 .. n
    BY <1>2, <1>8, <2>1, Zenon DEF Answered
  <2>2. CASE j = n + 1
    BY <1>4, <1>6, <1>8, <2>2
  <2> QED BY <1>8, <2>1, <2>2
<1> QED BY <1>3, <1>4, <1>5, <1>7, <1>8, <1>9, Zenon DEF Answered

\* A batch found to be new.
LEMMA AdditionJustified ==
    ASSUME NEW h \in Seq(Entries), NEW w \in Works, Len(w.results) < Len(w.req),
           Judge(w) = "new", Justified(h, w), NEW v, v = Addition(w)
    PROVE  /\ Justified(h, v) /\ v.req = w.req
           /\ Tracks(h \o w.adds, w.states) => Tracks(h \o v.adds, v.states)
<1>1. PICK b \in AllBatches : b = Current(w)
  BY CurrentType
<1>2. PICK next \in Nat : next = w.next
  BY DEF Works
<1>3. PICK e : e = [base |-> next, batch |-> b]
  OBVIOUS
<1>4. e \in [base: Nat, batch: AllBatches] /\ e \in Entries /\ e.base = next /\ e.batch = b
  BY <1>3 DEF Entries
<1>5. w.adds \in Seq([base: Nat, batch: AllBatches]) /\ w.adds \in Seq(Entries)
  <2>1. w.adds \in Seq([base: Nat, batch: AllBatches])
    BY DEF Works, AllBatches
  <2> QED BY <2>1, EntrySequences
<1>6. /\ v.req = w.req /\ v.results = Append(w.results, Result(next, b))
      /\ v.adds = Append(w.adds, e) /\ v.states = Learned(w.states, b, next)
  BY <1>1, <1>2, <1>3 DEF Addition, Works
<1>7. /\ Occurs(v.adds, b, next)
      /\ \A c, o : Occurs(w.adds, c, o) => Occurs(v.adds, c, o)
  BY <1>4, <1>5, <1>6, OccursAppend
<1>8. Answered(h, v)
  <2>1. next \in Int /\ Answered(h, w)
    BY DEF Justified
  <2> QED BY ONLY <1>1, <1>6, <1>7, <2>1, w \in Works, Len(w.results) < Len(w.req),
              b \in AllBatches, AnswerOneMore
<1>9. TakenFrom(v.adds, v.req)
  <2>1. PICK n \in Nat : n = Len(w.adds) /\ DOMAIN w.adds = 1 .. n
    BY <1>5, Length
  <2>2. /\ DOMAIN v.adds = 1 .. n + 1 /\ v.adds[n + 1] = e
        /\ \A i \in 1 .. n : v.adds[i] = w.adds[i]
        /\ \A i \in 1 .. n + 1 : i \in 1 .. n \/ i = n + 1
    BY <1>4, <1>5, <1>6, <2>1
  <2>3. \E j \in DOMAIN w.req : b = w.req[j]
    <3>1. w.req \in Seq(AllBatches) /\ w.results \in Seq([base: Int, last: Int])
      BY RequestType DEF Works
    <3>2. PICK m \in Nat : m = Len(w.req) /\ DOMAIN w.req = 1 .. m
      BY <3>1, Length
    <3>3. PICK k \in Nat : k = Len(w.results)
      BY <3>1, Length
    <3>4. k + 1 \in 1 .. m
      BY <3>2, <3>3
    <3> QED BY <1>1, <3>2, <3>3, <3>4 DEF Current
  <2> QED BY <1>4, <1>6, <2>1, <2>2, <2>3 DEF TakenFrom, Justified
<1>10. w.states \in [Producers -> States(Contents)]
  BY DEF Works
<1>11. b.pid # NoProducer => b.pid \in Producers /\ Verdict(w.states[b.pid], b) = "new"
  BY <1>1 DEF Judge, AllBatches, Batches
<1>12. ASSUME NEW p \in Producers PROVE Documented(h, v.adds, p, v.states[p])
  <2>1. PICK st \in States(Contents) : st = w.states[p]
    BY <1>10
  <2>2. Documented(h, w.adds, p, st)
    BY <2>1 DEF Justified
  <2>3. v.states[p] = IF b.pid = p THEN Remember(st, b, next) ELSE st
    BY <1>6, <1>10, <2>1, ActorsAssumption DEF Learned
  <2>4. CASE b.pid = p
    <3>1. Documented(h, w.adds, b.pid, st) /\ Verdict(st, b) = "new"
      BY <1>11, <2>1, <2>2, <2>4, ActorsAssumption
    <3>2. Documented(h, v.adds, b.pid, Remember(st, b, next))
      BY ONLY <1>7, <3>1, st \in States(Contents), b \in AllBatches, next \in Nat,
              RememberDocumented
    <3> QED BY <2>3, <2>4, <3>2
  <2>5. CASE b.pid # p
    BY <1>7, <2>2, <2>3, <2>5 DEF Documented
  <2> QED BY <2>4, <2>5
<1>13. ASSUME Tracks(h \o w.adds, w.states) PROVE Tracks(h \o v.adds, v.states)
  <2>1. PICK g \in Seq(Entries) : g = h \o w.adds
    BY ONLY <1>5, h \in Seq(Entries), ConcatProperties
  <2>2. h \o v.adds = Append(g, e)
    <3>1. <<e>> \in Seq(Entries)
      BY <1>4
    <3>2. v.adds = w.adds \o <<e>> /\ Append(g, e) = g \o <<e>>
      <4>1. PICK a \in Seq(Entries) : a = w.adds
        BY <1>5
      <4>2. e \in Entries
        BY <1>4
      <4>3. Append(a, e) = a \o <<e>> /\ Append(g, e) = g \o <<e>>
        BY ONLY <4>2, a \in Seq(Entries), g \in Seq(Entries), AppendIsConcat
      <4>4. v.adds = Append(a, e)
        BY <1>6, <4>1
      <4> QED BY <4>1, <4>3, <4>4
    <3>3. (h \o w.adds) \o <<e>> = h \o (w.adds \o <<e>>)
      <4>1. PICK a \in Seq(Entries), d \in Seq(Entries) : a = w.adds /\ d = <<e>>
        BY <1>5, <3>1
      <4>2. (h \o a) \o d = h \o (a \o d)
        BY ONLY h \in Seq(Entries), a \in Seq(Entries), d \in Seq(Entries), ConcatAssociative
      <4> QED BY <4>1, <4>2, Zenon
    <3> QED BY <2>1, <3>2, <3>3
  <2>3. Tracks(Append(g, e), Learned(w.states, e.batch, e.base))
    <3>1. Tracks(g, w.states)
      BY <1>13, <2>1
    <3>2. e.batch.pid # NoProducer => Verdict(w.states[e.batch.pid], e.batch) = "new"
      BY <1>4, <1>11
    <3> QED BY ONLY <1>4, <1>10, <3>1, <3>2, g \in Seq(Entries), AppendTracks
  <2> QED BY <1>4, <1>6, <2>2, <2>3
<1> QED BY <1>6, <1>8, <1>9, <1>12, <1>13 DEF Justified

\* A batch recognised as a duplicate.
LEMMA DuplicateJustified ==
    ASSUME NEW h, NEW w \in Works, Len(w.results) < Len(w.req),
           Judge(w) = "duplicate", Justified(h, w), NEW v, v = Duplicate(w)
    PROVE  Justified(h, v) /\ v.req = w.req /\ v.adds = w.adds /\ v.states = w.states
<1>1. PICK b \in AllBatches : b = Current(w)
  BY CurrentType
<1>2. b.pid \in Producers /\ Verdict(w.states[b.pid], b) = "duplicate"
  BY <1>1 DEF Judge, AllBatches, Batches
<1>3. PICK st \in States(Contents) : st = w.states[b.pid]
  BY <1>2 DEF Works
<1>4. PICK base : base = Original(st, b).base
  OBVIOUS
<1>5. Occurs(h, b, base) \/ Occurs(w.adds, b, base)
  <2>1. Documented(h, w.adds, b.pid, st) /\ Verdict(st, b) = "duplicate"
    BY <1>2, <1>3 DEF Justified
  <2> QED BY ONLY <1>4, <2>1, st \in States(Contents), b \in AllBatches, DuplicateKnown
<1>6. base \in Int
  <2>1. Remembered(st, b) # {}
    <3>1. Remembered(AtEpoch(st, b), b) # {}
      BY <1>2, <1>3 DEF Verdict
    <3>2. AtEpoch(st, b) = st
      BY <3>1 DEF AtEpoch, NewState, Remembered
    <3> QED BY <3>1, <3>2
  <2> QED BY <1>4, <2>1, OriginalType DEF Identities
<1>7. /\ v.req = w.req /\ v.results = Append(w.results, Result(base, b))
      /\ v.adds = w.adds /\ v.states = w.states
  BY <1>1, <1>3, <1>4 DEF Duplicate, Works
<1>8. Answered(h, v)
  <2>1. Answered(h, w) /\ (Occurs(h, b, base) \/ Occurs(v.adds, b, base))
        /\ \A c, o : Occurs(w.adds, c, o) => Occurs(v.adds, c, o)
    BY <1>5, <1>7 DEF Justified
  <2> QED BY ONLY <1>1, <1>6, <1>7, <2>1, w \in Works, Len(w.results) < Len(w.req),
              b \in AllBatches, AnswerOneMore
<1> QED BY <1>7, <1>8 DEF Justified

-----------------------------------------------------------------------------
(* The publications an operation prepares.                                 *)

\* What a publication adds is a sequence of descriptors.
LEMMA AddedType ==
    ASSUME NEW old \in Roots, NEW new \in Roots
    PROVE  Added(old, new) \in Seq(Descriptors) /\ Added(old, new) \in Seq(Entries)
<1>1. new.segs \in Seq(Descriptors) /\ old.segs \in Seq(Descriptors)
  BY DEF Roots
<1>2. Len(old.segs) \in Nat /\ Len(new.segs) \in Nat
  BY <1>1
<1>3. SubSeq(new.segs, Len(old.segs) + 1, Len(new.segs)) \in Seq(Descriptors)
  BY <1>1, <1>2
<1> QED BY <1>3, EntrySequences DEF Added

\* Batches occur in logs that are alike at the same offsets.
LEMMA AlikeOccurs ==
    ASSUME NEW g \in Seq(Entries), NEW h \in Seq(Entries), Alike(g, h), NEW b, NEW base
    PROVE  Occurs(g, b, base) <=> Occurs(h, b, base)
<1>1. PICK n \in Nat : n = Len(h) /\ DOMAIN h = 1 .. n
  BY Length
<1>2. DOMAIN g = 1 .. n /\ \A i \in 1 .. n : g[i].base = h[i].base /\ g[i].batch = h[i].batch
  BY <1>1 DEF Alike
<1> QED BY <1>1, <1>2 DEF Occurs

\* Logs that continue alike are alike.
LEMMA AlikeConcat ==
    ASSUME NEW h \in Seq(Entries), NEW g \in Seq(Entries), NEW k \in Seq(Entries), Alike(g, k)
    PROVE  Alike(h \o g, h \o k)
<1>1. PICK m \in Nat : m = Len(h)
  BY Length
<1>2. PICK n \in Nat : n = Len(k) /\ n = Len(g)
  BY Length DEF Alike
<1>3. PICK u : u = h \o g
  OBVIOUS
<1>4. PICK v : v = h \o k
  OBVIOUS
<1>5. /\ Len(u) = m + n
      /\ \A i \in 1 .. m : u[i] = h[i]
      /\ \A i \in 1 .. n : u[m + i] = g[i]
  BY <1>1, <1>2, <1>3, ConcatAt
<1>6. /\ Len(v) = m + n
      /\ \A i \in 1 .. m : v[i] = h[i]
      /\ \A i \in 1 .. n : v[m + i] = k[i]
  <2>1. m = Len(h) /\ n = Len(k) /\ v = h \o k
    BY <1>1, <1>2, <1>4
  <2> QED BY ONLY <2>1, h \in Seq(Entries), k \in Seq(Entries), m \in Nat, n \in Nat, ConcatAt
<1>7. \A i \in 1 .. n : g[i].base = k[i].base /\ g[i].batch = k[i].batch
  BY <1>2 DEF Alike
<1>8. ASSUME NEW i \in 1 .. m + n PROVE u[i].base = v[i].base /\ u[i].batch = v[i].batch
  <2>1. CASE i <= m
    <3>1. i \in 1 .. m
      BY <2>1
    <3> QED BY <1>5, <1>6, <3>1
  <2>2. CASE ~(i <= m)
    <3>1. PICK j \in 1 .. n : m + j = i
      <4>1. i - m \in 1 .. n /\ m + (i - m) = i
        BY <2>2
      <4> QED BY <4>1
    <3> QED BY <1>5, <1>6, <1>7, <3>1
  <2> QED BY <2>1, <2>2
<1> QED BY <1>3, <1>4, <1>5, <1>6, <1>8 DEF Alike

\* What Prepare adds to the log are the batches found to be new.
LEMMA PrepareAdds ==
    ASSUME OpOK, RestOK, NEW a \in Actors, Prepare(a)
    PROVE  /\ Alike(Added(loaded[a], draft'[a]), work[a].adds)
           /\ draft'[a].producers = work[a].states
<1>1. PICK r \in Roots : r = loaded[a]
  BY DEF OpOK
<1>2. PICK w \in Works : w = work[a]
  BY DEF OpOK
<1>3. PICK s : s = NewSegments(a, w)
  OBVIOUS
<1>4. \E ps, ds : draft' = [draft EXCEPT ![a] = AppendedRoot(r, w, s, ps, ds)]
  BY <1>1, <1>2, <1>3 DEF Prepare
<1>5. PICK ps, ds : draft'[a] = AppendedRoot(r, w, s, ps, ds)
  BY <1>4 DEF OpOK
<1>6. PICK new : new = draft'[a]
  OBVIOUS
<1>7. s \in Seq(Descriptors) /\ Len(s) = Len(w.adds) /\ r.segs \in Seq(Descriptors)
  BY <1>3, NewSegmentsType DEF RestOK, Roots
<1>8. new.segs = r.segs \o s /\ new.producers = w.states
  BY <1>5, <1>6 DEF AppendedRoot, Roots
<1>9. Added(r, new) = s
  BY <1>7, <1>8, AddedConcat DEF Added
<1>10. Alike(s, w.adds)
  <2>1. \A i \in 1 .. Len(w.adds) : s[i].base = w.adds[i].base /\ s[i].batch = w.adds[i].batch
    BY <1>3 DEF NewSegments
  <2> QED BY <1>7, <2>1 DEF Alike
<1> QED BY <1>1, <1>2, <1>6, <1>8, <1>9, <1>10

\* An append that prepares its root may publish it.
LEMMA PreparePublishes ==
    ASSUME OpOK, RestOK, NEW a \in Actors, Prepare(a), Deciding(a), work[a].req \in Requests,
           draft'[a] \in Roots
    PROVE  /\ root = loaded[a] => Sequel(history, loaded[a], draft'[a])
           /\ Answered(history, work[a]) /\ Len(work[a].results) = Len(work[a].req)
           /\ Alike(Added(loaded[a], draft'[a]), work[a].adds)
<1>1. PICK w \in Works : w = work[a]
  BY DEF OpOK
<1>2. PICK s : s = Added(loaded[a], draft'[a])
  OBVIOUS
<1>3. s \in Seq(Entries) /\ w.adds \in Seq(Entries) /\ history \in Seq(Entries)
  <2>1. w.adds \in Seq([base: Nat, batch: AllBatches]) /\ history \in Seq(Descriptors)
    BY DEF Works, AllBatches, RestOK
  <2>2. loaded[a] \in Roots
    BY DEF OpOK
  <2> QED BY <1>2, <2>1, <2>2, AddedType, EntrySequences
<1>4. Alike(s, w.adds) /\ draft'[a].producers = w.states
  BY <1>1, <1>2, PrepareAdds
<1>5. /\ Answered(history, w) /\ TakenFrom(w.adds, w.req) /\ Len(w.results) = Len(w.req)
      /\ root = loaded[a] => Tracks(history \o w.adds, w.states)
  BY <1>1 DEF Deciding, Justified, Prepare, Decided
<1>6. PICK u \in Seq(Entries), v \in Seq(Entries) : u = history \o s /\ v = history \o w.adds
  BY ONLY <1>3, ConcatProperties
<1>7. Alike(u, v)
  BY <1>3, <1>4, <1>6, AlikeConcat
<1>8. ASSUME root = loaded[a] PROVE Tracks(u, w.states)
  BY <1>5, <1>6, <1>7, <1>8, AlikeTracks
<1>9. TakenFrom(s, w.req)
  <2>1. PICK n \in Nat : n = Len(w.adds) /\ DOMAIN w.adds = 1 .. n
    BY <1>3, Length
  <2>2. DOMAIN s = 1 .. n /\ \A i \in 1 .. n : s[i].batch = w.adds[i].batch
    BY <1>3, <1>4, <2>1 DEF Alike
  <2> QED BY <1>5, <2>1, <2>2 DEF TakenFrom
<1>10. ASSUME NEW j \in DOMAIN w.req PROVE \E i \in DOMAIN u : u[i].batch = w.req[j]
  <2>1. j \in DOMAIN w.results
    <3>1. w.results \in Seq([base: Int, last: Int]) /\ w.req \in Seq(AllBatches)
      BY RequestType DEF Works
    <3> QED BY <1>5, <3>1
  <2>2. PICK base : Occurs(history, w.req[j], base) \/ Occurs(w.adds, w.req[j], base)
    BY <1>5, <2>1 DEF Answered
  <2>3. Occurs(v, w.req[j], base)
    BY <1>3, <1>6, <2>2, OccursConcat
  <2>4. Occurs(u, w.req[j], base)
    BY <1>7, <2>3, AlikeOccurs
  <2> QED BY <2>4, OccursBatch
<1>11. root = loaded[a] => Sequel(history, loaded[a], draft'[a])
  BY <1>1, <1>2, <1>4, <1>6, <1>8, <1>9, <1>10 DEF Sequel
<1> QED BY <1>1, <1>2, <1>4, <1>5, <1>11

\* Maintenance publishes without adding anything.
LEMMA PlanPublishes ==
    ASSUME OpOK, RestOK, HistoryInv, LogInv, NEW m \in Actors, Plan(m),
           pc' # [pc EXCEPT ![m] = "idle"], draft'[m] \in Roots, root = loaded[m]
    PROVE  Sequel(history, loaded[m], draft'[m])
<1>1. Retains(loaded[m], draft'[m])
  BY PlanRetains
<1>2. history \in Seq(Descriptors) /\ root \in Roots /\ RootIn(history, root)
  BY DEF RestOK, HistoryInv
<1>3. Added(root, draft'[m]) = <<>>
  BY <1>1, <1>2, PublishTrim
<1>4. history \o <<>> = history
  BY <1>2
<1>5. draft'[m].producers = root.producers
  <2>1. PICK r \in Roots : r = loaded[m]
    BY DEF OpOK
  <2>2. \E k \in 0 .. Len(r.segs) : \E pages : draft' = [draft EXCEPT ![m] = RetainedRoot(r, k, pages)]
    BY <2>1 DEF Plan, Return
  <2>3. PICK k, pages : draft'[m] = RetainedRoot(r, k, pages)
    BY <2>2 DEF OpOK
  <2> QED BY <2>1, <2>3 DEF RetainedRoot, Trimmed, Roots
<1>6. Tracks(history, root.producers)
  BY DEF LogInv
<1> QED BY <1>3, <1>4, <1>5, <1>6 DEF Sequel

-----------------------------------------------------------------------------
(* Frame lemmas.                                                           *)

\* A step of one operation that publishes nothing.
LEMMA NoPublication ==
    ASSUME LogInv, NEW x \in Actors, UNCHANGED <<root, history>>, Implements(x)',
           \A y \in Actors \ {x} : Still(y),
           \A q \in lateCas' :
               \/ q \in lateCas
               \/ pc[x] = "write" /\ q = [expect |-> loaded[x], new |-> draft[x]]
    PROVE  LogInv'
<1>1. Tracks(history, root.producers)'
  BY DEF LogInv
<1>2. ASSUME NEW y \in Actors PROVE Implements(y)'
  <2>1. CASE y = x
    BY <2>1
  <2>2. CASE y # x
    BY <2>2 DEF LogInv, Implements, Deciding, Publishing, Still
  <2> QED BY <2>1, <2>2
<1>3. pc[x] = "write" /\ root = loaded[x] => Sequel(history, loaded[x], draft[x])
  BY DEF LogInv, Implements, Publishing
<1>4. ASSUME NEW q \in lateCas', root' = q.expect PROVE Sequel(history', q.expect, q.new)
  <2>1. CASE q \in lateCas
    BY <1>4, <2>1 DEF LogInv
  <2>2. CASE pc[x] = "write" /\ q = [expect |-> loaded[x], new |-> draft[x]]
    BY <1>3, <1>4, <2>2
  <2> QED BY <2>1, <2>2
<1> QED BY <1>1, <1>2, <1>4 DEF LogInv

\* The publication of a root that was checked against this history makes the
\* provisos of all other publications false.
LEMMA NewLog ==
    ASSUME OpOK, RestOK, GcInv, LogInv, NEW new \in Roots, Publish(root, new),
           Sequel(history, root, new), new.rev > root.rev,
           \A y \in Actors :
               \/ Still(y)
               \/ /\ pc'[y] \notin {"decide", "write"}
                  /\ y \in Appenders /\ pc'[y] # "idle" => work'[y].req \in Requests,
           lateCas' \subseteq lateCas
    PROVE  LogInv'
<1>1. root' = new /\ history' = history \o Added(root, new)
  BY DEF Publish, Added
<1>2. Tracks(history', root'.producers)
  BY <1>1 DEF Sequel
<1>3. \A b, base : Occurs(history, b, base) => Occurs(history', b, base)
  <2>1. history \in Seq(Entries) /\ Added(root, new) \in Seq(Entries)
    <3>1. root \in Roots /\ history \in Seq(Descriptors)
      BY DEF RestOK
    <3> QED BY <3>1, AddedType, EntrySequences
  <2> QED BY <1>1, <2>1, OccursConcat
<1>4. ASSUME NEW y \in Actors, Still(y) PROVE Implements(y)'
  <2>1. loaded[y].rev <= root.rev /\ loaded[y].rev \in Nat /\ root.rev \in Nat /\ new.rev \in Nat
    <3>1. loaded[y] \in Roots /\ root \in Roots
      BY DEF OpOK, RestOK
    <3> QED BY <3>1 DEF GcInv, ActorSafe, Roots
  <2>2. root' # loaded'[y]
    BY <1>1, <1>4, <2>1 DEF Still
  <2>3. Implements(y) /\ pc'[y] = pc[y] /\ work'[y] = work[y]
        /\ loaded'[y] = loaded[y] /\ draft'[y] = draft[y]
    BY <1>4 DEF LogInv, Still
  <2>4. /\ Justified(history, work[y]) => Justified(history', work[y])
        /\ Answered(history, work[y]) => Answered(history', work[y])
    BY <1>3, JustifiedGrows
  <2> QED BY <2>2, <2>3, <2>4 DEF Implements, Deciding, Publishing
<1>5. ASSUME NEW y \in Actors, pc'[y] \notin {"decide", "write"},
             y \in Appenders /\ pc'[y] # "idle" => work'[y].req \in Requests
      PROVE  Implements(y)'
  BY <1>5 DEF Implements
<1>6. ASSUME NEW q \in lateCas' PROVE root' # q.expect
  <2>1. q \in lateCas /\ q.expect \in Roots /\ root \in Roots
    BY DEF RestOK
  <2>2. q.expect.rev <= root.rev /\ q.expect.rev \in Nat /\ root.rev \in Nat /\ new.rev \in Nat
    BY <2>1 DEF GcInv, CasSafe, Roots
  <2> QED BY <1>1, <2>2
<1> QED BY <1>2, <1>4, <1>5, <1>6 DEF LogInv

\* The end of a call or of an attempt keeps at most the request.
LEMMA EndsImplement ==
    ASSUME OpOK, LogInv, NEW x \in Actors, (\E o : Return(x, o)) \/ Again(x), pc[x] # "idle"
    PROVE  /\ Implements(x)' /\ pc'[x] \notin {"decide", "write"}
           /\ x \in Appenders /\ pc'[x] # "idle" => work'[x].req \in Requests
<1>1. CASE \E o : Return(x, o)
  <2>1. pc'[x] = "idle"
    BY <1>1 DEF Return, OpOK
  <2> QED BY <2>1 DEF Implements
<1>2. CASE ~\E o : Return(x, o)
  <2>1. pc'[x] \in {"list", "load"} /\ work'[x] = [NoWork EXCEPT !.req = work[x].req]
    <3>1. /\ pc' = [pc EXCEPT ![x] = IF x \in Maintainers THEN "list" ELSE "load"]
          /\ work' = [work EXCEPT ![x] = [NoWork EXCEPT !.req = work[x].req]]
      BY <1>2 DEF Again
    <3> QED BY <3>1 DEF OpOK
  <2>2. work'[x].req = work[x].req
    BY <2>1 DEF NoWork
  <2> QED BY <2>1, <2>2 DEF LogInv, Implements
<1> QED BY <1>1, <1>2

\* The ends that publish nothing.
LEMMA EndLog ==
    ASSUME OpOK, LogInv, NEW x \in Actors, (\E o : Return(x, o)) \/ Again(x), pc[x] # "idle",
           UNCHANGED <<root, history>>, \A y \in Actors \ {x} : got'[y] = got[y],
           \A q \in lateCas' :
               \/ q \in lateCas
               \/ pc[x] = "write" /\ q = [expect |-> loaded[x], new |-> draft[x]]
    PROVE  LogInv'
<1>1. \A y \in Actors \ {x} : Still(y)
  BY EndsCleared DEF Still
<1>2. Implements(x)'
  BY EndsImplement
<1> QED BY <1>1, <1>2, NoPublication

-----------------------------------------------------------------------------
(* The actions.                                                            *)

\* The actions of an append.
LEMMA AppendImplements ==
    ASSUME OpOK, RestOK, GcInv, HistoryInv, LogInv, NEW a \in Appenders,
           StartAppend(a) \/ AppendStep(a)
    PROVE  LogInv'
<1>0. a \in Actors /\ Implements(a)
  BY DEF LogInv, Actors
<1>1. CASE StartAppend(a)
  <2>1. PICK r \in Requests : work' = [work EXCEPT ![a].req = r]
    BY <1>1 DEF StartAppend
  <2>2. /\ UNCHANGED <<root, history, lateCas, loaded, draft, want, got>>
        /\ pc' = [pc EXCEPT ![a] = "load"]
    BY <1>1 DEF StartAppend, Start, store, late
  <2>3. \A y \in Actors \ {a} : Still(y)
    BY <1>0, <2>1, <2>2 DEF Still, OpOK
  <2>4. pc'[a] = "load" /\ work'[a].req = r
    <3>1. work'[a] = [work[a] EXCEPT !.req = r] /\ work[a] \in Works /\ pc'[a] = "load"
      BY <1>0, <2>1, <2>2 DEF OpOK
    <3> QED BY <3>1 DEF Works
  <2> QED BY <1>0, <2>2, <2>3, <2>4, NoPublication DEF Implements
<1>2. CASE LoadAppend(a)
  <2>1. /\ UNCHANGED <<root, history, lateCas, draft, want, got>> /\ pc[a] = "load"
        /\ pc' = [pc EXCEPT ![a] = "decide"] /\ loaded' = [loaded EXCEPT ![a] = root]
        /\ work' = [work EXCEPT ![a].next = root.next, ![a].states = root.producers]
    BY <1>2 DEF LoadAppend, Load, store, late
  <2>2. \A y \in Actors \ {a} : Still(y)
    BY <1>0, <2>1 DEF Still, OpOK
  <2>3. PICK w : w = work'[a]
    OBVIOUS
  <2>4. /\ w.req = work[a].req /\ w.adds = <<>> /\ w.results = <<>> /\ w.states = root.producers
        /\ w.req \in Requests
    <3>1. w = [work[a] EXCEPT !.next = root.next, !.states = root.producers] /\ work[a] \in Works
      BY <1>0, <2>1, <2>3 DEF OpOK
    <3>2. work[a].adds = <<>> /\ work[a].results = <<>>
      BY <1>0, <2>1 DEF HistoryInv, Designed
    <3>3. work[a].req \in Requests
      BY <1>0, <2>1 DEF Implements
    <3> QED BY <3>1, <3>2, <3>3 DEF Works
  <2>5. pc'[a] = "decide" /\ loaded'[a] = root
    BY <1>0, <2>1 DEF OpOK
  <2>6. Tracks(history, root.producers) /\ history \o <<>> = history
    BY DEF LogInv, RestOK
  <2>7. Justified(history, w)
    <3>1. Len(<<>>) <= Len(w.req) /\ DOMAIN <<>> = {}
      <4>1. w.req \in Seq(AllBatches)
        BY <1>0, <2>4, RequestType DEF OpOK
      <4> QED BY <4>1
    <3>2. Answered(history, w) /\ TakenFrom(w.adds, w.req)
      BY <2>4, <3>1 DEF Answered, TakenFrom
    <3> QED BY <2>4, <2>6, <3>2 DEF Justified, Tracks
  <2>8. Deciding(a)'
    BY <2>1, <2>3, <2>4, <2>6, <2>7 DEF Deciding
  <2>9. Implements(a)'
    BY <2>3, <2>4, <2>5, <2>8 DEF Implements
  <2> QED BY <1>0, <2>1, <2>2, <2>9, NoPublication
<1>3. CASE Decide(a)
  <2>1. /\ UNCHANGED <<root, history, lateCas, got>> /\ pc[a] = "decide"
        /\ Len(work[a].results) < Len(work[a].req)
    BY <1>3 DEF Decide, store, late
  <2>2. CASE \E o : Return(a, o)
    BY <1>0, <2>1, <2>2, EndLog
  <2>3. CASE ~\E o : Return(a, o)
    <3>1. /\ \/ Judge(work[a]) = "new" /\ work' = [work EXCEPT ![a] = Addition(work[a])]
             \/ Judge(work[a]) = "duplicate" /\ work' = [work EXCEPT ![a] = Duplicate(work[a])]
          /\ UNCHANGED <<pc, loaded, draft, want>>
      BY <1>3, <2>3 DEF Decide
    <3>2. \A y \in Actors \ {a} : Still(y)
      BY <1>0, <2>1, <3>1 DEF Still, OpOK
    <3>3. PICK w \in Works : w = work[a]
      BY <1>0 DEF OpOK
    <3>4. PICK v : v = work'[a]
      OBVIOUS
    <3>5. /\ Justified(history, w) /\ Len(w.results) < Len(w.req)
          /\ root = loaded[a] => Tracks(history \o w.adds, w.states)
      BY <1>0, <2>1, <3>3 DEF Implements, Deciding
    <3>6. history \in Seq(Entries)
      BY EntrySequences DEF RestOK
    <3>7. /\ Justified(history, v) /\ v.req = w.req
          /\ Tracks(history \o w.adds, w.states) => Tracks(history \o v.adds, v.states)
      <4>1. CASE Judge(w) = "new" /\ v = Addition(w)
        BY ONLY <3>5, <3>6, <4>1, w \in Works, AdditionJustified
      <4>2. CASE Judge(w) = "duplicate" /\ v = Duplicate(w)
        <5>1. Justified(history, v) /\ v.req = w.req /\ v.adds = w.adds /\ v.states = w.states
          BY ONLY <3>5, <4>2, w \in Works, DuplicateJustified
        <5> QED BY <5>1
      <4> QED BY <1>0, <3>1, <3>3, <3>4, <4>1, <4>2 DEF OpOK
    <3>8. Deciding(a)'
      BY <1>0, <2>1, <3>1, <3>4, <3>5, <3>7 DEF Deciding
    <3>9. Implements(a)'
      BY <1>0, <2>1, <3>1, <3>3, <3>4, <3>7, <3>8 DEF Implements
    <3> QED BY <1>0, <2>1, <3>2, <3>9, NoPublication
  <2> QED BY <2>2, <2>3
<1>4. CASE AnswerDuplicates(a)
  <2>1. UNCHANGED <<root, history, lateCas, got>> /\ pc[a] = "decide" /\ \E o : Return(a, o)
    BY <1>4 DEF AnswerDuplicates, Decided, store, late
  <2> QED BY <1>0, <2>1, EndLog
<1>5. CASE Prepare(a)
  <2>1. /\ UNCHANGED <<root, history, lateCas, loaded, work, want, got>> /\ pc[a] = "decide"
        /\ pc' = [pc EXCEPT ![a] = "write"]
    BY <1>5 DEF Prepare, Decided, store, late
  <2>2. draft' = [draft EXCEPT ![a] = draft'[a]] /\ draft'[a] \in Roots
    BY <1>0, <1>5, PrepareFacts
  <2>3. \A y \in Actors \ {a} : Still(y)
    BY <1>0, <2>1, <2>2 DEF Still, OpOK
  <2>4. Deciding(a) /\ work[a].req \in Requests
    BY <1>0, <2>1 DEF Implements
  <2>5. /\ root = loaded[a] => Sequel(history, loaded[a], draft'[a])
        /\ Answered(history, work[a]) /\ Len(work[a].results) = Len(work[a].req)
        /\ Alike(Added(loaded[a], draft'[a]), work[a].adds)
    BY <1>0, <1>5, <2>2, <2>4, PreparePublishes
  <2>6. Publishing(a)'
    <3>1. Appends(loaded[a], draft'[a])
      BY <1>0, <1>5, <2>1, PrepareAppends DEF HistoryInv, Designed
    <3> QED BY <2>1, <2>5, <3>1 DEF Publishing
  <2>7. Implements(a)'
    <3>1. pc'[a] = "write"
      BY <1>0, <2>1 DEF OpOK
    <3> QED BY <2>1, <2>4, <2>6, <3>1 DEF Implements
  <2> QED BY <1>0, <2>1, <2>3, <2>7, NoPublication
<1>6. CASE CommitAppend(a)
  <2>1. /\ pc[a] = "write" /\ root = loaded[a] /\ Publish(root, draft[a])
        /\ UNCHANGED <<lateCas, got>> /\ \E o : Return(a, o)
    BY <1>6 DEF CommitAppend, Holds, late
  <2>2. Sequel(history, root, draft[a]) /\ draft[a] \in Roots /\ draft[a].rev > root.rev
    BY <1>0, <2>1 DEF Implements, Publishing, OpOK, GcInv, ActorSafe
  <2>3. \A y \in Actors \ {a} : Still(y)
    BY <1>0, <2>1, EndsCleared DEF Still
  <2>4. /\ pc'[a] \notin {"decide", "write"}
        /\ a \in Appenders /\ pc'[a] # "idle" => work'[a].req \in Requests
    BY <1>0, <2>1, EndsImplement
  <2> QED BY <2>1, <2>2, <2>3, <2>4, NewLog
<1> QED BY <1>1, <1>2, <1>3, <1>4, <1>5, <1>6 DEF AppendStep

\* The actions of a fetch.
LEMMA FetchImplements ==
    ASSUME OpOK, RestOK, LogInv, NEW f \in Fetchers, StartFetch(f) \/ FetchStep(f)
    PROVE  LogInv'
<1>0. f \in Actors /\ f \notin Appenders
  BY ActorsAssumption DEF Actors
<1>1. UNCHANGED <<root, history, lateCas>>
  BY DEF StartFetch, FetchStep, LoadFetch, FinishFetch, Start, Load, store, late
<1>2. CASE StartFetch(f) \/ ~\E o : Return(f, o)
  <2>1. /\ \E phase \in {"load", "read"} : pc' = [pc EXCEPT ![f] = phase]
        /\ \E r : loaded' = [loaded EXCEPT ![f] = r]
        /\ UNCHANGED <<draft, work, got>>
        /\ \E w : want' = [want EXCEPT ![f] = w]
    <3>1. CASE StartFetch(f)
      <4>1. loaded' = [loaded EXCEPT ![f] = loaded[f]]
        BY <1>0, <3>1 DEF StartFetch, Start, OpOK
      <4> QED BY <3>1, <4>1 DEF StartFetch, Start
    <3>2. CASE FetchStep(f) /\ ~\E o : Return(f, o)
      BY <3>2 DEF FetchStep, LoadFetch, FinishFetch, Load
    <3> QED BY <1>2, <3>1, <3>2
  <2>2. \A y \in Actors \ {f} : Still(y)
    BY <1>0, <2>1 DEF Still, OpOK
  <2>3. Implements(f)'
    <3>1. pc'[f] \in {"load", "read"}
      BY <1>0, <2>1 DEF OpOK
    <3> QED BY <1>0, <3>1 DEF Implements
  <2> QED BY <1>0, <1>1, <2>2, <2>3, NoPublication
<1>3. CASE FetchStep(f) /\ \E o : Return(f, o)
  <2>1. pc[f] # "idle" /\ \A y \in Actors \ {f} : got'[y] = got[y]
    BY <1>0, <1>3 DEF FetchStep, LoadFetch, FinishFetch, Load, RestOK
  <2> QED BY <1>0, <1>1, <1>3, <2>1, EndLog
<1> QED BY <1>2, <1>3

\* The actions of maintenance.
LEMMA MaintainImplements ==
    ASSUME OpOK, RestOK, GcInv, HistoryInv, LogInv, NEW m \in Maintainers,
           StartMaintain(m) \/ MaintainStep(m)
    PROVE  LogInv'
<1>0. m \in Actors /\ m \notin Appenders /\ Implements(m)
  BY ActorsAssumption DEF Actors, LogInv
<1>1. ASSUME UNCHANGED <<root, history, lateCas, work, want, got>>,
             pc' = [pc EXCEPT ![m] = pc'[m]], loaded' = [loaded EXCEPT ![m] = loaded'[m]],
             draft' = [draft EXCEPT ![m] = draft'[m]],
             pc'[m] # "decide",
             pc'[m] = "write" => /\ root = loaded'[m] => Sequel(history, loaded'[m], draft'[m])
      PROVE  LogInv'
  <2>1. \A y \in Actors \ {m} : Still(y)
    BY <1>0, <1>1 DEF Still, OpOK
  <2>2. Implements(m)'
    BY <1>0, <1>1 DEF Implements, Publishing
  <2> QED BY <1>0, <1>1, <2>1, <2>2, NoPublication
<1>2. CASE (\E o : Return(m, o)) /\ UNCHANGED <<store, late, got>> /\ pc[m] # "idle"
  BY <1>0, <1>2, EndLog DEF store, late
<1>3. CASE StartMaintain(m)
  BY <1>0, <1>1, <1>3 DEF StartMaintain, Start, OpOK, store, late
<1>4. CASE ListObjects(m)
  <2>1. CASE ~\E o : Return(m, o)
    <3>1. /\ UNCHANGED <<root, history, lateCas, got, loaded, draft, work, want>> /\ pc[m] = "list"
          /\ pc' = [pc EXCEPT ![m] = "load"] \/ UNCHANGED pc
      BY <1>4, <2>1, Zenon DEF ListObjects, store, late
    <3> QED BY <1>0, <1>1, <3>1 DEF OpOK
  <2> QED BY <1>2, <1>4, <2>1 DEF ListObjects
<1>5. CASE LoadMaintain(m)
  BY <1>0, <1>1, <1>5 DEF LoadMaintain, Load, OpOK, store, late
<1>6. CASE Plan(m)
  <2>1. UNCHANGED <<store, late, got>> /\ pc[m] = "trace"
    BY <1>6 DEF Plan
  <2>2. CASE pc' = [pc EXCEPT ![m] = "idle"]
    <3>1. pc' # [pc EXCEPT ![m] = "write"]
      BY <1>0, <2>2 DEF OpOK
    <3>2. \E o : Return(m, o)
      BY <1>6, <3>1, Zenon DEF Plan
    <3> QED BY <1>2, <2>1, <3>2
  <2>3. CASE pc' # [pc EXCEPT ![m] = "idle"]
    <3>1. /\ draft' = [draft EXCEPT ![m] = draft'[m]] /\ pc' = [pc EXCEPT ![m] = "write"]
          /\ UNCHANGED <<loaded, work, want>> /\ draft'[m] \in Roots
      BY <1>0, <1>6, <2>3, PlanFacts
    <3>2. root = loaded[m] => Sequel(history, loaded[m], draft'[m])
      BY <1>0, <1>6, <2>3, <3>1, PlanPublishes
    <3> QED BY <1>0, <1>1, <2>1, <3>1, <3>2 DEF OpOK, store, late
  <2> QED BY <2>2, <2>3
<1>7. CASE TraceBudget(m) \/ FinishMaintain(m)
  BY <1>2, <1>7 DEF TraceBudget, FinishMaintain
<1>8. CASE PublishRetention(m)
  <2>1. /\ pc[m] = "write" /\ root = loaded[m] /\ Publish(root, draft[m])
        /\ loaded' = [loaded EXCEPT ![m] = draft[m]] /\ pc' = [pc EXCEPT ![m] = "retrace"]
        /\ draft' = [draft EXCEPT ![m] = EmptyRoot]
        /\ UNCHANGED <<lateCas, work, want, got>>
    BY <1>8 DEF PublishRetention, Holds, late
  <2>2. Sequel(history, root, draft[m]) /\ draft[m] \in Roots /\ draft[m].rev > root.rev
    BY <1>0, <2>1 DEF Implements, Publishing, OpOK, GcInv, ActorSafe
  <2>3. \A y \in Actors \ {m} : Still(y)
    BY <1>0, <2>1 DEF Still, OpOK
  <2>4. pc'[m] \notin {"decide", "write"}
    BY <1>0, <2>1 DEF OpOK
  <2> QED BY <1>0, <2>1, <2>2, <2>3, <2>4, NewLog
<1>9. CASE AuthoriseDeletion(m)
  BY <1>0, <1>1, <1>9 DEF AuthoriseDeletion, OpOK, store, late
<1>10. CASE DeleteObject(m)
  BY <1>0, <1>1, <1>10 DEF DeleteObject, OpOK, late
<1> QED BY <1>3, <1>4, <1>5, <1>6, <1>7, <1>8, <1>9, <1>10 DEF MaintainStep

\* Late requests.
LEMMA LateImplements ==
    ASSUME OpOK, RestOK, GcInv, LogInv, LatePut \/ LateDelete \/ LateCas
    PROVE  LogInv'
<1>1. (\A y \in Actors : Still(y)) /\ lateCas' \subseteq lateCas
  BY DEF LatePut, LateDelete, LateCas, op, Still
<1>2. CASE UNCHANGED <<root, history>>
  BY <1>1, <1>2 DEF LogInv, Implements, Deciding, Publishing, Still
<1>3. CASE ~UNCHANGED <<root, history>>
  <2>1. PICK q \in lateCas : root = q.expect /\ Publish(q.expect, q.new)
    BY <1>3 DEF LatePut, LateDelete, LateCas, Holds
  <2>2. Sequel(history, root, q.new) /\ q.new \in Roots /\ q.new.rev > root.rev
    BY <2>1 DEF LogInv, RestOK, GcInv, CasSafe
  <2> QED BY <1>1, <2>1, <2>2, NewLog
<1> QED BY <1>2, <1>3

\* The invariant holds initially: a legacy manifest knows no producers.
LEMMA LogInit == Init => LogInv
<1> SUFFICES ASSUME Init PROVE LogInv
  OBVIOUS
<1>1. /\ history = root.segs /\ root.producers = [p \in Producers |-> NewState(0)]
      /\ \A i \in DOMAIN root.segs : root.segs[i].batch.pid = NoProducer
  BY InitialRootFacts DEF Init
<1>2. Sequenced(history)
  BY <1>1 DEF Sequenced
<1>3. ASSUME NEW p \in Producers
      PROVE  UpToDate(history, p, NewState(0)) /\ Documented(history, <<>>, p, NewState(0))
  <2>1. \A i \in DOMAIN history : history[i].batch.pid # p
    BY <1>1, ActorsAssumption
  <2>2. NewState(0).batches = <<>>
    BY DEF NewState
  <2> QED BY <2>1, <2>2 DEF UpToDate, Documented, Latest
<1>4. Tracks(history, root.producers)
  BY <1>1, <1>2, <1>3 DEF Tracks
<1>5. ASSUME NEW x \in Actors PROVE Implements(x)
  BY DEF Init, Implements
<1>6. lateCas = {}
  BY DEF Init
<1> QED BY <1>4, <1>5, <1>6 DEF LogInv

\* Every step preserves the invariant.
LEMMA LogNext == TypeOK /\ GcInv /\ HistoryInv /\ LogInv /\ [Next]_vars => LogInv'
<1> SUFFICES ASSUME OpOK, RestOK, GcInv, HistoryInv, LogInv, [Next]_vars
             PROVE  LogInv'
  BY DEF TypeOK, OpOK, RestOK
<1>1. CASE \E a \in Appenders : StartAppend(a) \/ AppendStep(a)
  BY <1>1, AppendImplements
<1>2. CASE \E f \in Fetchers : StartFetch(f) \/ FetchStep(f)
  BY <1>2, FetchImplements
<1>3. CASE \E m \in Maintainers : StartMaintain(m) \/ MaintainStep(m)
  BY <1>3, MaintainImplements
<1>4. CASE (\E x \in Actors : PutObject(x)) \/ UNCHANGED vars
  <2>1. UNCHANGED <<root, history, lateCas>> /\ \A y \in Actors : Still(y)
    BY <1>4 DEF PutObject, late, Still, vars, store, op
  <2> QED BY <2>1 DEF LogInv, Implements, Deciding, Publishing, Still
<1>5. CASE \E x \in Actors : LoseRace(x) \/ StaleMissing(x)
  <2>1. PICK x \in Actors : LoseRace(x) \/ StaleMissing(x)
    BY <1>5
  <2>2. /\ UNCHANGED <<root, history, lateCas, got>> /\ pc[x] # "idle"
        /\ (\E o : Return(x, o)) \/ Again(x)
    BY <2>1 DEF LoseRace, StaleMissing, store, late
  <2> QED BY <2>2, EndLog
<1>6. CASE \E x \in Actors : MissingRead(x)
  <2>1. PICK x \in Actors : MissingRead(x)
    BY <1>6
  <2>2. /\ UNCHANGED <<root, history, lateCas, work>> /\ pc'[x] = "check" /\ pc[x] # "idle"
        /\ \A y \in Actors \ {x} : Still(y)
    BY <2>1 DEF MissingRead, Reads, Still, op, store, late, OpOK
  <2>3. Implements(x)'
    BY <2>2 DEF LogInv, Implements
  <2> QED BY <2>2, <2>3, NoPublication
<1>7. CASE \E x \in Actors : Fail(x)
  <2>1. PICK x \in Actors : Fail(x)
    BY <1>7
  <2>2. (\E o : Return(x, o)) /\ UNCHANGED <<root, history, got>> /\ pc[x] # "idle"
    BY <2>1 DEF Fail, store
  <2>3. \A q \in lateCas' :
               \/ q \in lateCas
               \/ pc[x] = "write" /\ q = [expect |-> loaded[x], new |-> draft[x]]
    BY <2>1 DEF Fail, late
  <2> QED BY <2>2, <2>3, EndLog
<1>8. CASE LatePut \/ LateDelete \/ LateCas
  BY <1>8, LateImplements
<1> QED BY <1>1, <1>2, <1>3, <1>4, <1>5, <1>6, <1>7, <1>8 DEF Next, Step

\* The invariant holds throughout.
THEOREM LogInvariant == Spec => []LogInv
<1>1. Init => LogInv
  BY LogInit
<1>2. TypeOK /\ GcInv /\ HistoryInv /\ LogInv /\ [Next]_vars => LogInv'
  BY LogNext
<1> QED BY <1>1, <1>2, TypeCorrect, GcInvariant, HistoryInvariant, PTL DEF Spec

-----------------------------------------------------------------------------
(* The abstract log that clients see in the commit history.                *)

Seen(h) == [i \in DOMAIN h |-> [base |-> h[i].base, batch |-> h[i].batch]]

\* The abstract log has the same places.
LEMMA SeenAt ==
    ASSUME NEW h \in Seq(Descriptors), NEW n \in Nat, n = Len(h)
    PROVE  /\ DOMAIN h = 1 .. n /\ DOMAIN Seen(h) = 1 .. n
           /\ \A i \in 1 .. n : Seen(h)[i].base = h[i].base /\ Seen(h)[i].batch = h[i].batch
           /\ Seen(h) \in Seq([base: Nat, batch: AllBatches]) /\ Len(Seen(h)) = n
<1>0. PICK e : e = Seen(h)
  OBVIOUS
<1>1. DOMAIN h = 1 .. n
  OBVIOUS
<1>2. \A i \in 1 .. n : h[i] \in Descriptors
  OBVIOUS
<1>3. e = [i \in 1 .. n |-> [base |-> h[i].base, batch |-> h[i].batch]]
  BY <1>0, <1>1 DEF Seen
<1>4. \A i \in 1 .. n : [base |-> h[i].base, batch |-> h[i].batch] \in [base: Nat, batch: AllBatches]
  BY <1>2 DEF Descriptors, AllBatches
<1>5. e \in Seq([base: Nat, batch: AllBatches]) /\ Len(e) = n
  BY <1>3, <1>4, IsASeq
<1> QED BY <1>0, <1>1, <1>3, <1>5

\* The next offset of the abstract log is the one a root of it announces.
LEMMA SeenNext ==
    ASSUME NEW h \in Seq(Descriptors)
    PROVE  Abstract!Next(Seen(h)) = EndFrom(h, 0)
<1>1. PICK n \in Nat : n = Len(h) /\ (h # <<>> => n > 0)
  BY Length
<1>2. PICK e : e = Seen(h)
  OBVIOUS
<1>3. /\ DOMAIN h = 1 .. n /\ Len(e) = n /\ e \in Seq([base: Nat, batch: AllBatches])
      /\ \A i \in 1 .. n : e[i].base = h[i].base /\ e[i].batch = h[i].batch
  BY <1>1, <1>2, SeenAt
<1>4. CASE h = <<>>
  <2>1. e = <<>>
    BY <1>1, <1>3, <1>4
  <2> QED BY <1>2, <1>4, <2>1 DEF Abstract!Next, EndFrom
<1>5. CASE h # <<>>
  <2>1. e # <<>> /\ n \in 1 .. n
    BY <1>1, <1>3, <1>5
  <2> QED BY <1>1, <1>2, <1>3, <1>5, <2>1 DEF Abstract!Next, EndFrom, End
<1> QED BY <1>4, <1>5

\* Dense offsets.
LEMMA SeenDense ==
    ASSUME NEW h \in Seq(Descriptors), DenseFrom(h, 0)
    PROVE  Abstract!Dense(Seen(h))
<1>1. PICK n \in Nat : n = Len(h)
  BY Length
<1>2. PICK e : e = Seen(h)
  OBVIOUS
<1>3. /\ DOMAIN h = 1 .. n /\ DOMAIN e = 1 .. n
      /\ \A i \in 1 .. n : e[i].base = h[i].base /\ e[i].batch = h[i].batch
  BY <1>1, <1>2, SeenAt
<1>4. ASSUME NEW i \in 1 .. n
      PROVE  e[i].base = IF i = 1 THEN 0 ELSE e[i - 1].base + e[i - 1].batch.count
  <2>1. h[i].base = IF i = 1 THEN 0 ELSE End(h[i - 1])
    BY <1>3 DEF DenseFrom
  <2>2. i # 1 => i - 1 \in 1 .. n
    OBVIOUS
  <2> QED BY <1>3, <2>1, <2>2 DEF End
<1> QED BY <1>2, <1>3, <1>4 DEF Abstract!Dense

\* Every nonempty set of places has a greatest element.
LEMMA Maximum ==
    ASSUME NEW n \in Nat, NEW T \in SUBSET (1 .. n), T # {}
    PROVE  \E i \in T : \A j \in T : j <= i
<1> DEFINE U == {k \in Nat : \E i \in T : k + i = n}
<1>1. U \in SUBSET Nat /\ U # {}
  <2>1. PICK i \in T : TRUE
    OBVIOUS
  <2>2. n - i \in Nat /\ (n - i) + i = n
    OBVIOUS
  <2> QED BY <2>1, <2>2
<1>2. PICK k \in U : \A l \in U : k <= l
  BY <1>1, Minimum
<1>3. PICK i \in T : k + i = n
  BY <1>2
<1>4. ASSUME NEW j \in T PROVE j <= i
  <2>1. n - j \in Nat /\ (n - j) + j = n /\ j \in Nat /\ i \in Nat /\ k \in Nat
    BY <1>2
  <2>2. n - j \in U
    BY <2>1
  <2>3. k <= n - j
    BY <1>2, <2>2
  <2> QED BY <1>3, <2>1, <2>3
<1> QED BY <1>3, <1>4

\* The place before a batch, as the abstract log finds it.
LEMMA BeforeIsPrevious ==
    ASSUME NEW h \in Seq(Descriptors), NEW n \in Nat, n = Len(h), NEW i \in 1 .. n,
           NEW p, p = Abstract!Before(Seen(h), i)
    PROVE  \/ p = 0 /\ \A j \in 1 .. n : j < i => h[j].batch.pid # h[i].batch.pid
           \/ p \in 1 .. n /\ Previous(h, p, i)
<1>1. PICK e : e = Seen(h)
  OBVIOUS
<1>2. /\ DOMAIN h = 1 .. n /\ DOMAIN e = 1 .. n
      /\ \A j \in 1 .. n : e[j].base = h[j].base /\ e[j].batch = h[j].batch
  BY <1>1, SeenAt
<1>3. PICK T : T = {j \in 1 .. i - 1 : e[j].batch.pid = e[i].batch.pid}
  OBVIOUS
<1>4. \A j : j \in T <=> j \in 1 .. n /\ j < i /\ h[j].batch.pid = h[i].batch.pid
  <2>1. \A j : j \in 1 .. i - 1 <=> j \in 1 .. n /\ j < i
    OBVIOUS
  <2> QED BY <1>2, <1>3, <2>1
<1>5. p = IF T = {} THEN 0 ELSE CHOOSE j \in T : \A k \in T : k <= j
  BY <1>1, <1>3 DEF Abstract!Before
<1>6. CASE T = {}
  BY <1>4, <1>5, <1>6
<1>7. CASE T # {}
  <2>1. T \in SUBSET (1 .. n)
    BY <1>4
  <2>2. \E j \in T : \A k \in T : k <= j
    BY <1>7, <2>1, Maximum
  <2>3. p \in T /\ \A k \in T : k <= p
    BY <1>5, <1>7, <2>2
  <2>4. \A j \in 1 .. n : p < j /\ j < i => j \notin T
    BY <2>1, <2>3
  <2> QED BY <1>2, <1>4, <2>3, <2>4 DEF Previous
<1> QED BY <1>6, <1>7

\* Sequence numbers.
LEMMA SeenSequence ==
    ASSUME NEW h \in Seq(Descriptors), Sequenced(h)
    PROVE  Abstract!InSequence(Seen(h))
<1>1. PICK n \in Nat : n = Len(h)
  BY Length
<1>2. PICK e : e = Seen(h)
  OBVIOUS
<1>3. /\ DOMAIN h = 1 .. n /\ DOMAIN e = 1 .. n
      /\ \A i \in 1 .. n : e[i].base = h[i].base /\ e[i].batch = h[i].batch
  BY <1>1, <1>2, SeenAt
<1>4. ASSUME NEW i \in 1 .. n, e[i].batch.pid # NoProducer, NEW p, p = Abstract!Before(e, i)
      PROVE  IF p = 0 \/ e[p].batch.epoch < e[i].batch.epoch THEN e[i].batch.seq = 0
             ELSE /\ e[p].batch.epoch = e[i].batch.epoch
                  /\ e[i].batch.seq = (e[p].batch.seq + e[p].batch.count) % SeqModulus
  <2>1. \/ p = 0 /\ \A j \in 1 .. n : j < i => h[j].batch.pid # h[i].batch.pid
        \/ p \in 1 .. n /\ Previous(h, p, i)
    BY <1>1, <1>2, <1>4, BeforeIsPrevious
  <2>2. h[i].batch.pid # NoProducer
    BY <1>3, <1>4
  <2>3. CASE p = 0 /\ \A j \in 1 .. n : j < i => h[j].batch.pid # h[i].batch.pid
    BY <1>3, <2>2, <2>3 DEF Sequenced
  <2>4. CASE p \in 1 .. n /\ Previous(h, p, i)
    <3>1. Succeeds(h[p].batch, h[i].batch)
      BY <1>3, <2>2, <2>4 DEF Sequenced
    <3>2. p # 0
      BY <2>4
    <3> QED BY <1>3, <2>4, <3>1, <3>2 DEF Succeeds, Advance
  <2> QED BY <2>1, <2>3, <2>4
<1> QED BY <1>2, <1>3, <1>4 DEF Abstract!InSequence

\* The reply of an append whose batches are all in the log is true of it.
LEMMA AckHeld ==
    ASSUME NEW g \in Seq(Descriptors), NEW w \in Works, w.req \in Requests,
           Len(w.results) = Len(w.req),
           \A j \in DOMAIN w.results :
               /\ Occurs(g, w.req[j], w.results[j].base)
               /\ w.results[j].last = w.results[j].base + w.req[j].count - 1
    PROVE  Abstract!Held(Seen(g), Ack(w))
<1>1. PICK n \in Nat : n = Len(g)
  BY Length
<1>2. PICK e : e = Seen(g)
  OBVIOUS
<1>3. /\ DOMAIN g = 1 .. n /\ DOMAIN e = 1 .. n
      /\ \A i \in 1 .. n : e[i].base = g[i].base /\ e[i].batch = g[i].batch
  BY <1>1, <1>2, SeenAt
<1>4. w.req \in Seq(AllBatches) /\ w.req # <<>> /\ w.results \in Seq([base: Int, last: Int])
  BY RequestType, RequestsAssumption DEF Works
<1>5. PICK m \in Nat : m = Len(w.req) /\ m > 0
  BY <1>4, Length
<1>6. DOMAIN w.results = 1 .. m /\ 1 \in 1 .. m /\ m \in 1 .. m
  BY <1>4, <1>5
<1>7. PICK k : k = Ack(w)
  OBVIOUS
<1>8. /\ k.req = w.req /\ k.base = w.results[1].base /\ k.last = w.results[m].last
      /\ k.req[Len(k.req)] = w.req[m]
  BY <1>5, <1>7 DEF Ack
<1>9. \E i \in DOMAIN e : e[i].batch = k.req[1] /\ e[i].base = k.base
  BY <1>3, <1>6, <1>8 DEF Occurs
<1>10. \E i \in DOMAIN e : e[i].batch = w.req[m] /\ e[i].base + w.req[m].count - 1 = k.last
  <2>1. PICK i \in 1 .. n : g[i].batch = w.req[m] /\ g[i].base = w.results[m].base
    BY <1>3, <1>6 DEF Occurs
  <2>2. k.last = w.results[m].base + w.req[m].count - 1
    BY <1>6, <1>8
  <2>3. e[i].batch = w.req[m] /\ e[i].base = w.results[m].base
    BY <1>3, <2>1
  <2>4. e[i].base + w.req[m].count - 1 = k.last
    BY <2>2, <2>3
  <2> QED BY <1>3, <2>3, <2>4
<1> QED BY <1>2, <1>7, <1>8, <1>9, <1>10 DEF Abstract!Held

\* A longer history shows the same places first.
LEMMA SeenPrefix ==
    ASSUME NEW h \in Seq(Descriptors), NEW m \in Nat, m = Len(h),
           NEW g \in Seq(Descriptors), NEW k \in Nat, k = Len(g), m <= k,
           \A i \in 1 .. m : g[i] = h[i]
    PROVE  SubSeq(Seen(g), 1, m) = Seen(h)
<1>0. PICK e, f, E : e = Seen(h) /\ f = Seen(g) /\ E = [base: Nat, batch: AllBatches]
  OBVIOUS
<1>1. DOMAIN h = 1 .. m /\ e \in Seq(E) /\ Len(e) = m
  BY <1>0, SeenAt
<1>2. DOMAIN g = 1 .. k /\ f \in Seq(E) /\ Len(f) = k
  BY <1>0, SeenAt
<1>3. PICK d \in Nat : d = 0
  OBVIOUS
<1>4. PICK s : s = SubSeq(f, d + 1, d + m)
  OBVIOUS
<1>5. s \in Seq(E) /\ Len(s) = m /\ \A i \in 1 .. m : s[i] = f[d + i]
  <2>1. d \in Nat /\ m \in Nat /\ d + m <= Len(f)
    BY <1>2, <1>3
  <2>2. f \in Seq(E)
    BY <1>2
  <2>3. /\ SubSeq(f, d + 1, d + m) \in Seq(E) /\ Len(SubSeq(f, d + 1, d + m)) = m
        /\ \A i \in 1 .. m : SubSeq(f, d + 1, d + m)[i] = f[d + i]
    BY ONLY <2>1, <2>2, PieceAt
  <2> QED BY <1>4, <2>3
<1>6. ASSUME NEW i \in 1 .. m PROVE s[i] = e[i]
  <2>1. i \in DOMAIN h /\ i \in DOMAIN g /\ d + i = i
    BY <1>1, <1>2, <1>3
  <2>2. f[i] = [base |-> g[i].base, batch |-> g[i].batch]
        /\ e[i] = [base |-> h[i].base, batch |-> h[i].batch]
    BY <1>0, <2>1 DEF Seen
  <2> QED BY <1>5, <2>1, <2>2
<1>7. s = e
  BY <1>1, <1>5, <1>6, SameAt
<1> QED BY <1>0, <1>3, <1>4, <1>7

\* The publication of an append is a commit of the abstract log.
LEMMA CommitStep ==
    ASSUME OpOK, RestOK, HistoryInv, NEW new \in Roots, Publish(root, new), Appends(root, new),
           Sequel(history, root, new),
           \/ acked' = acked
           \/ \E a \in Actors :
                  /\ acked' = acked \cup {Ack(work[a])}
                  /\ work[a].req \in Requests
                  /\ Answered(history, work[a]) /\ Len(work[a].results) = Len(work[a].req)
                  /\ Alike(Added(root, new), work[a].adds)
    PROVE  Abstract!Commit
<1>1. PICK t : t = Added(root, new)
  OBVIOUS
<1>2. PICK g : g = history \o t
  OBVIOUS
<1>3. root' = new /\ history' = g
  BY <1>1, <1>2 DEF Publish, Added
<1>4. history \in Seq(Descriptors) /\ root \in Roots /\ RootIn(history, root)
  BY DEF RestOK, HistoryInv
<1>5. t \in Seq(Descriptors) /\ RootIn(g, new) /\ new.start = root.start /\ t # <<>>
  BY <1>1, <1>2, <1>4, PublishAppend DEF Appends
<1>6. PICK m \in Nat : m = Len(history)
  BY <1>4, Length
<1>7. PICK n \in Nat : n = Len(t) /\ n > 0
  BY <1>5, Length
<1>9. PICK e : e = Seen(history)
  OBVIOUS
<1>10. PICK f : f = Seen(g)
  OBVIOUS
<1>11. /\ g \in Seq(Descriptors) /\ DOMAIN g = 1 .. m + n /\ DOMAIN f = 1 .. m + n
       /\ Len(e) = m /\ Len(f) = m + n /\ SubSeq(f, 1, m) = e
       /\ \A i \in 1 .. m + n : f[i].base = g[i].base /\ f[i].batch = g[i].batch
       /\ \A i \in 1 .. n : g[m + i] = t[i]
  <2>1. PICK h \in Seq(Descriptors) : h = history
    BY <1>4
  <2>2. t \in Seq(Descriptors) /\ m = Len(h) /\ n = Len(t) /\ g = h \o t
    BY <1>2, <1>5, <1>6, <1>7, <2>1
  <2>3. PICK k \in Nat : k = m + n /\ m <= k
    OBVIOUS
  <2>4. /\ g \in Seq(Descriptors) /\ k = Len(g)
        /\ \A i \in 1 .. m : g[i] = h[i]
        /\ \A i \in 1 .. n : g[m + i] = t[i]
    BY <2>2, <2>3, ConcatAt
  <2>5. Len(e) = m
    BY ONLY <1>9, <2>1, <2>2, h \in Seq(Descriptors), m \in Nat, SeenAt
  <2>6. /\ DOMAIN g = 1 .. k /\ DOMAIN f = 1 .. k /\ Len(f) = k
        /\ \A i \in 1 .. k : f[i].base = g[i].base /\ f[i].batch = g[i].batch
    <3>1. g \in Seq(Descriptors) /\ k = Len(g)
      BY <2>4
    <3> QED BY ONLY <1>10, <3>1, k \in Nat, SeenAt
  <2>7. SubSeq(f, 1, m) = e
    <3>1. SubSeq(Seen(g), 1, m) = Seen(h)
      <4>1. m = Len(h) /\ m <= k
        BY <2>2, <2>3
      <4> QED BY ONLY <2>4, <4>1, h \in Seq(Descriptors), m \in Nat, k \in Nat, SeenPrefix
    <3> QED BY <1>9, <1>10, <2>1, <3>1
  <2> QED BY <2>3, <2>4, <2>5, <2>6, <2>7
<1>12. SubSeq(f, 1, Len(e)) = e /\ Len(f) > Len(e)
  BY <1>7, <1>11
<1>15. Abstract!Dense(f) /\ Abstract!InSequence(f)
  <2>1. DenseFrom(g, 0) /\ Sequenced(g)
    BY <1>1, <1>2, <1>5 DEF RootIn, Sequel, Tracks
  <2> QED BY <1>10, <1>11, <2>1, SeenDense, SeenSequence
<1>16. \E r \in Requests :
           /\ \A i \in Len(e) + 1 .. Len(f) : \E j \in DOMAIN r : f[i].batch = r[j]
           /\ \A j \in DOMAIN r : \E i \in DOMAIN f : f[i].batch = r[j]
  <2>1. PICK r \in Requests :
            /\ TakenFrom(t, r)
            /\ \A j \in DOMAIN r : \E i \in DOMAIN g : g[i].batch = r[j]
    BY <1>1, <1>2, <1>5 DEF Sequel
  <2>2. ASSUME NEW i \in Len(e) + 1 .. Len(f) PROVE \E j \in DOMAIN r : f[i].batch = r[j]
    <3>1. i \in m + 1 .. m + n
      BY <1>11, <2>2
    <3>2. PICK k \in 1 .. n : m + k = i
      <4>1. i - m \in 1 .. n /\ m + (i - m) = i
        BY <3>1
      <4> QED BY <4>1
    <3>3. f[i].batch = t[k].batch /\ k \in DOMAIN t
      <4>1. i \in 1 .. m + n /\ DOMAIN t = 1 .. n
        BY <1>5, <1>7, <3>1
      <4> QED BY <1>11, <3>2, <4>1
    <3> QED BY <2>1, <3>3 DEF TakenFrom
  <2>3. \A j \in DOMAIN r : \E i \in DOMAIN f : f[i].batch = r[j]
    BY <1>11, <2>1
  <2> QED BY <2>1, <2>2, <2>3
<1>17. acked \subseteq acked' /\ \A k \in acked' \ acked : Abstract!Held(f, k)
  <2>1. CASE acked' = acked
    BY <2>1
  <2>2. CASE acked' # acked
    <3>1. PICK a \in Actors :
              /\ acked' = acked \cup {Ack(work[a])}
              /\ work[a].req \in Requests
              /\ Answered(history, work[a]) /\ Len(work[a].results) = Len(work[a].req)
              /\ Alike(t, work[a].adds)
      BY <1>1, <2>2
    <3>2. PICK w \in Works : w = work[a]
      BY DEF OpOK
    <3>3. /\ history \in Seq(Entries) /\ t \in Seq(Entries) /\ w.adds \in Seq(Entries)
      <4>1. w.adds \in Seq([base: Nat, batch: AllBatches])
        BY DEF Works, AllBatches
      <4> QED BY <1>4, <1>5, <4>1, EntrySequences
    <3>4. \A b, base : Occurs(history, b, base) \/ Occurs(w.adds, b, base) => Occurs(g, b, base)
      <4>1. Alike(t, w.adds)
        BY <3>1, <3>2
      <4>2. \A b, base : Occurs(w.adds, b, base) => Occurs(t, b, base)
        BY ONLY <3>3, <4>1, AlikeOccurs
      <4> QED BY ONLY <1>2, <3>3, <4>2, OccursConcat
    <3>5. Abstract!Held(f, Ack(w))
      <4>1. \A j \in DOMAIN w.results :
                /\ Occurs(g, w.req[j], w.results[j].base)
                /\ w.results[j].last = w.results[j].base + w.req[j].count - 1
        BY <3>1, <3>2, <3>4 DEF Answered
      <4>2. w.req \in Requests /\ Len(w.results) = Len(w.req)
        BY <3>1, <3>2
      <4> QED BY <1>10, <1>11, <4>1, <4>2, AckHeld
    <3> QED BY <3>1, <3>2, <3>5
  <2> QED BY <2>1, <2>2
<1>18. e = [i \in DOMAIN history |-> [base |-> history[i].base, batch |-> history[i].batch]]
  BY <1>9 DEF Seen
<1>19. f = [i \in DOMAIN history' |-> [base |-> history'[i].base, batch |-> history'[i].batch]]
  BY <1>3, <1>10 DEF Seen
<1> QED BY <1>3, <1>5, <1>12, <1>15, <1>16, <1>17, <1>18, <1>19
        DEF Abstract!Commit, Abstract!Answers

\* The publication of maintenance is a trim of the abstract log, or a stutter.
LEMMA TrimStep ==
    ASSUME RestOK, HistoryInv, NEW new \in Roots, Publish(root, new), Retains(root, new),
           acked' = acked
    PROVE  Abstract!Trim \/ UNCHANGED Abstract!absVars
<1>1. history \in Seq(Descriptors) /\ root \in Roots /\ RootIn(history, root)
  BY DEF RestOK, HistoryInv
<1>2. /\ Added(root, new) = <<>> /\ RootIn(history, new)
      /\ new.start >= root.start
  BY <1>1, PublishTrim
<1>3. history \o <<>> = history
  BY <1>1
<1>4. root' = new /\ history' = history
  BY <1>2, <1>3 DEF Publish, Added
<1>5. new.start \in Nat /\ root.start \in Nat /\ new.segs \in Seq(Descriptors)
  BY <1>1 DEF Roots
<1>6. CASE new.start = root.start
  BY <1>4, <1>6 DEF Abstract!absVars
<1>7. CASE new.start > root.start
  <2>1. PICK e : e = Seen(history)
    OBVIOUS
  <2>2. e = [i \in DOMAIN history |-> [base |-> history[i].base, batch |-> history[i].batch]]
    BY <2>1 DEF Seen
  <2>3. new.start = Abstract!Next(e) \/ \E i \in DOMAIN e : new.start = e[i].base
    <3>1. CASE new.segs = <<>>
      BY <1>1, <1>2, <2>1, <3>1, SeenNext DEF RootIn
    <3>2. CASE new.segs # <<>>
      <4>1. PICK m \in Nat : m = Len(history)
        BY <1>1, Length
      <4>2. PICK n \in Nat : n = Len(new.segs) /\ n > 0
        BY <1>5, <3>2, Length
      <4>3. n <= m /\ new.segs[1] = history[m - n + 1]
        <5>1. EndOf(history, new.segs)
          BY <1>2 DEF RootIn
        <5>2. n <= m /\ \A i \in 1 .. n : new.segs[i] = history[m - n + i]
          BY <4>1, <4>2, <5>1, Zenon DEF EndOf
        <5>3. 1 \in 1 .. n
          BY <4>2
        <5> QED BY ONLY <5>2, <5>3
      <4>4. m - n + 1 \in 1 .. m /\ DOMAIN history = 1 .. m /\ DOMAIN e = 1 .. m
        BY <1>1, <2>2, <4>1, <4>2, <4>3
      <4>5. e[m - n + 1].base = new.segs[1].base
        BY <2>2, <4>3, <4>4
      <4> QED BY <1>2, <3>2, <4>4, <4>5 DEF RootIn
    <3> QED BY <3>1, <3>2
  <2> QED BY <1>4, <1>7, <2>2, <2>3 DEF Abstract!Trim
<1> QED BY <1>2, <1>5, <1>6, <1>7

\* A reply to duplicates is an answer of the abstract log, or a stutter.
LEMMA AnswerStep ==
    ASSUME OpOK, RestOK, LogInv, NEW a \in Appenders, AnswerDuplicates(a)
    PROVE  Abstract!Answer \/ UNCHANGED Abstract!absVars
<1>1. /\ acked' = acked \cup {Ack(work[a])} /\ UNCHANGED <<root, history>>
      /\ pc[a] = "decide" /\ Len(work[a].results) = Len(work[a].req) /\ work[a].adds = <<>>
  BY DEF AnswerDuplicates, Decided, store
<1>2. a \in Actors
  BY DEF Actors
<1>3. PICK w \in Works : w = work[a]
  BY <1>2 DEF OpOK
<1>4. w.req \in Requests /\ Answered(history, w)
  BY <1>1, <1>2, <1>3 DEF LogInv, Implements, Deciding, Justified
<1>5. history \in Seq(Descriptors)
  BY DEF RestOK
<1>6. \A j \in DOMAIN w.results :
          /\ Occurs(history, w.req[j], w.results[j].base)
          /\ w.results[j].last = w.results[j].base + w.req[j].count - 1
  <2>1. \A b, base : ~Occurs(w.adds, b, base)
    BY <1>1, <1>3 DEF Occurs
  <2> QED BY <1>4, <2>1 DEF Answered
<1>7. Abstract!Held(Seen(history), Ack(w))
  <2>1. Len(w.results) = Len(w.req) /\ w.req \in Requests
    BY <1>1, <1>3, <1>4
  <2> QED BY <1>5, <1>6, <2>1, AckHeld
<1>8. acked \subseteq acked' /\ \A k \in acked' \ acked : Abstract!Held(Seen(history'), k)
  BY <1>1, <1>3, <1>7
<1>9. Seen(history') =
          [i \in DOMAIN history' |-> [base |-> history'[i].base, batch |-> history'[i].batch]]
  BY DEF Seen
<1>10. Abstract!Answers
  BY <1>8, <1>9 DEF Abstract!Answers
<1>11. CASE acked' = acked
  BY <1>1, <1>11 DEF Abstract!absVars
<1>12. CASE acked' # acked
  BY <1>1, <1>10, <1>12 DEF Abstract!Answer
<1> QED BY <1>11, <1>12

\* A log without producers' batches, with dense offsets, is an initial one.
LEMMA InitialLog == Init => Abstract!AbsInit
<1> SUFFICES ASSUME Init PROVE Abstract!AbsInit
  OBVIOUS
<1>1. /\ history = root.segs /\ root \in Roots /\ root.start = 0 /\ acked = {}
      /\ \A i \in DOMAIN root.segs :
             root.segs[i].base = IF i = 1 THEN 0 ELSE End(root.segs[i - 1])
  BY InitialRootFacts DEF Init
<1>2. history \in Seq(Descriptors) /\ DenseFrom(history, 0)
  BY <1>1 DEF Roots, DenseFrom
<1>3. Sequenced(history)
  BY LogInit DEF LogInv, Tracks
<1>4. Abstract!Dense(Seen(history)) /\ Abstract!InSequence(Seen(history))
  BY <1>2, <1>3, SeenDense, SeenSequence
<1> QED BY <1>1, <1>4 DEF Abstract!AbsInit, Seen

\* Every step is a commit, an answer, a trim or a stutter.
LEMMA StepImplements ==
    ASSUME OpOK, RestOK, GcInv, HistoryInv, LogInv, [Next]_vars
    PROVE  [Abstract!AbsNext]_(Abstract!absVars)
<1>1. CASE UNCHANGED <<root, history, acked>>
  BY <1>1 DEF Abstract!absVars
<1>2. CASE \E a \in Appenders : CommitAppend(a)
  <2>1. PICK a \in Appenders : CommitAppend(a)
    BY <1>2
  <2>2. /\ pc[a] = "write" /\ root = loaded[a] /\ Publish(root, draft[a])
        /\ acked' = acked \cup {Ack(work[a])}
    BY <2>1 DEF CommitAppend, Holds
  <2>3. a \in Actors
    BY DEF Actors
  <2>4. /\ draft[a] \in Roots /\ work[a].req \in Requests
        /\ Sequel(history, root, draft[a]) /\ Appends(root, draft[a])
        /\ Answered(history, work[a]) /\ Len(work[a].results) = Len(work[a].req)
        /\ Alike(Added(root, draft[a]), work[a].adds)
    BY <2>2, <2>3 DEF LogInv, Implements, Publishing, OpOK
  <2>5. Abstract!Commit
    BY <2>2, <2>3, <2>4, CommitStep
  <2> QED BY <2>5 DEF Abstract!AbsNext
<1>3. CASE \E a \in Appenders : AnswerDuplicates(a)
  BY <1>3, AnswerStep DEF Abstract!AbsNext
<1>4. CASE \E m \in Maintainers : PublishRetention(m)
  <2>1. PICK m \in Maintainers : PublishRetention(m)
    BY <1>4
  <2>2. pc[m] = "write" /\ root = loaded[m] /\ Publish(root, draft[m]) /\ acked' = acked
    BY <2>1 DEF PublishRetention, Holds
  <2>3. m \in Actors
    BY DEF Actors
  <2>4. draft[m] \in Roots /\ Sequel(history, root, draft[m]) /\ Follows(root, draft[m])
    BY <2>2, <2>3 DEF LogInv, Implements, Publishing, OpOK, HistoryInv, Designed
  <2>5. CASE Appends(root, draft[m])
    <3>1. Abstract!Commit
      BY <2>2, <2>4, <2>5, CommitStep
    <3> QED BY <3>1 DEF Abstract!AbsNext
  <2>6. CASE Retains(root, draft[m])
    BY <2>2, <2>4, <2>6, TrimStep DEF Abstract!AbsNext
  <2> QED BY <2>4, <2>5, <2>6 DEF Follows
<1>5. CASE LateCas /\ ~UNCHANGED <<root, history>>
  <2>1. PICK q \in lateCas : root = q.expect /\ Publish(q.expect, q.new)
    BY <1>5 DEF LateCas, Holds
  <2>2. acked' = acked /\ Publish(root, q.new)
    BY <1>5, <2>1 DEF LateCas
  <2>3. q.new \in Roots /\ Sequel(history, root, q.new) /\ Follows(root, q.new)
    BY <2>1 DEF LogInv, RestOK, HistoryInv
  <2>4. CASE Appends(root, q.new)
    <3>1. Abstract!Commit
      BY <2>2, <2>3, <2>4, CommitStep
    <3> QED BY <3>1 DEF Abstract!AbsNext
  <2>5. CASE Retains(root, q.new)
    BY <2>2, <2>3, <2>5, TrimStep DEF Abstract!AbsNext
  <2> QED BY <2>3, <2>4, <2>5 DEF Follows
<1>6. \/ UNCHANGED <<root, history, acked>>
      \/ \E a \in Appenders : CommitAppend(a) \/ AnswerDuplicates(a)
      \/ \E m \in Maintainers : PublishRetention(m)
      \/ LateCas /\ ~UNCHANGED <<root, history>>
  <2>1. CASE \E a \in Appenders : StartAppend(a) \/ AppendStep(a)
    BY <2>1 DEF StartAppend, AppendStep, LoadAppend, Decide, Prepare, Start, Load, store
  <2>2. CASE \E f \in Fetchers : StartFetch(f) \/ FetchStep(f)
    BY <2>2 DEF StartFetch, FetchStep, LoadFetch, FinishFetch, Start, Load, store
  <2>3. CASE \E m \in Maintainers : StartMaintain(m) \/ MaintainStep(m)
    BY <2>3 DEF StartMaintain, MaintainStep, ListObjects, LoadMaintain, Plan, TraceBudget,
                AuthoriseDeletion, DeleteObject, FinishMaintain, Start, Load, store
  <2>4. CASE \E x \in Actors : \/ PutObject(x) \/ LoseRace(x) \/ MissingRead(x)
                               \/ StaleMissing(x) \/ Fail(x)
    BY <2>4 DEF PutObject, LoseRace, MissingRead, StaleMissing, Fail, store
  <2>5. CASE LatePut \/ LateDelete \/ LateCas \/ UNCHANGED vars
    BY <2>5 DEF LatePut, LateDelete, LateCas, vars, store
  <2> QED BY <2>1, <2>2, <2>3, <2>4, <2>5 DEF Next, Step
<1> QED BY <1>1, <1>2, <1>3, <1>4, <1>5, <1>6

(***************************************************************************)
(* The protocol implements the abstract log: whatever brokers, maintenance *)
(* processes, crashes and late requests do, a client sees requests that    *)
(* are committed as a whole, once, in sequence and at dense offsets,       *)
(* replies that are true of the log for ever, and a start that only moves  *)
(* to batch boundaries.                                                    *)
(***************************************************************************)
THEOREM LogImplemented == Spec => ImplementsLog
<1>1. Init => Abstract!AbsInit
  BY InitialLog
<1>2. TypeOK /\ GcInv /\ HistoryInv /\ LogInv /\ [Next]_vars
          => [Abstract!AbsNext]_(Abstract!absVars)
  BY StepImplements DEF TypeOK, OpOK, RestOK
<1>3. Spec => [](TypeOK /\ GcInv /\ HistoryInv /\ LogInv)
  BY TypeCorrect, GcInvariant, HistoryInvariant, LogInvariant, PTL
<1> QED BY <1>1, <1>2, <1>3, PTL DEF Spec, ImplementsLog, Abstract!AbsSpec
============================================================================
