------------------------ MODULE TopicMetadataProofs ------------------------
(***************************************************************************)
(* The partition count of a topic never changes, for any number of brokers *)
(* and any configured counts.                                              *)
(*                                                                         *)
(* The argument: a manifest appears only after the count is stored, except *)
(* the one a legacy topic starts with; while the count is not stored,      *)
(* everybody who saw the legacy manifest, and everybody who will, proposes *)
(* one partition.  What creators are told is the stored count, because a   *)
(* broker answers only with a count that it stored or read after a store.  *)
(***************************************************************************)
EXTENDS TopicMetadata, TLAPS

\* A proposal for a topic that already has an inferred count agrees with it.
Compatible(n) == n \in Nat \ {0} /\ (meta = 0 /\ 0 \in manifests => n = DefaultPartitions)

CallSafe(b) ==
    /\ pc[b] \in {"append", "reload"} => meta # 0
    /\ pc[b] = "append" => call[b].part < meta
    /\ pc[b] = "create" => Compatible(proposed[b]) /\ call[b].part < proposed[b]

\* The inductive invariant behind the fixed count.
CountInv ==
    /\ TypeOK
    /\ meta = 0 => manifests \subseteq {0}
    /\ AppendsInRange
    /\ \A b \in Brokers : CallSafe(b)
    /\ \A n \in lateCreates : Compatible(n)

\* The invariant holds initially.
LEMMA CountInit == Init => CountInv
<1> SUFFICES ASSUME Init PROVE CountInv
  OBVIOUS
<1>1. TypeOK
  BY DEF Init, TypeOK, Kinds
<1>2. AppendsInRange
  BY DEF Init, AppendsInRange, Durable, Inferred, DefaultPartitions
<1> QED BY <1>1, <1>2 DEF Init, CountInv, CallSafe

\* What Checked does to the broker that calls it.
LEMMA CheckedFacts ==
    ASSUME TypeOK, NEW b \in Brokers, NEW n \in Nat, Checked(b, n)
    PROVE  /\ pc' \in [Brokers -> {"idle", "meta", "manifest", "create", "reload", "append"}]
           /\ \A c \in Brokers \ {b} : pc'[c] = pc[c]
           /\ pc'[b] \in {"idle", "append"}
           /\ pc'[b] = "append" => call[b].part < n
<1>1. call[b].part \in Int
  <2>1. call[b] \in [kind: Kinds, part: Partitions \cup {0}]
    BY DEF TypeOK
  <2>2. call[b].part \in Partitions \cup {0}
    BY <2>1
  <2>3. call[b].part \in Partitions => call[b].part \in Nat
    BY PartitionsAssumption, Zenon
  <2> QED BY <2>2, <2>3
<1>2. CASE call[b].part >= n \/ call[b].kind # "append"
  <2>1. pc' = [pc EXCEPT ![b] = "idle"]
    BY <1>2 DEF Checked, Return
  <2> QED BY <2>1 DEF TypeOK
<1>3. CASE ~(call[b].part >= n) /\ call[b].kind = "append"
  <2>1. pc' = [pc EXCEPT ![b] = "append"] /\ call[b].part < n
    BY <1>1, <1>3 DEF Checked
  <2> QED BY <2>1 DEF TypeOK
<1> QED BY <1>2, <1>3

\* A step that keeps the count and the manifests keeps every proposal good.
LEMMA QuietStep ==
    ASSUME CountInv, UNCHANGED <<meta, manifests, lateCreates>>, TypeOK', NEW b \in Brokers,
           \A c \in Brokers \ {b} : pc'[c] = pc[c] /\ call'[c] = call[c] /\ proposed'[c] = proposed[c],
           CallSafe(b)'
    PROVE  CountInv'
<1>1. ASSUME NEW c \in Brokers PROVE CallSafe(c)'
  BY DEF CountInv, CallSafe, Compatible
<1> QED BY <1>1 DEF CountInv, AppendsInRange, Durable, Inferred, Compatible

\* A step that stores the count: from then on it is the stored one.
LEMMA StoreStep ==
    ASSUME CountInv, meta = 0, meta' \in Nat \ {0}, Compatible(meta'),
           UNCHANGED <<manifests, call, proposed>>, lateCreates' \subseteq lateCreates,
           pc' \in [Brokers -> {"idle", "meta", "manifest", "create", "reload", "append"}],
           created' \in [Brokers -> BOOLEAN],
           \A c \in Brokers : \/ pc'[c] = pc[c]
                              \/ pc'[c] = "idle"
                              \/ pc'[c] = "append" /\ call[c].part < meta'
    PROVE  CountInv' /\ (Durable # 0 => Durable' = Durable)
<1>1. TypeOK'
  BY DEF CountInv, TypeOK
<1>2. ASSUME NEW c \in Brokers PROVE CallSafe(c)'
  BY DEF CountInv, CallSafe, Compatible
<1>3. AppendsInRange'
  BY DEF CountInv, AppendsInRange, Durable, Inferred, Compatible
<1>4. Durable # 0 => Durable' = Durable
  BY DEF Durable, Inferred, Compatible
<1>5. \A n \in lateCreates' : Compatible(n)'
  BY DEF CountInv, Compatible
<1> QED BY <1>1, <1>2, <1>3, <1>4, <1>5 DEF CountInv

\* A step that gives the partition of an append its manifest.
LEMMA ManifestStep ==
    ASSUME CountInv, NEW b \in Brokers, pc[b] = "append",
           UNCHANGED <<meta, lateCreates, call, proposed, created>>,
           manifests' = manifests \cup {call[b].part}, pc' = [pc EXCEPT ![b] = "idle"]
    PROVE  CountInv' /\ Durable' = Durable
<1>1. meta # 0 /\ call[b].part < meta /\ TypeOK
  BY DEF CountInv, CallSafe
<1>2. TypeOK' /\ pc'[b] = "idle" /\ \A c \in Brokers \ {b} : pc'[c] = pc[c]
  BY <1>1 DEF TypeOK
<1>3. ASSUME NEW c \in Brokers PROVE CallSafe(c)'
  BY <1>1, <1>2 DEF CountInv, CallSafe, Compatible
<1>4. AppendsInRange'
  BY <1>1 DEF CountInv, AppendsInRange, Durable
<1>5. \A n \in lateCreates' : Compatible(n)'
  BY <1>1 DEF CountInv, Compatible
<1> QED BY <1>1, <1>2, <1>3, <1>4, <1>5 DEF CountInv, Durable

\* Every step keeps the invariant, and a count that is there.
LEMMA CountNext ==
    ASSUME CountInv, [Next]_vars
    PROVE  CountInv' /\ (Durable # 0 => Durable' = Durable)
<1>0. TypeOK
  BY DEF CountInv
<1>1. ASSUME NEW b \in Brokers, Call(b) PROVE CountInv' /\ Durable' = Durable
  <2>1. TypeOK' /\ UNCHANGED <<meta, manifests, lateCreates>> /\ pc'[b] = "meta"
    BY <1>0, <1>1 DEF Call, TypeOK
  <2>2. \A c \in Brokers \ {b} : pc'[c] = pc[c] /\ call'[c] = call[c] /\ proposed'[c] = proposed[c]
    BY <1>0, <1>1 DEF Call, TypeOK
  <2>3. CallSafe(b)'
    BY <2>1 DEF CallSafe
  <2> QED BY <2>1, <2>2, <2>3, QuietStep DEF Durable, Inferred
<1>2. ASSUME NEW b \in Brokers, LoadMeta(b) PROVE CountInv' /\ Durable' = Durable
  <2>1. UNCHANGED <<meta, manifests, lateCreates, call, proposed, created>>
    BY <1>2 DEF LoadMeta
  <2>2. /\ pc' \in [Brokers -> {"idle", "meta", "manifest", "create", "reload", "append"}]
        /\ \A c \in Brokers \ {b} : pc'[c] = pc[c]
        /\ pc'[b] \in {"idle", "manifest", "append"}
        /\ pc'[b] = "append" => meta # 0 /\ call[b].part < meta
    <3>1. CASE meta # 0 /\ Checked(b, meta)
      <4>1. meta \in Nat
        BY <1>0 DEF TypeOK
      <4> QED BY <1>0, <3>1, <4>1, CheckedFacts
    <3>2. CASE ~(meta # 0 /\ Checked(b, meta))
      <4>1. pc' = [pc EXCEPT ![b] = "manifest"] \/ pc' = [pc EXCEPT ![b] = "idle"]
        BY <1>2, <3>2 DEF LoadMeta, Return
      <4> QED BY <1>0, <4>1 DEF TypeOK
    <3> QED BY <3>1, <3>2
  <2>3. TypeOK' /\ CallSafe(b)'
    BY <1>0, <2>1, <2>2 DEF TypeOK, CallSafe
  <2> QED BY <2>1, <2>2, <2>3, QuietStep DEF Durable, Inferred
<1>3. ASSUME NEW b \in Brokers, LoadManifest(b) PROVE CountInv' /\ Durable' = Durable
  <2>1. UNCHANGED <<meta, manifests, lateCreates, call, created>>
    BY <1>3 DEF LoadManifest
  <2>2. Proposal(b) \in Nat \ {0} /\ Compatible(Proposal(b))
    BY BrokersAssumption DEF Proposal, Inferred, DefaultPartitions, Compatible
  <2>3. CASE pc' = [pc EXCEPT ![b] = "idle"] /\ UNCHANGED proposed
    <3>1. TypeOK' /\ pc'[b] = "idle" /\ \A c \in Brokers \ {b} : pc'[c] = pc[c]
      BY <1>0, <2>1, <2>3 DEF TypeOK
    <3>2. CallSafe(b)'
      BY <3>1 DEF CallSafe
    <3> QED BY <2>1, <2>3, <3>1, <3>2, QuietStep DEF Durable, Inferred
  <2>4. CASE /\ pc' = [pc EXCEPT ![b] = "create"] /\ call[b].part < Proposal(b)
             /\ proposed' = [proposed EXCEPT ![b] = Proposal(b)]
    <3>1. /\ TypeOK' /\ pc'[b] = "create" /\ proposed'[b] = Proposal(b)
          /\ \A c \in Brokers \ {b} : pc'[c] = pc[c] /\ proposed'[c] = proposed[c]
      BY <1>0, <2>1, <2>2, <2>4 DEF TypeOK
    <3>2. CallSafe(b)'
      BY <2>1, <2>2, <2>4, <3>1 DEF CallSafe, Compatible
    <3> QED BY <2>1, <3>1, <3>2, QuietStep DEF Durable, Inferred
  <2> QED BY <1>3, <2>3, <2>4 DEF LoadManifest, Return
<1>4. ASSUME NEW b \in Brokers, Create(b) PROVE CountInv' /\ (Durable # 0 => Durable' = Durable)
  <2>1. UNCHANGED <<manifests, lateCreates, call, proposed>> /\ pc[b] = "create"
    BY <1>4 DEF Create
  <2>2. CASE meta = 0
    <3>1. meta' = proposed[b] /\ Checked(b, proposed[b]) /\ created' = [created EXCEPT ![b] = TRUE]
      BY <1>4, <2>2 DEF Create
    <3>2. Compatible(meta') /\ meta' \in Nat \ {0}
      BY <2>1, <3>1 DEF CountInv, CallSafe, Compatible
    <3>3. /\ pc' \in [Brokers -> {"idle", "meta", "manifest", "create", "reload", "append"}]
          /\ \A c \in Brokers \ {b} : pc'[c] = pc[c]
          /\ pc'[b] \in {"idle", "append"}
          /\ pc'[b] = "append" => call[b].part < meta'
      BY <1>0, <3>1, <3>2, CheckedFacts
    <3>4. created' \in [Brokers -> BOOLEAN]
      BY <1>0, <3>1 DEF TypeOK
    <3> QED BY <2>1, <2>2, <3>2, <3>3, <3>4, StoreStep
  <2>3. CASE meta # 0
    <3>1. pc' = [pc EXCEPT ![b] = "reload"] /\ UNCHANGED <<meta, created>>
      BY <1>4, <2>3 DEF Create
    <3>2. TypeOK' /\ pc'[b] = "reload" /\ \A c \in Brokers \ {b} : pc'[c] = pc[c]
      BY <1>0, <2>1, <3>1 DEF TypeOK
    <3>3. CallSafe(b)'
      BY <2>3, <3>1, <3>2 DEF CallSafe
    <3> QED BY <2>1, <3>1, <3>2, <3>3, QuietStep DEF Durable, Inferred
  <2> QED BY <2>2, <2>3
<1>5. ASSUME NEW b \in Brokers, Reload(b) PROVE CountInv' /\ Durable' = Durable
  <2>1. UNCHANGED <<meta, manifests, lateCreates, call, proposed, created>> /\ meta # 0 /\ meta \in Nat
    BY <1>0, <1>5 DEF Reload, CountInv, CallSafe, TypeOK
  <2>2. /\ pc' \in [Brokers -> {"idle", "meta", "manifest", "create", "reload", "append"}]
        /\ \A c \in Brokers \ {b} : pc'[c] = pc[c]
        /\ pc'[b] \in {"idle", "append"} /\ (pc'[b] = "append" => call[b].part < meta)
    BY <1>0, <1>5, <2>1, CheckedFacts DEF Reload
  <2>3. TypeOK' /\ CallSafe(b)'
    BY <1>0, <2>1, <2>2 DEF TypeOK, CallSafe
  <2> QED BY <2>1, <2>2, <2>3, QuietStep DEF Durable, Inferred
<1>6. ASSUME NEW b \in Brokers, Append(b) PROVE CountInv' /\ Durable' = Durable
  BY <1>6, ManifestStep DEF Append, Return
<1>7. ASSUME NEW b \in Brokers, Refuse(b) PROVE CountInv' /\ Durable' = Durable
  <2>1. UNCHANGED <<meta, manifests, lateCreates, call, proposed, created>> /\ pc' = [pc EXCEPT ![b] = "idle"]
    BY <1>7 DEF Refuse, Return
  <2>2. TypeOK' /\ pc'[b] = "idle" /\ \A c \in Brokers \ {b} : pc'[c] = pc[c]
    BY <1>0, <2>1 DEF TypeOK
  <2>3. CallSafe(b)'
    BY <2>2 DEF CallSafe
  <2> QED BY <2>1, <2>2, <2>3, QuietStep DEF Durable, Inferred
<1>8. ASSUME NEW b \in Brokers, Fail(b) PROVE CountInv' /\ Durable' = Durable
  <2>1. UNCHANGED <<meta, call, proposed, created>> /\ pc' = [pc EXCEPT ![b] = "idle"]
    BY <1>8 DEF Fail, Return
  <2>2. CASE pc[b] = "append" /\ manifests' = manifests \cup {call[b].part} /\ UNCHANGED lateCreates
    BY <2>1, <2>2, ManifestStep
  <2>3. CASE UNCHANGED manifests /\ \A n \in lateCreates' : n \in lateCreates \/ (pc[b] = "create" /\ n = proposed[b])
    <3>1. \A n \in lateCreates' : Compatible(n)
      BY <2>3 DEF CountInv, CallSafe
    <3>2. TypeOK' /\ pc'[b] = "idle" /\ \A c \in Brokers \ {b} : pc'[c] = pc[c]
      BY <1>0, <2>1, <2>3, <3>1 DEF TypeOK, Compatible
    <3>3. ASSUME NEW c \in Brokers PROVE CallSafe(c)'
      BY <2>1, <2>3, <3>2 DEF CountInv, CallSafe, Compatible
    <3> QED BY <2>1, <2>3, <3>1, <3>2, <3>3 DEF CountInv, AppendsInRange, Durable, Inferred, Compatible
  <2> QED BY <1>8, <2>2, <2>3 DEF Fail
<1>9. CASE LateCreate
  <2>1. PICK n \in lateCreates : lateCreates' = lateCreates \ {n} /\ meta' = IF meta = 0 THEN n ELSE meta
    BY <1>9 DEF LateCreate
  <2>2. UNCHANGED <<manifests, pc, call, proposed, created>> /\ Compatible(n)
    BY <1>9 DEF LateCreate, CountInv
  <2>3. CASE meta = 0
    <3>1. meta' \in Nat \ {0} /\ Compatible(meta')
      BY <2>1, <2>2, <2>3 DEF Compatible
    <3>2. /\ pc' \in [Brokers -> {"idle", "meta", "manifest", "create", "reload", "append"}]
          /\ created' \in [Brokers -> BOOLEAN]
      BY <1>0, <2>2 DEF TypeOK
    <3> QED BY <2>1, <2>2, <2>3, <3>1, <3>2, StoreStep
  <2>4. CASE meta # 0
    <3>1. UNCHANGED meta /\ TypeOK'
      BY <1>0, <2>1, <2>2, <2>4 DEF TypeOK
    <3>2. \A c \in Brokers : CallSafe(c)'
      BY <2>2, <3>1 DEF CountInv, CallSafe, Compatible
    <3> QED BY <2>1, <2>2, <3>1, <3>2 DEF CountInv, AppendsInRange, Durable, Inferred, Compatible
  <2> QED BY <2>3, <2>4
<1>10. CASE UNCHANGED vars
  <2>1. UNCHANGED <<meta, manifests, lateCreates, pc, call, proposed, created>>
    BY <1>10 DEF vars
  <2>2. TypeOK' /\ \A c \in Brokers : CallSafe(c)'
    BY <1>0, <2>1 DEF TypeOK, CountInv, CallSafe, Compatible
  <2> QED BY <2>1, <2>2 DEF CountInv, AppendsInRange, Durable, Inferred, Compatible
<1> QED BY <1>1, <1>2, <1>3, <1>4, <1>5, <1>6, <1>7, <1>8, <1>9, <1>10 DEF Next

(***************************************************************************)
(* Records only go to partitions the topic has, whatever brokers with      *)
(* whatever configured counts do concurrently.                             *)
(***************************************************************************)
THEOREM RecordsInRange == Spec => []AppendsInRange
<1>1. CountInv /\ [Next]_vars => CountInv'
  BY CountNext
<1>2. CountInv => AppendsInRange
  BY DEF CountInv
<1> QED BY CountInit, <1>1, <1>2, PTL DEF Spec

(***************************************************************************)
(* A topic's partition count, stored or inferred from a legacy manifest,   *)
(* never changes.                                                          *)
(***************************************************************************)
THEOREM CountNeverChanges == Spec => CountFixed
<1>1. CountInv /\ [Next]_vars => CountInv'
  BY CountNext
<1>2. CountInv /\ [Next]_vars => [Durable # 0 => Durable' = Durable]_vars
  BY CountNext
<1> QED BY CountInit, <1>1, <1>2, PTL DEF Spec, CountFixed

-----------------------------------------------------------------------------
(* What creators are told.                                                 *)

\* A creator that was told a count was told the one that is stored, and only
\* an append goes on after its checks.
Told(b) ==
    /\ reply[b].kind = "ensure" /\ reply[b].result = "ok" => meta # 0 /\ reply[b].count = meta
    /\ pc[b] = "append" => call[b].kind = "append"

Results == {"none", "ok", "UnsupportedPartition", "UnknownTopic", "OutOfOrderSequence", "Unavailable"}

Replies == [kind: Kinds \cup {"none"}, result: Results, count: Nat]

\* The inductive invariant behind what creators are told.
ToldInv ==
    /\ reply \in [Brokers -> Replies]
    /\ \A b \in Brokers : Told(b)

\* A step of one broker: the others were told what is still true.
LEMMA StepTold ==
    ASSUME TypeOK, ToldInv, NEW b \in Brokers, meta # 0 => meta' = meta,
           reply' \in [Brokers -> Replies],
           \A c \in Brokers \ {b} : reply'[c] = reply[c] /\ pc'[c] = pc[c] /\ call'[c] = call[c],
           Told(b)'
    PROVE  ToldInv'
<1>1. ASSUME NEW c \in Brokers PROVE Told(c)'
  BY DEF ToldInv, Told
<1> QED BY <1>1 DEF ToldInv

\* A step that gives no reply.
LEMMA SilentTold ==
    ASSUME TypeOK, ToldInv, NEW b \in Brokers, UNCHANGED reply, meta # 0 => meta' = meta,
           \A c \in Brokers \ {b} : pc'[c] = pc[c] /\ call'[c] = call[c],
           pc'[b] = "append" => call'[b].kind = "append"
    PROVE  ToldInv'
<1>1. Told(b)'
  BY DEF ToldInv, Told
<1>2. reply' \in [Brokers -> Replies]
  BY DEF ToldInv
<1> QED BY <1>1, <1>2, StepTold

\* A step that replies: the success of a creation carries the stored count.
LEMMA ReplyTold ==
    ASSUME TypeOK, ToldInv, NEW b \in Brokers, NEW result \in Results, NEW count \in Nat,
           NEW r, r = [kind |-> call[b].kind, result |-> result, count |-> count],
           reply' = [reply EXCEPT ![b] = r], pc' = [pc EXCEPT ![b] = "idle"],
           call[b].kind = "ensure" /\ result = "ok" => meta' # 0 /\ count = meta',
           meta # 0 => meta' = meta, UNCHANGED call
    PROVE  ToldInv'
<1>1. call[b].kind \in Kinds
  BY DEF TypeOK
<1>2. r \in Replies
  BY <1>1 DEF Replies
<1>3. /\ reply' \in [Brokers -> Replies] /\ reply'[b] = r /\ pc'[b] = "idle"
      /\ \A c \in Brokers \ {b} : reply'[c] = reply[c] /\ pc'[c] = pc[c]
  BY <1>2 DEF TypeOK, ToldInv
<1>4. Told(b)'
  BY <1>3 DEF Told
<1> QED BY <1>3, <1>4, StepTold

\* The end of ensure_topic with the count that is stored.
LEMMA CheckedTold ==
    ASSUME TypeOK, ToldInv, NEW b \in Brokers, NEW n \in Nat \ {0}, Checked(b, n), meta' = n,
           meta # 0 => meta' = meta, UNCHANGED call
    PROVE  ToldInv'
<1>1. CASE call[b].part >= n
  <2>1. PICK r : r = [kind |-> call[b].kind, result |-> "UnsupportedPartition", count |-> 0]
    OBVIOUS
  <2>2. reply' = [reply EXCEPT ![b] = r] /\ pc' = [pc EXCEPT ![b] = "idle"]
    BY <1>1, <2>1 DEF Checked, Return
  <2> QED BY <2>1, <2>2, ReplyTold DEF Results
<1>2. CASE ~(call[b].part >= n) /\ call[b].kind = "append"
  <2>1. pc' = [pc EXCEPT ![b] = "append"] /\ UNCHANGED reply
    BY <1>2 DEF Checked
  <2> QED BY <1>2, <2>1, SilentTold DEF TypeOK
<1>3. CASE ~(call[b].part >= n) /\ call[b].kind # "append"
  <2>1. PICK r : r = [kind |-> call[b].kind, result |-> "ok", count |-> n]
    OBVIOUS
  <2>2. reply' = [reply EXCEPT ![b] = r] /\ pc' = [pc EXCEPT ![b] = "idle"]
    BY <1>3, <2>1 DEF Checked, Return
  <2> QED BY <2>1, <2>2, ReplyTold DEF Results
<1> QED BY <1>1, <1>2, <1>3

\* Every step keeps what creators were told true.
LEMMA ToldNext ==
    ASSUME CountInv, ToldInv, [Next]_vars
    PROVE  ToldInv'
<1>0. TypeOK /\ \A b \in Brokers : CallSafe(b)
  BY DEF CountInv
<1>1. ASSUME NEW b \in Brokers, Call(b) PROVE ToldInv'
  <2>1. /\ UNCHANGED <<reply, meta>> /\ pc'[b] = "meta"
        /\ \A c \in Brokers \ {b} : pc'[c] = pc[c] /\ call'[c] = call[c]
    BY <1>0, <1>1 DEF Call, TypeOK
  <2> QED BY <1>0, <2>1, SilentTold
<1>2. ASSUME NEW b \in Brokers, LoadMeta(b) PROVE ToldInv'
  <2>1. UNCHANGED <<meta, call>> /\ meta \in Nat
    BY <1>0, <1>2 DEF LoadMeta, TypeOK
  <2>2. CASE pc' = [pc EXCEPT ![b] = "manifest"] /\ UNCHANGED reply
    BY <1>0, <2>1, <2>2, SilentTold DEF TypeOK
  <2>3. CASE call[b].kind = "query" /\ Return(b, "ok", meta)
    <3>0. PICK n \in Nat : n = meta
      BY <2>1
    <3>1. PICK r : r = [kind |-> call[b].kind, result |-> "ok", count |-> n]
      OBVIOUS
    <3>2. reply' = [reply EXCEPT ![b] = r] /\ pc' = [pc EXCEPT ![b] = "idle"]
      BY <2>3, <3>0, <3>1 DEF Return
    <3> QED BY <1>0, <2>1, <2>3, <3>0, <3>1, <3>2, ReplyTold DEF Results
  <2>4. CASE meta # 0 /\ Checked(b, meta)
    BY <1>0, <2>1, <2>4, CheckedTold
  <2> QED BY <1>2, <2>2, <2>3, <2>4 DEF LoadMeta
<1>3. ASSUME NEW b \in Brokers, LoadManifest(b) PROVE ToldInv'
  <2>1. UNCHANGED <<meta, call>>
    BY <1>3 DEF LoadManifest
  <2>2. CASE call[b].kind = "query"
    <3>1. PICK n \in Nat, result \in Results :
              n = Inferred /\ result = IF n = 0 THEN "UnknownTopic" ELSE "ok"
      BY DEF Inferred, DefaultPartitions, Results
    <3>2. PICK r : r = [kind |-> call[b].kind, result |-> result, count |-> n]
      OBVIOUS
    <3>3. reply' = [reply EXCEPT ![b] = r] /\ pc' = [pc EXCEPT ![b] = "idle"]
      BY <1>3, <2>2, <3>1, <3>2 DEF LoadManifest, Return
    <3> QED BY <1>0, <2>1, <2>2, <3>2, <3>3, ReplyTold
  <2>3. CASE Return(b, "UnsupportedPartition", 0)
    <3>1. PICK r : r = [kind |-> call[b].kind, result |-> "UnsupportedPartition", count |-> 0]
      OBVIOUS
    <3>2. reply' = [reply EXCEPT ![b] = r] /\ pc' = [pc EXCEPT ![b] = "idle"]
      BY <2>3, <3>1 DEF Return
    <3> QED BY <1>0, <2>1, <3>1, <3>2, ReplyTold DEF Results
  <2>4. CASE pc' = [pc EXCEPT ![b] = "create"] /\ UNCHANGED reply
    BY <1>0, <2>1, <2>4, SilentTold DEF TypeOK
  <2> QED BY <1>3, <2>2, <2>3, <2>4 DEF LoadManifest
<1>4. ASSUME NEW b \in Brokers, Create(b) PROVE ToldInv'
  <2>1. UNCHANGED call /\ pc[b] = "create"
    BY <1>4 DEF Create
  <2>2. CASE meta = 0 /\ meta' = proposed[b] /\ Checked(b, proposed[b])
    <3>1. proposed[b] \in Nat \ {0}
      BY <1>0, <2>1 DEF CallSafe, Compatible
    <3> QED BY <1>0, <2>1, <2>2, <3>1, CheckedTold
  <2>3. CASE pc' = [pc EXCEPT ![b] = "reload"] /\ UNCHANGED <<meta, reply>>
    BY <1>0, <2>1, <2>3, SilentTold DEF TypeOK
  <2> QED BY <1>4, <2>2, <2>3 DEF Create
<1>5. ASSUME NEW b \in Brokers, Reload(b) PROVE ToldInv'
  <2>1. UNCHANGED <<meta, call>> /\ meta \in Nat \ {0} /\ Checked(b, meta)
    BY <1>0, <1>5 DEF Reload, CallSafe, TypeOK
  <2> QED BY <1>0, <2>1, CheckedTold
<1>6. ASSUME NEW b \in Brokers, Append(b) \/ Refuse(b) PROVE ToldInv'
  <2>1. call[b].kind = "append" /\ UNCHANGED <<meta, call>>
    BY <1>6 DEF Append, Refuse, ToldInv, Told
  <2>2. PICK result \in Results :
            reply' = [reply EXCEPT ![b] = [kind |-> call[b].kind, result |-> result, count |-> 0]]
    BY <1>6 DEF Append, Refuse, Return, Results
  <2>3. PICK r : r = [kind |-> call[b].kind, result |-> result, count |-> 0]
    OBVIOUS
  <2>4. pc' = [pc EXCEPT ![b] = "idle"] /\ reply' = [reply EXCEPT ![b] = r]
    BY <1>6, <2>2, <2>3 DEF Append, Refuse, Return
  <2> QED BY <1>0, <2>1, <2>3, <2>4, ReplyTold
<1>7. ASSUME NEW b \in Brokers, Fail(b) PROVE ToldInv'
  <2>1. PICK r : r = [kind |-> call[b].kind, result |-> "Unavailable", count |-> 0]
    OBVIOUS
  <2>2. /\ reply' = [reply EXCEPT ![b] = r] /\ pc' = [pc EXCEPT ![b] = "idle"]
        /\ UNCHANGED <<meta, call>>
    BY <1>7, <2>1 DEF Fail, Return
  <2> QED BY <1>0, <2>1, <2>2, ReplyTold DEF Results
<1>8. CASE LateCreate \/ UNCHANGED vars
  <2>1. UNCHANGED <<pc, call, reply>> /\ (meta # 0 => meta' = meta)
    BY <1>8 DEF LateCreate, vars
  <2> QED BY <2>1 DEF ToldInv, Told
<1> QED BY <1>1, <1>2, <1>3, <1>4, <1>5, <1>6, <1>7, <1>8 DEF Next

(***************************************************************************)
(* A broker that creates a topic tells its client the count that is        *)
(* stored, for as long as the client may use it, whoever stored it and     *)
(* however many brokers with other configured counts were racing.          *)
(***************************************************************************)
THEOREM CreatorsAgree == Spec => []CreatorsConverge
<1>1. Init => ToldInv
  BY DEF Init, ToldInv, Told, NoReply, Replies, Results, Kinds
<1>2. CountInv /\ [Next]_vars => CountInv'
  BY CountNext
<1>3. CountInv /\ ToldInv /\ [Next]_vars => ToldInv'
  BY ToldNext
<1>4. ToldInv => CreatorsConverge
  BY DEF ToldInv, Told, CreatorsConverge
<1> QED BY CountInit, <1>1, <1>2, <1>3, <1>4, PTL DEF Spec
============================================================================
