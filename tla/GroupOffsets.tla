--------------------------- MODULE GroupOffsets ----------------------------
(***************************************************************************)
(* The committed offsets of one consumer group: one manifest object, what  *)
(* a commit makes of it, and what a reader accepts.  A key is a topic name *)
(* and a partition number.  Errors are named by their Kafka response code; *)
(* "none" is success.                                                      *)
(***************************************************************************)
EXTENDS Integers, Sequences, FiniteSets, FiniteSetsExt

CONSTANTS
    Topics,             \* the names that are well formed
    MaxTopicPartitions,
    MaxGroupOffsets,    \* entries of one commit, and of the manifest
    Missing             \* an object that does not exist

Keys == Topics \X (0 .. MaxTopicPartitions - 1)

\* A key as a request names it, and an entry of a commit.
Names == STRING \X Int
CommitEntries == [key : Names, offset : Int]

\* The manifests that are ever stored.
Manifests == [revision : Nat, offsets : UNION {[ks -> Nat] : ks \in SUBSET Keys}]

ASSUME GroupOffsetsAssumption ==
    /\ IsFiniteSet(Topics) /\ Topics \subseteq STRING
    /\ MaxTopicPartitions \in Nat \ {0}
    /\ MaxGroupOffsets \in Nat \ {0}
    /\ Missing \notin Manifests

EmptyManifest == [revision |-> 0, offsets |-> [k \in {} |-> 0]]

Loaded(manifest) == IF manifest = Missing THEN EmptyManifest ELSE manifest

Committed(manifest, k) ==
    LET offsets == Loaded(manifest).offsets IN
    IF k \in DOMAIN offsets THEN offsets[k] ELSE -1

\* What is wrong with one entry of a commit, given the entries before it.
EntryFault(commits, i) ==
    IF commits[i].key \notin Keys THEN "UnknownTopicOrPartition"
    ELSE IF commits[i].offset < 0 THEN "InvalidCommitOffsetSize"
    ELSE IF \E j \in 1 .. i - 1 : commits[j].key = commits[i].key THEN "InvalidRequest"
    ELSE "none"

\* The first fault decides, and refuses the whole commit.
CommitFault(commits) ==
    LET faulty == {i \in DOMAIN commits : EntryFault(commits, i) # "none"} IN
    IF Len(commits) > MaxGroupOffsets THEN "InvalidRequest"
    ELSE IF faulty = {} THEN "none" ELSE EntryFault(commits, Min(faulty))

\* The offsets after a commit: its entries replace those of the same key.
Overlaid(offsets, commits) ==
    LET named == {commits[i].key : i \in DOMAIN commits} IN
    [k \in DOMAIN offsets \cup named |->
        IF k \in named
        THEN commits[CHOOSE i \in DOMAIN commits : commits[i].key = k].offset
        ELSE offsets[k]]

Revised(manifest, commits) ==
    [revision |-> Loaded(manifest).revision + 1,
     offsets |-> Overlaid(Loaded(manifest).offsets, commits)]

\* Mutant: only the size of the commit is limited, not of what it adds to.
UnderLimitAlone(manifest, commits) == Len(commits) <= MaxGroupOffsets

UnderLimit(manifest, commits) ==
    Cardinality(DOMAIN Revised(manifest, commits).offsets) <= MaxGroupOffsets

\* What every reader of the manifest demands; a group whose manifest fails
\* this can neither commit nor fetch again.
Readable(manifest) ==
    \/ manifest = Missing
    \/ LET offsets == manifest.offsets IN
       /\ Cardinality(DOMAIN offsets) <= MaxGroupOffsets
       /\ DOMAIN offsets \subseteq Keys
       /\ \A k \in DOMAIN offsets : offsets[k] >= 0
=============================================================================
