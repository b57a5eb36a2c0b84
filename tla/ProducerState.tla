--------------------------- MODULE ProducerState ---------------------------
(***************************************************************************)
(* The idempotence decision of src/log/producer.rs: what one partition     *)
(* remembers about one producer ID, and how it judges the next batch.      *)
(*                                                                         *)
(* A state holds the current epoch and the identities of the latest        *)
(* RetryBatches accepted batches.  The module is a library of constant     *)
(* operators; PartitionLog applies them to private copies of the states    *)
(* loaded with a root, exactly as ProducerState::accept is applied.        *)
(***************************************************************************)
EXTENDS Integers, Sequences

CONSTANTS
    RetryBatches,   \* identities remembered per producer (5 in the code)
    SeqModulus      \* sequence numbers wrap here (2^31 in the code)

ASSUME RetryAssumption == RetryBatches \in Nat \ {0}
ASSUME ModulusAssumption == SeqModulus \in Nat \ {0}

(***************************************************************************)
(* A batch as the broker receives it.  fp stands for the SHA-256 of the    *)
(* canonical records with normalised offsets, count for their number.      *)
(***************************************************************************)
Batches(P, F) ==
    [pid: P, epoch: Nat, seq: 0 .. SeqModulus - 1, count: Nat \ {0}, fp: F]

Identities(F) ==
    [seq: 0 .. SeqModulus - 1, count: Nat \ {0}, fp: F, base: Nat]

States(F) == [epoch: Nat, batches: Seq(Identities(F))]

NewState(epoch) == [epoch |-> epoch, batches |-> <<>>]

----------------------------------------------------------------------------

\* Mutant: the sequence keeps growing past the 32-bit boundary.
AdvanceNoWrap(seq, count) == seq + count

Advance(seq, count) == (seq + count) % SeqModulus

\* A higher epoch clears the retry window before the batch is judged.
AtEpoch(st, b) == IF b.epoch > st.epoch THEN NewState(b.epoch) ELSE st

Remembered(st, b) == {i \in DOMAIN st.batches : st.batches[i].seq = b.seq}

\* The batch iter().find() returns: the oldest remembered one with this sequence.
Original(st, b) ==
    st.batches[CHOOSE i \in Remembered(st, b) :
                   \A j \in Remembered(st, b) : i <= j]

Expected(st) ==
    IF st.batches = <<>> THEN 0
    ELSE LET l == st.batches[Len(st.batches)] IN Advance(l.seq, l.count)

Matches(id, b) == id.count = b.count /\ id.fp = b.fp

\* Mutant: a remembered sequence is answered without comparing the content.
VerdictTrusting(st, b) ==
    LET now == AtEpoch(st, b) IN
    IF b.epoch < st.epoch THEN "InvalidProducerEpoch"
    ELSE IF Remembered(now, b) # {} THEN "duplicate"
    ELSE IF b.seq = Expected(now) THEN "new" ELSE "OutOfOrderSequence"

(***************************************************************************)
(* The outcome of accept: an error, the recognised duplicate of a          *)
(* remembered batch, or a new batch.  A higher epoch must start at         *)
(* sequence zero: its window is empty, so zero is what it expects.         *)
(***************************************************************************)
Verdict(st, b) ==
    LET now == AtEpoch(st, b) IN
    IF b.epoch < st.epoch THEN "InvalidProducerEpoch"
    ELSE IF Remembered(now, b) # {}
    THEN IF Matches(Original(now, b), b) THEN "duplicate" ELSE "ConflictingSequence"
    ELSE IF b.seq = Expected(now) THEN "new" ELSE "OutOfOrderSequence"

Identity(b, next) ==
    [seq |-> b.seq, count |-> b.count, fp |-> b.fp, base |-> next]

\* Mutant: the identity remembers the offset before the batch.
RememberOffByOne(st, b, next) ==
    [epoch |-> b.epoch,
     batches |-> Append(AtEpoch(st, b).batches, Identity(b, next - 1))]

\* The state after a new batch: push the identity, forget the oldest one.
Remember(st, b, next) ==
    LET window == Append(AtEpoch(st, b).batches, Identity(b, next)) IN
    [epoch |-> b.epoch,
     batches |-> IF Len(window) > RetryBatches THEN Tail(window) ELSE window]

(***************************************************************************)
(* ProducerState::validate: what a page reader demands of a stored state.  *)
(***************************************************************************)
ValidState(st, next) ==
    /\ Len(st.batches) \in 1 .. RetryBatches
    /\ \A i \in DOMAIN st.batches :
           /\ st.batches[i].base + st.batches[i].count <= next
           /\ i > 1 =>
                LET p == st.batches[i - 1] IN
                /\ Advance(p.seq, p.count) = st.batches[i].seq
                /\ p.base + p.count <= st.batches[i].base
============================================================================
