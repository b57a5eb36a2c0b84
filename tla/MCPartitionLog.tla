-------------------------- MODULE MCPartitionLog ---------------------------
(***************************************************************************)
(* Small instances of PartitionLog for TLC.                                *)
(***************************************************************************)
EXTENDS PartitionLog, TLC

B(pid, epoch, seq, count, fp) ==
    [pid |-> pid, epoch |-> epoch, seq |-> seq, count |-> count, fp |-> fp]

(***************************************************************************)
(* Requests of one and of several batches: a duplicate prefix, a second    *)
(* producer beside a plain batch, a conflicting retry and a new epoch that *)
(* makes retries stale.  With sequence numbers modulo 4 and a window of 2, *)
(* the second request wraps to sequence 0 and pushes the first batch out   *)
(* of the window, so that the first request is new again.                  *)
(***************************************************************************)
MixedRequests ==
    { <<B(1, 0, 0, 1, "x"), B(1, 0, 1, 1, "x")>>,
      <<B(1, 0, 1, 1, "x"), B(1, 0, 2, 2, "x")>>,
      <<B(1, 0, 0, 1, "y")>>, <<B(1, 1, 0, 1, "x")>>,
      <<B(2, 0, 0, 1, "x"), B(0, 0, 0, 1, "x")>> }

GcRequests == {<<B(1, 0, 0, 1, "x")>>}

LegacySegment(n) ==
    [obj |-> [kind |-> "seg", by |-> "legacy", n |-> n], base |-> n,
     batch |-> B(0, 0, 0, 1, "x")]

LegacyRoot(n) ==
    [EmptyRoot EXCEPT !.rev = n, !.next = n, !.legacy = n > 0, !.tail = n,
                      !.segs = [i \in 1 .. n |-> LegacySegment(i - 1)]]

\* Calls of an append, a maintenance and a fetch process.
Calls(a, m, f) ==
    [x \in Actors |-> IF x \in Appenders THEN a ELSE IF x \in Maintainers THEN m ELSE f]

Calls111 == Calls(1, 1, 1)
CallsUneven == [x \in Actors |-> IF x = "a1" THEN 2 ELSE 1]
Calls211 == Calls(2, 1, 1)

MissingRoot == {EmptyRoot}
LegacyRoots == {LegacyRoot(2)}

Symmetry == Permutations(Maintainers)
============================================================================
