---------------------------- MODULE MCLogPages -----------------------------
(***************************************************************************)
(* Small instances of LogPages for TLC.                                    *)
(***************************************************************************)
EXTENDS LogPages

(***************************************************************************)
(* Thirteen batches of eleven producers.  The producers come in the order  *)
(* of a multiplication modulo 11, one order per multiplier: ascending,     *)
(* descending and shuffled; the twelfth and thirteenth batch are second    *)
(* ones.  Every third batch has two records, sizes are 1 to 3, and clocks  *)
(* run apart by up to two.                                                 *)
(***************************************************************************)
Workload(a, b) ==
    [i \in 1 .. 13 |->
        [pid |-> (a * i + b) % 11, count |-> IF i % 3 = 0 THEN 2 ELSE 1,
         bytes |-> ((i * i) % 3) + 1, at |-> ((i \div 4) * a) % 3]]

ManyWorkloads == {Workload(a, 0) : a \in {1, 4, 7, 10}}

InheritedRoots == {<<1, 7>>, <<2, 5>>}
============================================================================
