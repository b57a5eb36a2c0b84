------------------------ MODULE MCGroupCoordinator ------------------------
(* Small groups for TLC. *)
EXTENDS GroupCoordinator, TLC

OneOffer == {<<"range">>}
EitherOffer == {<<"range">>, <<"sticky">>}

Short == {[session |-> 1, rebalance |-> 1]}
Even == {[session |-> 2, rebalance |-> 2]}
LongSession == {[session |-> 3, rebalance |-> 1]}

AllOperations == {"join", "sync", "heartbeat", "leave", "commit"}
Assigning == {"join", "sync"}
Rebalancing == {"join", "sync", "leave"}
Joining == {"join", "leave", "heartbeat"}
Committing == {"join", "sync", "commit"}

(* History that no action reads, left out of the states a run tells apart  *)
(* when its properties do not read it either.                              *)
WithoutBegan ==
    <<clock, table, group, used, births, pc, slot, call, woken, stored, late, outcomes, calls,
      failures>>
WithoutHistory ==
    <<clock, table, group, used, births, pc, slot, call, woken, stored, late, calls, failures>>

ClientSymmetry == Permutations(Clients)
Symmetry == Permutations(Clients) \cup Permutations(Values)
============================================================================
