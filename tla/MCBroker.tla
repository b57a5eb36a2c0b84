------------------------------ MODULE MCBroker ------------------------------
(***************************************************************************)
(* Small worlds for TLC.  Each has few clients, so that the worlds add up  *)
(* instead of multiplying: producer IDs; a consumer beside a producer; two *)
(* consumers of one group; one whose log is trimmed; commits of a topic    *)
(* that appears meanwhile.                                                 *)
(***************************************************************************)
EXTENDS Broker

CONSTANTS k1, k2, x1, x2, x3, b1, b2

OnBrokers == x1 :> b1 @@ x2 :> b1 @@ x3 :> b2
MayDial == k1 :> {x1, x3} @@ k2 :> {x2}
Starts == k1 :> x1 @@ k2 :> x2

Empty == [start |-> 0, batches |-> <<>>]
Log(sizes) ==
    [start |-> 0, batches |-> [i \in DOMAIN sizes |->
        [base |-> 2 * (i - 1), count |-> 2, bytes |-> sizes[i]]]]

World(counts, contents, first, second, keys1, keys2, commits, trims0) ==
    [topics |-> counts,
     logs |-> [k \in Keys |-> IF k \in DOMAIN contents THEN contents[k] ELSE Empty],
     scripts |-> k1 :> first @@ k2 :> second,
     subscribed |-> k1 :> keys1 @@ k2 :> keys2,
     commits |-> k1 :> commits[1] @@ k2 :> commits[2],
     trims |-> trims0]

InitId(id, epoch) ==
    [api |-> "InitProducerId", version |-> 4, transactional |-> FALSE, id |-> id, epoch |-> epoch,
     items |-> <<>>]
Other(api, version) == [api |-> api, version |-> version, items |-> <<>>]
Batch(pid, bytes) == [pid |-> pid, count |-> 1, bytes |-> bytes]
Produce(acks, items) ==
    [api |-> "Produce", version |-> 7, acks |-> acks, transactional |-> FALSE, items |-> items]
Into(key, batches) == [key |-> key, batches |-> batches]
Metadata(all, items, create) ==
    [api |-> "Metadata", version |-> 4, all |-> all, items |-> items, create |-> create]
Commit(retention, items) ==
    [api |-> "OffsetCommit", version |-> 2, retention |-> retention, items |-> items]
To(key) == [key |-> key, offset |-> 0]
List(follower, items) ==
    [api |-> "ListOffsets", version |-> 3, follower |-> follower, items |-> items]
Fetch(follower, max, items) ==
    [api |-> "Fetch", version |-> 4, follower |-> follower, max |-> max, items |-> items]

From(key, from, max) == [key |-> key, from |-> from, max |-> max]
At0(key, timestamp) == [key |-> key, timestamp |-> timestamp]

T0 == <<"T", 0>>
T1 == <<"T", 1>>
U0 == <<"U", 0>>
U1 == <<"U", 1>>
OnlyT == [T |-> 2, U |-> 0]
Both == [T |-> 2, U |-> 2]

Ids == World(OnlyT, T0 :> Log(<<3, 1>>),
    <<InitId(-1, -1), Other("ApiVersions", 4), InitId(5, 0)>>,
    <<InitId(-1, -1), InitId(-1, 0), Other("Heartbeat", 9), InitId(-1, -1)>>,
    <<>>, <<>>, <<0, 0>>, 0)

\* Requests that are refused, in part or entirely.
Refused == World(OnlyT, T0 :> Log(<<3, 1>>),
    <<Produce(0, <<Into(U0, <<Batch(NoProducer, 1)>>), Into(T0, <<Batch(7, 1)>>)>>),
      Produce(2, <<Into(T0, <<Batch(7, 1)>>)>>), Commit(0, <<To(T0)>>),
      Fetch(FALSE, 8, <<From(U1, 0, 4), From(T0, 5, 4), From(T0, 1, 4), From(T0, 0, 0)>>)>>,
    <<Produce(-1, <<Into(T0, <<Batch(7, 1), Batch(8, 2)>>), Into(U1, <<Batch(8, 1)>>)>>),
      List(FALSE, <<At0(T0, -1), At0(U1, -1), At0(T0, 3)>>), List(TRUE, <<At0(T0, -1)>>)>>,
    <<>>, <<>>, <<0, 0>>, 0)

\* Batches larger than the consumer's limits lie before and behind smaller ones.
Consume == World(OnlyT, T0 :> Log(<<1, 9>>) @@ T1 :> Log(<<9>>),
    <<>>, <<Produce(1, <<Into(T1, <<Batch(NoProducer, 1), Batch(NoProducer, 1)>>)>>)>>,
    <<T0, T1>>, <<>>, <<0, 0>>, 1)

Share == World(OnlyT, T0 :> Log(<<1, 1>>), <<>>, <<>>, <<T0>>, <<T0>>, <<1, 1>>, 0)

\* One consumer, whose offsets may lie before the records that are left.
Retained == World(OnlyT, T0 :> Log(<<1, 9>>), <<>>, <<>>, <<T0>>, <<>>, <<1, 0>>, 1)

\* The topic U appears while commits of its partitions are checked.
Topical == World(OnlyT, T0 :> Log(<<1>>),
    <<Commit(-1, <<To(T0), To(U0), To(U0)>>), Commit(-1, <<To(T1)>>)>>,
    <<Metadata(TRUE, <<>>, FALSE), Metadata(FALSE, <<"U", "?">>, TRUE), Commit(-1, <<To(U0)>>)>>,
    <<>>, <<>>, <<0, 0>>, 0)

Worlds == {Ids, Refused, Consume, Share, Retained, Topical}
=============================================================================
