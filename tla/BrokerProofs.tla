---------------------------- MODULE BrokerProofs ----------------------------
(***************************************************************************)
(* What the handlers of Broker keep true, for any number of connections,   *)
(* brokers and clients, any requests and any failures.                     *)
(*                                                                         *)
(* BrokerInv is inductive on its own: types, how far every handler is, and *)
(* what a handler that is going to write has checked of what it read.  The *)
(* other invariants are inductive relative to it: the manifest and its     *)
(* history (OffsetsInv), what commits are told (CommitsInv), producer IDs  *)
(* (IdsInv), what fetches send (FetchInv) and what the consumers of the    *)
(* group were given (DeliveryInv).  Each step of a handler has a lemma of  *)
(* its own for each of them that it can disturb.                           *)
(*                                                                         *)
(* The sums and choices of RequestHandlers are functions that call         *)
(* themselves; what is known of them for every length is proved from the   *)
(* least place where it could fail (lemma Smallest).                       *)
(***************************************************************************)
EXTENDS Broker, FiniteSetTheorems, SequenceTheorems, TLAPS

\* --------------------------------------------------------- sums and choices
\* An element of a sequence over S is in S.
LEMMA ElementType ==
    ASSUME NEW S, NEW s \in Seq(S), NEW i \in 1 .. Len(s)
    PROVE  s[i] \in S
  OBVIOUS

\* Every nonempty set of naturals has a least element.
LEMMA Smallest ==
    ASSUME NEW T \in SUBSET Nat, T # {}
    PROVE  \E i \in T : \A j \in T : i <= j
<1>1. IsWellFoundedOn(OpToRel(<, Nat), Nat)
  BY NatLessThanWellFounded
<1>2. \E i \in T : \A j \in T : ~(<<j, i>> \in OpToRel(<, Nat))
  BY <1>1, WFMin
<1>3. ASSUME NEW i \in Nat, NEW j \in Nat, j < i
      PROVE  <<j, i>> \in OpToRel(<, Nat)
  BY <1>3, Zenon DEF OpToRel
<1>4. PICK i \in T : \A j \in T : ~(<<j, i>> \in OpToRel(<, Nat))
  BY <1>2
<1>5. \A j \in T : ~(j < i)
  BY <1>3, <1>4, Zenon
<1> QED BY <1>5

\* The partial sums of n numbers exist, as Total defines them.
LEMMA SumsExist ==
    ASSUME NEW n \in Nat, NEW s \in [1 .. n -> Nat]
    PROVE  \E f \in [0 .. n -> Nat] :
               f = [i \in 0 .. n |-> IF i = 0 THEN 0 ELSE f[i - 1] + s[i]]
<1> DEFINE Has(k) == \E f \in [0 .. k -> Nat] :
                        f = [i \in 0 .. k |-> IF i = 0 THEN 0 ELSE f[i - 1] + s[i]]
           Bad == {k \in 0 .. n : ~Has(k)}
<1>1. CASE Bad = {}
  <2>1. n \in 0 .. n
    OBVIOUS
  <2>2. Has(n)
    BY <1>1, <2>1
  <2> QED BY <2>2
<1>2. CASE Bad # {}
  <2>1. Bad \in SUBSET Nat
    OBVIOUS
  <2>2. PICK k \in Bad : \A m \in Bad : k <= m
    BY <1>2, <2>1, Smallest
  <2>3. CASE k = 0
    <3>1. [i \in 0 .. 0 |-> 0] \in [0 .. 0 -> Nat]
      OBVIOUS
    <3>2. [i \in 0 .. 0 |-> 0]
          = [i \in 0 .. 0 |-> IF i = 0 THEN 0 ELSE [j \in 0 .. 0 |-> 0][i - 1] + s[i]]
      OBVIOUS
    <3>3. Has(0)
      BY <3>1, <3>2
    <3> QED BY <2>2, <2>3, <3>3
  <2>4. CASE k # 0
    <3>1. k - 1 \in 0 .. n /\ k \in 1 .. n /\ ~(k <= k - 1)
      BY <2>4
    <3>2. k - 1 \notin Bad
      BY <2>2, <3>1
    <3>3. Has(k - 1)
      BY <3>1, <3>2
    <3>4. PICK f \in [0 .. k - 1 -> Nat] :
              f = [i \in 0 .. k - 1 |-> IF i = 0 THEN 0 ELSE f[i - 1] + s[i]]
      BY <3>3
    <3> DEFINE g == [i \in 0 .. k |-> IF i = k THEN f[k - 1] + s[k] ELSE f[i]]
    <3>5. g \in [0 .. k -> Nat]
      BY <3>1
    <3>6. ASSUME NEW i \in 0 .. k PROVE g[i] = IF i = 0 THEN 0 ELSE g[i - 1] + s[i]
      BY <3>1, <3>4, <2>4
    <3>7. g = [i \in 0 .. k |-> IF i = 0 THEN 0 ELSE g[i - 1] + s[i]]
      BY <3>6
    <3> HIDE DEF g
    <3>8. Has(k)
      BY <3>5, <3>7
    <3> QED BY <3>8, <2>2
  <2> QED BY <2>3, <2>4
<1> QED BY <1>1, <1>2

\* Two functions that add the same numbers agree.
LEMMA SumsAgree ==
    ASSUME NEW n \in Nat, NEW m \in 0 .. n, NEW s \in [1 .. n -> Nat],
           NEW f \in [0 .. n -> Nat], f[0] = 0, \A i \in 1 .. n : f[i] = f[i - 1] + s[i],
           NEW g, g[0] = 0, \A i \in 1 .. m : g[i] = g[i - 1] + s[i]
    PROVE  g[m] = f[m]
<1> DEFINE Bad == {k \in 0 .. m : g[k] # f[k]}
<1>1. CASE Bad = {}
  <2>1. m \in 0 .. m
    OBVIOUS
  <2> QED BY <1>1, <2>1
<1>2. CASE Bad # {}
  <2>1. Bad \in SUBSET Nat
    OBVIOUS
  <2>2. PICK k \in Bad : \A j \in Bad : k <= j
    BY <1>2, <2>1, Smallest
  <2>3. k # 0
    BY <2>2
  <2>4. k - 1 \in 0 .. m /\ k \in 1 .. m /\ k \in 1 .. n /\ ~(k <= k - 1)
    BY <2>3
  <2>5. k - 1 \notin Bad
    BY <2>2, <2>4
  <2>6. g[k - 1] = f[k - 1]
    BY <2>4, <2>5
  <2>7. g[k] = f[k]
    BY <2>4, <2>6
  <2> QED BY <2>2, <2>7
<1> QED BY <1>1, <1>2

\* What Total computes, by the sums of all beginnings of the numbers.
LEMMA Sums ==
    ASSUME NEW n \in Nat, NEW s \in [1 .. n -> Nat]
    PROVE  \E f \in [0 .. n -> Nat] :
               /\ f[0] = 0 /\ \A i \in 1 .. n : f[i] = f[i - 1] + s[i]
               /\ \A m \in 0 .. n : Total([i \in 1 .. m |-> s[i]]) = f[m]
<1>1. PICK f \in [0 .. n -> Nat] :
          f = [i \in 0 .. n |-> IF i = 0 THEN 0 ELSE f[i - 1] + s[i]]
  BY SumsExist
<1>2. f[0] = 0 /\ \A i \in 1 .. n : f[i] = f[i - 1] + s[i]
  BY <1>1
<1>3. ASSUME NEW m \in 0 .. n PROVE Total([i \in 1 .. m |-> s[i]]) = f[m]
  <2>1. PICK t : t = [i \in 1 .. m |-> s[i]]
    OBVIOUS
  <2>2. t \in [1 .. m -> Nat] /\ \A i \in 1 .. m : t[i] = s[i]
    BY <2>1
  <2>3. t \in Seq(Nat) /\ Len(t) = m
    BY <2>2
  <2> DEFINE sum == CHOOSE sum : sum = [i \in 0 .. Len(t) |-> IF i = 0 THEN 0 ELSE sum[i - 1] + t[i]]
  <2>4. \E g : g = [i \in 0 .. m |-> IF i = 0 THEN 0 ELSE g[i - 1] + t[i]]
    <3>1. m \in Nat
      OBVIOUS
    <3>2. PICK g \in [0 .. m -> Nat] : g = [i \in 0 .. m |-> IF i = 0 THEN 0 ELSE g[i - 1] + t[i]]
      BY <2>2, <3>1, SumsExist
    <3> QED BY <3>2
  <2>5. sum = [i \in 0 .. m |-> IF i = 0 THEN 0 ELSE sum[i - 1] + t[i]]
    BY <2>3, <2>4, Zenon
  <2>6. Total(t) = sum[m]
    BY <2>3, Zenon DEF Total
  <2> HIDE DEF sum
  <2>7. sum[0] = 0 /\ \A i \in 1 .. m : sum[i] = sum[i - 1] + s[i]
    <3>1. PICK g : g = sum /\ g = [i \in 0 .. m |-> IF i = 0 THEN 0 ELSE g[i - 1] + t[i]]
      BY <2>5, Zenon
    <3>2. \A i \in 0 .. m : g[i] = IF i = 0 THEN 0 ELSE g[i - 1] + t[i]
      BY <3>1, Zenon
    <3>3. g[0] = 0
      BY <3>2
    <3>4. ASSUME NEW i \in 1 .. m PROVE g[i] = g[i - 1] + s[i]
      <4>1. i \in 0 .. m /\ i # 0
        OBVIOUS
      <4> QED BY <2>2, <3>2, <4>1, Zenon
    <3> QED BY <3>1, <3>3, <3>4
  <2>8. sum[m] = f[m]
    BY <1>2, <2>7, SumsAgree
  <2> QED BY <2>1, <2>6, <2>8
<1> QED BY <1>2, <1>3

\* Total of naturals is a natural.
LEMMA TotalType ==
    ASSUME NEW n \in Nat, NEW s \in [1 .. n -> Nat]
    PROVE  Total(s) \in Nat
<1>1. PICK f \in [0 .. n -> Nat] : \A m \in 0 .. n : Total([i \in 1 .. m |-> s[i]]) = f[m]
  BY Sums
<1>2. n \in 0 .. n /\ [i \in 1 .. n |-> s[i]] = s
  OBVIOUS
<1>3. Total(s) = f[n]
  BY <1>1, <1>2
<1> QED BY <1>2, <1>3

\* A nonempty bounded set has its maximum.
LEMMA Largest ==
    ASSUME NEW n \in Nat, NEW T \in SUBSET (0 .. n), T # {}
    PROVE  Max(T) \in T /\ \A i \in T : i <= Max(T)
<1> DEFINE U == {k \in Nat : \E i \in T : k + i = n}
<1>1. U \in SUBSET Nat /\ U # {}
  <2>1. PICK i \in T : TRUE
    OBVIOUS
  <2>2. n - i \in Nat /\ (n - i) + i = n
    OBVIOUS
  <2> QED BY <2>1, <2>2
<1>2. PICK k \in U : \A l \in U : k <= l
  BY <1>1, Smallest
<1>3. PICK i \in T : k + i = n
  BY <1>2
<1>4. ASSUME NEW j \in T PROVE i >= j
  <2>1. n - j \in Nat /\ (n - j) + j = n /\ j \in Nat /\ i \in Nat /\ k \in Nat
    BY <1>2
  <2>2. n - j \in U
    BY <2>1
  <2>3. k <= n - j
    BY <1>2, <2>2
  <2> QED BY <1>3, <2>1, <2>3
<1>5. \E x \in T : \A y \in T : x >= y
  BY <1>3, <1>4
<1>6. PICK m : m = Max(T)
  OBVIOUS
<1>7. m \in T /\ \A y \in T : m >= y
  BY <1>5, <1>6, Zenon DEF Max
<1>8. \A y \in T : y <= m
  BY <1>7
<1> QED BY <1>6, <1>7, <1>8

\* One place of the sequences that Those builds.
Taken(s, places, f, i) ==
    IF i = 0 THEN <<>> ELSE IF i \in places THEN Append(f[i - 1], s[i]) ELSE f[i - 1]

\* The sequences that Those builds exist, place by place.
LEMMA TakenExists ==
    ASSUME NEW n \in Nat, NEW s, NEW places
    PROVE  \E f : f = [i \in 0 .. n |-> Taken(s, places, f, i)]
<1> DEFINE Has(k) == \E f : f = [i \in 0 .. k |-> Taken(s, places, f, i)]
           Bad == {k \in 0 .. n : ~Has(k)}
<1>1. CASE Bad = {}
  <2>1. n \in 0 .. n
    OBVIOUS
  <2>2. Has(n)
    BY <1>1, <2>1
  <2> QED BY <2>2
<1>2. CASE Bad # {}
  <2>1. Bad \in SUBSET Nat
    OBVIOUS
  <2>2. PICK k \in Bad : \A m \in Bad : k <= m
    BY <1>2, <2>1, Smallest
  <2>3. CASE k = 0
    <3>1. [i \in 0 .. 0 |-> <<>>] = [i \in 0 .. 0 |-> Taken(s, places, [j \in 0 .. 0 |-> <<>>], i)]
      BY DEF Taken
    <3>2. Has(0)
      BY <3>1
    <3> QED BY <2>2, <2>3, <3>2
  <2>4. CASE k # 0
    <3>1. k - 1 \in 0 .. n /\ k \in 1 .. n /\ ~(k <= k - 1)
      BY <2>4
    <3>2. k - 1 \notin Bad
      BY <2>2, <3>1
    <3>3. Has(k - 1)
      BY <3>1, <3>2
    <3>4. PICK f : f = [i \in 0 .. k - 1 |-> Taken(s, places, f, i)]
      BY <3>3
    <3> DEFINE new == IF k \in places THEN Append(f[k - 1], s[k]) ELSE f[k - 1]
               g == [i \in 0 .. k |-> IF i = k THEN new ELSE f[i]]
    <3>5. ASSUME NEW i \in 0 .. k PROVE g[i] = Taken(s, places, g, i)
      <4>1. \A j \in 0 .. k - 1 : j \in 0 .. k /\ j # k
        BY <3>1
      <4>2. \A j \in 0 .. k - 1 : g[j] = f[j]
        <5> HIDE DEF new
        <5> QED BY <4>1
      <4>3. CASE i = k
        <5>1. g[i] = new /\ g[i - 1] = f[k - 1] /\ i # 0
          <6> HIDE DEF new
          <6> QED BY <2>4, <3>1, <4>1, <4>3
        <5> HIDE DEF g
        <5> QED BY <4>3, <5>1 DEF Taken
      <4>4. CASE i = 0 /\ i # k
        <5>1. i \in 0 .. k - 1 /\ f[i] = <<>>
          BY <3>1, <3>4, <4>4 DEF Taken
        <5> QED BY <4>2, <4>4, <5>1 DEF Taken
      <4>5. CASE i # 0 /\ i # k
        <5>1. i \in 0 .. k - 1 /\ i - 1 \in 0 .. k - 1
          BY <3>1, <4>5
        <5>2. g[i] = f[i] /\ g[i - 1] = f[i - 1]
          BY <4>2, <5>1
        <5>3. f[i] = Taken(s, places, f, i)
          BY <3>4, <5>1
        <5> HIDE DEF g
        <5> QED BY <4>5, <5>2, <5>3 DEF Taken
      <4> QED BY <4>3, <4>4, <4>5
    <3>6. g = [i \in 0 .. k |-> Taken(s, places, g, i)]
      <4> HIDE DEF new
      <4>1. g = [i \in 0 .. k |-> g[i]]
        OBVIOUS
      <4> HIDE DEF g
      <4> QED BY <3>5, <4>1
    <3> HIDE DEF g
    <3>7. Has(k)
      BY <3>6
    <3> QED BY <3>7, <2>2
  <2> QED BY <2>3, <2>4
<1> QED BY <1>1, <1>2

\* What Those returns: the elements at the places, and no others.
LEMMA ThoseFacts ==
    ASSUME NEW S, NEW s \in Seq(S), NEW places
    PROVE  /\ Those(s, places) \in Seq(S)
           /\ \A i \in 1 .. Len(s) : i \in places =>
                  \E k \in 1 .. Len(Those(s, places)) : Those(s, places)[k] = s[i]
           /\ \A k \in 1 .. Len(Those(s, places)) :
                  \E i \in 1 .. Len(s) : i \in places /\ Those(s, places)[k] = s[i]
<1>1. PICK n \in Nat : n = Len(s)
  OBVIOUS
<1> DEFINE taken == CHOOSE taken : taken = [i \in 0 .. Len(s) |-> Taken(s, places, taken, i)]
<1>2. \E f : f = [i \in 0 .. n |-> Taken(s, places, f, i)]
  BY TakenExists
<1>3. taken = [i \in 0 .. n |-> Taken(s, places, taken, i)]
  BY <1>1, <1>2, Zenon
<1>4. Those(s, places) = taken[n]
  BY <1>1, Zenon DEF Those, Taken
<1> HIDE DEF taken
<1>5. taken[0] = <<>>
  BY <1>3
<1>6. \A i \in 1 .. n : taken[i] = IF i \in places THEN Append(taken[i - 1], s[i]) ELSE taken[i - 1]
  <2>1. ASSUME NEW i \in 1 .. n PROVE taken[i] = Taken(s, places, taken, i)
    <3>1. i \in 0 .. n
      OBVIOUS
    <3> QED BY <1>3, <3>1, Zenon
  <2>2. \A i \in 1 .. n : i # 0
    OBVIOUS
  <2> QED BY <2>1, <2>2, Zenon DEF Taken
<1>7. \A i \in 1 .. n : s[i] \in S
  BY <1>1
<1> DEFINE Good(m) ==
               /\ taken[m] \in Seq(S)
               /\ \A i \in 1 .. m : i \in places => \E k \in 1 .. Len(taken[m]) : taken[m][k] = s[i]
               /\ \A k \in 1 .. Len(taken[m]) : \E i \in 1 .. m : i \in places /\ taken[m][k] = s[i]
           Bad == {m \in 0 .. n : ~Good(m)}
<1>8. CASE Bad = {}
  <2>1. n \in 0 .. n
    OBVIOUS
  <2>2. Good(n)
    BY <1>8, <2>1
  <2>3. /\ taken[n] \in Seq(S)
        /\ \A i \in 1 .. n : i \in places => \E k \in 1 .. Len(taken[n]) : taken[n][k] = s[i]
        /\ \A k \in 1 .. Len(taken[n]) : \E i \in 1 .. n : i \in places /\ taken[n][k] = s[i]
    BY <2>2
  <2> HIDE DEF Good, Bad
  <2>4. PICK w : w = taken[n]
    OBVIOUS
  <2>5. PICK z : z = Those(s, places)
    OBVIOUS
  <2>6. w = z
    BY <1>4, <2>4, <2>5
  <2>7. /\ w \in Seq(S)
        /\ \A i \in 1 .. n : i \in places => \E k \in 1 .. Len(w) : w[k] = s[i]
        /\ \A k \in 1 .. Len(w) : \E i \in 1 .. n : i \in places /\ w[k] = s[i]
    BY ONLY <2>3, <2>4
  <2>8. /\ z \in Seq(S)
        /\ \A i \in 1 .. n : i \in places => \E k \in 1 .. Len(z) : z[k] = s[i]
        /\ \A k \in 1 .. Len(z) : \E i \in 1 .. n : i \in places /\ z[k] = s[i]
    BY ONLY <2>6, <2>7
  <2> QED BY ONLY <1>1, <2>5, <2>8
<1>9. CASE Bad # {}
  <2>1. Bad \in SUBSET Nat
    OBVIOUS
  <2>2. PICK m \in Bad : \A j \in Bad : m <= j
    BY <1>9, <2>1, Smallest
  <2>3. CASE m = 0
    <3>1. Good(0)
      BY <1>5
    <3> QED BY <2>2, <2>3, <3>1
  <2>4. CASE m # 0
    <3>1. m - 1 \in 0 .. n /\ m \in 1 .. n /\ ~(m <= m - 1)
      BY <2>4
    <3>2. m - 1 \notin Bad
      BY <2>2, <3>1
    <3>3. Good(m - 1)
      BY <3>1, <3>2
    <3>4. PICK t : t = taken[m - 1]
      OBVIOUS
    <3>5. PICK l \in Nat : l = Len(t)
      BY <3>3, <3>4
    <3>6. /\ t \in Seq(S) /\ s[m] \in S
          /\ \A i \in 1 .. m - 1 : i \in places => \E k \in 1 .. l : t[k] = s[i]
          /\ \A k \in 1 .. l : \E i \in 1 .. m - 1 : i \in places /\ t[k] = s[i]
      BY <1>7, <3>1, <3>3, <3>4, <3>5
    <3>7. CASE m \notin places
      <4>1. taken[m] = t
        BY <1>6, <3>1, <3>4, <3>7
      <4>2. \A i \in 1 .. m : i # m => i \in 1 .. m - 1
        BY <3>1
      <4>3. \A i \in 1 .. m - 1 : i \in 1 .. m
        BY <3>1
      <4>4. Good(m)
        BY ONLY <3>5, <3>6, <3>7, <4>1, <4>2, <4>3
      <4> QED BY <2>2, <4>4
    <3>8. CASE m \in places
      <4>1. PICK u : u = Append(t, s[m])
        OBVIOUS
      <4>2. taken[m] = u
        BY <1>6, <3>1, <3>4, <3>8, <4>1
      <4>3. u \in Seq(S) /\ Len(u) = l + 1 /\ u[l + 1] = s[m] /\ \A k \in 1 .. l : u[k] = t[k]
        BY <3>5, <3>6, <4>1
      <4>4. \A i \in 1 .. m : i # m => i \in 1 .. m - 1
        BY <3>1
      <4>5. \A i \in 1 .. m - 1 : i \in 1 .. m
        BY <3>1
      <4>6. \A k \in 1 .. l + 1 : k # l + 1 => k \in 1 .. l
        OBVIOUS
      <4>7. (\A k \in 1 .. l : k \in 1 .. l + 1) /\ l + 1 \in 1 .. l + 1
        OBVIOUS
      <4>8. ASSUME NEW i \in 1 .. m, i \in places PROVE \E k \in 1 .. l + 1 : u[k] = s[i]
        BY ONLY <3>6, <4>3, <4>4, <4>7, <4>8
      <4>9. ASSUME NEW k \in 1 .. l + 1 PROVE \E i \in 1 .. m : i \in places /\ u[k] = s[i]
        <5>1. CASE k = l + 1
          <6>1. m \in 1 .. m
            BY <3>1
          <6> QED BY <3>8, <4>3, <5>1, <6>1
        <5>2. CASE k # l + 1
          <6>1. k \in 1 .. l
            BY <4>6, <5>2
          <6>2. PICK i \in 1 .. m - 1 : i \in places /\ t[k] = s[i]
            BY <3>6, <6>1
          <6> QED BY <4>3, <4>5, <6>1, <6>2
        <5> QED BY <5>1, <5>2
      <4>10. Good(m)
        BY <4>2, <4>3, <4>8, <4>9
      <4> QED BY <2>2, <4>10
    <3> QED BY <3>7, <3>8
  <2> QED BY <2>3, <2>4
<1> QED BY <1>8, <1>9

\* ------------------------------------------------------------------- types
Phases == {"items", "fence", "load", "put", "reply"}
Apis == {"Fetch", "ListOffsets", "OffsetCommit", "OffsetFetch", "Produce", "Metadata",
         "InitProducerId"}

Codes == {"none", "InvalidTopicException", "UnknownTopicOrPartition", "InvalidRequest",
          "OffsetOutOfRange", "KafkaStorageError", "InvalidFetchSize", "InvalidCommitOffsetSize",
          "UnsupportedForMessageFormat", "InvalidRequiredAcks", "RebalanceInProgress"}

FetchAnswers == [code : Codes, high : Nat, batches : Nat, until : Int, bytes : Nat]
OffsetsTold == [code : Codes, offset : Int]
Checks == [code : Codes]
Answers == FetchAnswers \cup OffsetsTold \cup Checks \cup [code : Codes, base : Int]
               \cup [code : Codes, count : Nat]

CounterObjects == {Missing} \cup Counters
ManifestObjects == {Missing} \cup Manifests

Jobs ==
    [req : Requests, base : {Unread} \cup CounterObjects \cup ManifestObjects,
     tries : 0 .. MaxAttempts - 1, answers : Seq(Answers), fault : Codes,
     commits : Seq(CommitEntries), stored : Seq(CommitEntries),
     first : BOOLEAN, left : 0 .. MaxPayload, phase : Phases]

\* How far a handler is with the items of its request.
Progress(j) ==
    /\ j.phase = "items" => /\ Len(j.answers) < Len(j.req.items)
                            /\ j.req.api \notin {"InitProducerId"}
    /\ j.phase = "fence" => j.req.api = "OffsetCommit"
    /\ j.phase = "load" =>
           j.req.api \in {"InitProducerId", "Metadata", "OffsetCommit", "OffsetFetch"}
    /\ j.phase = "put" => j.req.api \in {"InitProducerId", "OffsetCommit"}
    /\ j.phase = "load" /\ j.req.api = "Metadata" => j.answers = <<>> /\ j.req.all
    /\ j.phase \in {"fence", "load", "put"} /\ j.req.api # "Metadata"
           => Len(j.answers) = Len(j.req.items)
    /\ j.phase = "reply" /\ j.fault = "none" => Len(j.answers) = Len(j.req.items)

\* The answers are those of the API.
Fits(j) ==
    /\ j.req.api = "Fetch" => j.answers \in Seq(FetchAnswers)
    /\ j.req.api = "ListOffsets" => j.answers \in Seq(OffsetsTold)
    /\ j.req.api = "OffsetFetch" /\ j.phase = "reply" => j.answers \in Seq(OffsetsTold)

\* What a handler that is going to write, or has written, has read.
Carries(j) ==
    /\ j.req.api = "InitProducerId" /\ (j.phase = "put" \/ (j.phase = "reply" /\ j.fault = "none"))
           => j.base \in CounterObjects
    /\ j.req.api = "OffsetCommit" /\ j.phase \in {"load", "put"}
           => CommitFault(j.commits) = "none"
    /\ j.req.api = "OffsetCommit" /\ j.phase = "put"
           => j.base \in ManifestObjects /\ Readable(j.base) /\ UnderLimit(j.base, j.commits)

GoodJobs == {j \in Jobs : Progress(j) /\ Fits(j) /\ Carries(j)}

\* Writes that may arrive late are what a handler was going to write.
GoodWrites ==
    {w \in [object : {"counter", "offsets"}, base : CounterObjects \cup ManifestObjects,
            commits : Seq(CommitEntries)] :
        /\ w.object = "counter" => w.base \in CounterObjects
        /\ w.object = "offsets" =>
               /\ w.base \in ManifestObjects /\ CommitFault(w.commits) = "none"
               /\ Readable(w.base) /\ UnderLimit(w.base, w.commits)}

GoodClients(k) ==
    {m \in [at : Dials[k], waiting : BOOLEAN, script : Seq(Requests), commits : Int,
            keys : Seq(Keys), pos : UNION {[ks -> Int] : ks \in SUBSET Keys}] :
        m.pos \in [Range(m.keys) -> Int]}

StoreInv ==
    /\ topics \in [Topics -> 0 .. MaxTopicPartitions] /\ logs \in [Keys -> Logs]
    /\ offsets \in ManifestObjects /\ counter \in CounterObjects

JobsInv == job \in [Conns -> GoodJobs \cup {Idle}]

LateInv == late \subseteq GoodWrites

ClientsInv ==
    /\ DOMAIN client = Clients
    /\ \A k \in Clients : client[k] \in GoodClients(k)
    /\ \A k \in Clients : client[k].waiting => job[client[k].at] # Idle

LockInv ==
    /\ DOMAIN lock = Brokers
    /\ \A b \in Brokers : lock[b] # Nobody =>
           /\ lock[b] \in Conns /\ BrokerOf[lock[b]] = b
           /\ Asking(lock[b], "OffsetCommit", "load") \/ Asking(lock[b], "OffsetCommit", "put")

(***************************************************************************)
(* The inductive invariant that everything else rests on: types, how far   *)
(* every handler is, and what a handler that is going to write has checked.*)
(***************************************************************************)
BrokerInv == StoreInv /\ JobsInv /\ LateInv /\ ClientsInv /\ LockInv

\* Every failure of the log has a code of its own in a response.
LEMMA ErrorCodes ==
    ASSUME NEW x \in {"InvalidTopic", "UnknownTopic", "UnsupportedPartition", "EmptyBatch",
                      "InvalidOffset", "OffsetOutOfRange", "ObjectStore", "ContentionExhausted"}
    PROVE  LogErrorCode[x] \in Codes /\ LogErrorCode[x] # "none"
  BY DEF LogErrorCode, Codes

\* A key the log does not refuse is one of its partitions.
LEMMA Unreadables ==
    ASSUME StoreInv, NEW k \in Names
    PROVE  /\ Unreadable(k) \in {"none", "InvalidTopic", "UnknownTopic", "UnsupportedPartition"}
           /\ Unreadable(k) = "none" => k \in Keys
<1>1. k = <<k[1], k[2]>>
  BY DEF Names
<1>2. k[1] \in Topics => topics[k[1]] \in 0 .. MaxTopicPartitions
  BY DEF StoreInv
<1>3. ASSUME k[1] \in Topics, k[2] \in 0 .. topics[k[1]] - 1 PROVE k[2] \in 0 .. MaxTopicPartitions - 1
  BY <1>2, <1>3, GroupOffsetsAssumption
<1> QED BY <1>1, <1>3 DEF Unreadable, Keys

\* No handler looks like a connection without a request.
LEMMA IdleIsNoJob == \A j \in Jobs : j # Idle
  BY DEF Jobs, Idle, Phases

\* ----------------------------------------------------------------- answers
Batches == [base : Nat, count : Nat \ {0}, bytes : Nat \ {0}]

\* The bytes of whole batches are a number.
LEMMA Weights ==
    ASSUME NEW bs \in Seq(Batches), NEW n \in 0 .. Len(bs)
    PROVE  Weight(bs, n) \in Nat
<1>1. n \in Nat /\ \A i \in 1 .. n : bs[i] \in Batches
  OBVIOUS
<1>2. [i \in 1 .. n |-> bs[i].bytes] \in [1 .. n -> Nat]
  BY <1>1 DEF Batches
<1>3. Total([i \in 1 .. n |-> bs[i].bytes]) \in Nat
  BY <1>1, <1>2, TotalType
<1> QED BY <1>3 DEF Weight

\* The number of batches that are sent: a large one is, if it may and is the first.
LEMMA SelectedFacts ==
    ASSUME NEW bs \in Seq(Batches), NEW limit \in Int, NEW oversized \in BOOLEAN,
           NEW n, n = Selected(bs, limit, oversized)
    PROVE  /\ n \in 0 .. Len(bs)
           /\ n = 0 \/ Weight(bs, n) <= limit \/ (n = 1 /\ oversized)
           /\ oversized /\ bs # <<>> => n # 0
<1>1. PICK l \in Nat : l = Len(bs)
  OBVIOUS
<1> DEFINE T == {0} \cup {m \in DOMAIN bs : Weight(bs, m) <= limit \/ (m = 1 /\ oversized)}
<1>2. DOMAIN bs = 1 .. l
  BY <1>1
<1>3. T \in SUBSET (0 .. l) /\ T # {}
  BY <1>2
<1>4. n = Max(T)
  BY Zenon DEF Selected
<1>5. n \in T /\ \A i \in T : i <= n
  BY ONLY <1>3, <1>4, l \in Nat, Largest
<1>6. ASSUME oversized, bs # <<>> PROVE n # 0
  <2>1. 1 \in T
    BY <1>1, <1>2, <1>6
  <2>2. 1 <= n
    BY <1>5, <2>1
  <2> QED BY <2>2
<1> QED BY <1>1, <1>3, <1>5, <1>6

\* What is known of the log of a partition.
LEMMA Known ==
    ASSUME StoreInv, NEW k \in Keys
    PROVE  /\ logs[k] \in Logs /\ logs[k].start \in Nat /\ logs[k].batches \in Seq(Batches)
           /\ End(logs[k]) \in Nat
<1>1. logs[k] \in Logs
  BY DEF StoreInv
<1>2. logs[k].start \in Nat /\ logs[k].batches \in Seq(Batches)
  BY <1>1 DEF Logs, Batches
<1>3. CASE logs[k].batches = <<>>
  BY <1>1, <1>2, <1>3 DEF End
<1>4. CASE logs[k].batches # <<>>
  <2>1. PICK n \in Nat : n = Len(logs[k].batches)
    BY <1>2
  <2>2. n \in 1 .. Len(logs[k].batches)
    BY <1>2, <1>4, <2>1
  <2>3. PICK b \in Batches : b = logs[k].batches[n]
    BY <1>2, <2>2
  <2>4. b.base \in Nat /\ b.count \in Nat
    BY ONLY b \in Batches DEF Batches
  <2>5. End(logs[k]) = b.base + b.count
    BY <1>4, <2>1, <2>3 DEF End, Beyond
  <2>6. End(logs[k]) \in Nat
    BY ONLY <2>4, <2>5
  <2> QED BY <1>1, <1>2, <2>6
<1> QED BY <1>1, <1>2, <1>3, <1>4

\* What FetchItem answers, whatever was asked.
LEMMA FetchAnswerType ==
    ASSUME StoreInv, NEW req \in FetchRequests, NEW item \in [key : Names, from : Int, max : Int],
           NEW left \in Nat, NEW first \in BOOLEAN,
           NEW bs, bs = Eligible(logs[item.key], item.from), NEW limit, limit = FetchLimit(item, left),
           NEW a, a = FetchItem(req, item, bs, limit, first)
    PROVE  a \in FetchAnswers
<1>1. req.max \in Int /\ item.max \in Int /\ item.from \in Int /\ item.key \in Names
  BY DEF FetchRequests
<1>2. \A code \in Codes : NoRecords(code) \in FetchAnswers
  BY DEF NoRecords, FetchAnswers
<1>3. CASE a = FetchBounded(item.key, item.from, bs, limit, first)
  <2> DEFINE k == item.key
  <2>1. CASE Unreadable(k) # "none"
    BY <1>1, <1>2, <1>3, <2>1, Unreadables, ErrorCodes DEF FetchBounded
  <2>2. CASE Unreadable(k) = "none"
    <3>1. k \in Keys
      BY <1>1, <2>2, Unreadables
    <3>2. logs[k].batches \in Seq(Batches) /\ End(logs[k]) \in Nat
      BY <3>1, Known
    <3>3. bs \in Seq(Batches)
      BY <3>2, ThoseFacts DEF Eligible
    <3>4. limit \in Int
      BY <1>1, HandlersAssumption DEF FetchLimit, LeastOf
    <3>5. PICK n : n = Selected(bs, limit, first)
      OBVIOUS
    <3>6. n \in 0 .. Len(bs)
      BY ONLY <3>3, <3>4, <3>5, first \in BOOLEAN, SelectedFacts
    <3>7. Weight(bs, n) \in Nat /\ n \in Nat
      BY <3>3, <3>6, Weights
    <3>8. n # 0 => Beyond(bs[n]) \in Int
      <4>1. n # 0 => bs[n] \in Batches
        BY <3>3, <3>6
      <4> QED BY <4>1 DEF Beyond, Batches
    <3>9. (IF n = 0 THEN item.from ELSE Beyond(bs[n])) \in Int
      BY <1>1, <3>8
    <3>10. "none" \in Codes
      BY DEF Codes
    <3>11. [code |-> "none", high |-> End(logs[k]), batches |-> n, bytes |-> Weight(bs, n),
            until |-> IF n = 0 THEN item.from ELSE Beyond(bs[n])] \in FetchAnswers
      BY ONLY <3>2, <3>7, <3>9, <3>10 DEF FetchAnswers
    <3> HIDE DEF k
    <3>12. a = FetchBounded(k, item.from, bs, limit, first)
      BY <1>3 DEF k
    <3> QED BY <1>2, <2>2, <3>5, <3>11, <3>12, ErrorCodes DEF FetchBounded
  <2> QED BY <2>1, <2>2
<1>4. CASE a # FetchBounded(item.key, item.from, bs, limit, first)
  BY <1>2, <1>4 DEF FetchItem, Codes
<1> QED BY <1>3, <1>4

\* A request is of the kind its API says.
LEMMA Kinds ==
    ASSUME NEW req \in Requests
    PROVE  /\ req.api = "Fetch" => req \in FetchRequests
           /\ req.api = "ListOffsets" => req \in ListRequests
           /\ req.api = "OffsetCommit" => req \in CommitRequests
           /\ req.api = "OffsetFetch" => req \in OffsetRequests
           /\ req.api = "Produce" => req \in ProduceRequests
           /\ req.api = "Metadata" => req \in MetadataRequests
           /\ req.api = "InitProducerId" => req \in InitRequests
           /\ \/ req.api \in {"Fetch", "ListOffsets", "OffsetCommit", "OffsetFetch", "Produce",
                              "Metadata", "InitProducerId"}
              \/ req \in OtherRequests
  BY DEF Requests, FetchRequests, ListRequests, CommitRequests, OffsetRequests, ProduceRequests,
         MetadataRequests, InitRequests, OtherRequests

\* The items of every request are a sequence.
LEMMA ItemsAreSequences ==
    ASSUME NEW req \in Requests
    PROVE  /\ Len(req.items) \in Nat /\ DOMAIN req.items = 1 .. Len(req.items)
           /\ req.api = "InitProducerId" => Len(req.items) = 0
<1>1. CASE req \in FetchRequests
  BY <1>1 DEF FetchRequests
<1>2. CASE req \in ListRequests
  BY <1>2 DEF ListRequests
<1>3. CASE req \in CommitRequests
  BY <1>3 DEF CommitRequests
<1>4. CASE req \in OffsetRequests
  BY <1>4 DEF OffsetRequests
<1>5. CASE req \in ProduceRequests
  BY <1>5 DEF ProduceRequests
<1>6. CASE req \in MetadataRequests
  BY <1>6 DEF MetadataRequests
<1>7. CASE req \in InitRequests
  BY <1>7 DEF InitRequests
<1>8. CASE req \in OtherRequests
  BY <1>8 DEF OtherRequests
<1> QED BY <1>1, <1>2, <1>3, <1>4, <1>5, <1>6, <1>7, <1>8 DEF Requests

\* What ListItem answers.
LEMMA ListAnswerType ==
    ASSUME StoreInv, NEW req, NEW item \in [key : Names, timestamp : Int]
    PROVE  ListItem(req, item) \in OffsetsTold
<1>1. item.key \in Names
  OBVIOUS
<1>2. CASE Unreadable(item.key) # "none"
  <2>1. LogErrorCode[Unreadable(item.key)] \in Codes
    BY <1>1, <1>2, Unreadables, ErrorCodes
  <2> QED BY <1>2, <2>1 DEF ListItem, OffsetsTold, Codes
<1>3. CASE Unreadable(item.key) = "none"
  <2>1. item.key \in Keys
    BY <1>1, <1>3, Unreadables
  <2>2. logs[item.key].start \in Int /\ End(logs[item.key]) \in Int
    BY <2>1, Known
  <2> QED BY <1>3, <2>2 DEF ListItem, OffsetsTold, Codes
<1> QED BY <1>2, <1>3

\* What the checks of a commit or an offset fetch answer.
LEMMA CheckType ==
    ASSUME StoreInv, NEW k \in Names
    PROVE  TopicCheck(k) \in Codes /\ SelectionCheck(k) \in Codes
  BY Unreadables, ErrorCodes DEF TopicCheck, SelectionCheck, Codes

\* The last of some places of a sequence.
LEMMA LastPlace ==
    ASSUME NEW n \in Nat, NEW T \in SUBSET (1 .. n), T # {}
    PROVE  Max(T) \in T
<1>1. T \in SUBSET (0 .. n)
  OBVIOUS
<1> QED BY <1>1, Largest

\* A local error is a code.
LEMMA LocalErrorType ==
    ASSUME NEW checks \in Seq(Answers), NEW req, NEW k
    PROVE  /\ LocalError(req, checks, k) \in Codes
           /\ \A i \in DOMAIN checks :
                  req.items[i].key = k /\ LocalError(req, checks, k) = "none"
                      => checks[i].code = "none"
<1>1. PICK n \in Nat : n = Len(checks)
  OBVIOUS
<1> DEFINE T == {i \in DOMAIN checks : req.items[i].key = k /\ checks[i].code # "none"}
<1>2. DOMAIN checks = 1 .. n /\ T \in SUBSET (1 .. n)
  BY <1>1
<1>3. \A i \in 1 .. n : checks[i].code \in Codes
  <2>1. \A i \in 1 .. n : checks[i] \in Answers
    BY <1>1
  <2> QED BY <2>1 DEF Answers, FetchAnswers, OffsetsTold, Checks
<1>4. CASE T = {}
  <2>1. LocalError(req, checks, k) = "none"
    BY <1>4, Zenon DEF LocalError
  <2> QED BY <1>4, <2>1 DEF Codes
<1>5. CASE T # {}
  <2>1. LocalError(req, checks, k) = checks[Max(T)].code
    BY <1>5, Zenon DEF LocalError
  <2>2. Max(T) \in T
    BY <1>2, <1>5, LastPlace
  <2> HIDE DEF T
  <2>3. checks[Max(T)].code \in Codes /\ checks[Max(T)].code # "none"
    BY <1>2, <1>3, <2>2 DEF T
  <2> QED BY <2>1, <2>3
<1> QED BY <1>4, <1>5

\* The answers to a commit: one for each item.
LEMMA CommitAnswersType ==
    ASSUME NEW req \in Requests, NEW checks \in Seq(Answers), NEW fault \in Codes,
           NEW a, a = CommitAnswers(req, checks, fault)
    PROVE  a \in Seq(Checks) /\ Len(a) = Len(req.items)
<1>1. PICK n \in Nat : n = Len(req.items) /\ DOMAIN req.items = 1 .. n
  BY ItemsAreSequences
<1> DEFINE code(i) == IF fault # "none" THEN fault ELSE LocalError(req, checks, req.items[i].key)
<1>2. \A i \in 1 .. n : code(i) \in Codes
  BY LocalErrorType
<1>3. a = [i \in 1 .. n |-> [code |-> code(i)]]
  BY <1>1 DEF CommitAnswers
<1> HIDE DEF code
<1>4. \A i \in 1 .. n : [code |-> code(i)] \in Checks
  BY <1>2 DEF Checks
<1>5. a \in [1 .. n -> Checks]
  BY <1>3, <1>4
<1> QED BY <1>1, <1>5

\* The offset a manifest has for a key, or -1.
LEMMA CommittedType ==
    ASSUME NEW m \in ManifestObjects, NEW k
    PROVE  Committed(m, k) \in Int
<1>1. Loaded(m) \in Manifests \/ Loaded(m) = EmptyManifest
  BY DEF Loaded, ManifestObjects
<1>2. CASE Loaded(m) \in Manifests
  BY <1>2 DEF Committed, Manifests
<1>3. CASE Loaded(m) = EmptyManifest
  BY <1>3 DEF Committed, EmptyManifest
<1> QED BY <1>1, <1>2, <1>3

\* The answers to an offset fetch: one for each item.
LEMMA OffsetAnswersType ==
    ASSUME NEW req \in Requests, NEW checks \in Seq(Answers), NEW fault \in Codes,
           NEW m \in ManifestObjects, NEW a, a = OffsetAnswers(req, checks, m, fault)
    PROVE  a \in Seq(OffsetsTold) /\ Len(a) = Len(req.items)
<1>1. PICK n \in Nat : n = Len(req.items) /\ DOMAIN req.items = 1 .. n
  BY ItemsAreSequences
<1>2. ASSUME NEW i \in 1 .. n PROVE a[i] \in OffsetsTold
  <2>1. LocalError(req, checks, req.items[i].key) \in Codes /\ Committed(m, req.items[i].key) \in Int
    BY LocalErrorType, CommittedType
  <2>2. "none" \in Codes
    BY DEF Codes
  <2> QED BY <1>1, <2>1, <2>2 DEF OffsetAnswers, OffsetsTold
<1>3. a \in [1 .. n -> OffsetsTold]
  BY <1>1, <1>2 DEF OffsetAnswers
<1> QED BY <1>1, <1>3

\* The budget of a fetch is within the broker's own limit.
LEMMA BudgetType ==
    ASSUME NEW req \in FetchRequests
    PROVE  FetchBudget(req) \in 0 .. MaxPayload
<1>1. req.max \in Int /\ Len(req.items) \in Nat /\ DOMAIN req.items = 1 .. Len(req.items)
  BY DEF FetchRequests
<1>2. PICK n \in Nat : n = Len(req.items)
  BY <1>1
<1> DEFINE named == {req.items[i].key[1] : i \in DOMAIN req.items}
           f == [i \in 1 .. n |-> req.items[i].key[1]]
<1>3. f \in Surjection(1 .. n, named)
  BY <1>1, <1>2 DEF Surjection
<1>4. IsFiniteSet(1 .. n)
  BY FS_Interval
<1>5. IsFiniteSet(named)
  <2> HIDE DEF f, named
  <2> QED BY <1>3, <1>4, FS_Surjection
<1>6. Cardinality(named) \in Nat
  BY <1>5, FS_CardinalityType
<1>7. PICK parts \in Nat : parts = Cardinality(named) + Len(req.items)
  <2>1. PICK c \in Nat : c = Cardinality(named)
    BY <1>6
  <2>2. c + n \in Nat
    OBVIOUS
  <2> QED BY ONLY <1>2, <2>1, <2>2
<1>8. ItemReserve * parts \in Nat
  BY <1>7, HandlersAssumption
<1>9. PICK reserve \in Nat : reserve = BaseReserve + ItemReserve * parts
  BY <1>8, HandlersAssumption
<1>10. FetchBudget(req) = Saturating(LeastOf(Saturating(req.max), MaxPayload) - reserve)
  BY <1>7, <1>9, Zenon DEF FetchBudget
<1> QED BY <1>1, <1>10, HandlersAssumption DEF Saturating, LeastOf

\* The fault of a request is a code.
LEMMA FaultType ==
    ASSUME NEW req \in Requests
    PROVE  RequestFault(req) \in Codes
  BY DEF RequestFault, InitFault, Codes

\* A handler begins in a good state.
LEMMA Begins ==
    ASSUME NEW req \in Requests, NEW j, j = Begun(req)
    PROVE  j \in GoodJobs
<1>1. PICK n \in Nat : n = Len(req.items)
  BY ItemsAreSequences
<1>2. RequestFault(req) \in Codes
  BY FaultType
<1>3. <<>> \in Seq(Answers) /\ <<>> \in Seq(CommitEntries) /\ <<>> \in Seq(FetchAnswers)
      /\ <<>> \in Seq(OffsetsTold) /\ Len(<<>>) = 0
  OBVIOUS
<1>4. /\ j.answers = <<>> \/ (req.api = "OffsetCommit" /\ j.answers \in Seq(Checks))
      /\ RequestFault(req) = "none" => j.answers = <<>>
  <2>1. CommitAnswers(req, <<>>, RequestFault(req)) \in Seq(Checks)
    BY <1>2, <1>3, CommitAnswersType
  <2> QED BY <2>1 DEF Begun
<1>5. j.answers \in Seq(Answers)
  <2>1. Checks \subseteq Answers
    BY DEF Answers
  <2>2. ASSUME j.answers \in Seq(Checks) PROVE j.answers \in Seq(Answers)
    BY ONLY <2>1, <2>2
  <2> QED BY <1>3, <1>4, <2>2
<1>6. j.left \in 0 .. MaxPayload
  BY BudgetType, Kinds, HandlersAssumption DEF Begun
<1>7. /\ j.req = req /\ j.base = Unread /\ j.tries = 0 /\ j.fault = RequestFault(req)
      /\ j.commits = <<>> /\ j.stored = <<>> /\ j.first = TRUE
      /\ j.phase = IF RequestFault(req) # "none" THEN "reply"
                   ELSE IF req.api = "InitProducerId" \/ (req.api = "Metadata" /\ req.all) THEN "load"
                   ELSE Following(req, 0)
      /\ j = [req |-> req, base |-> j.base, tries |-> j.tries, answers |-> j.answers,
              fault |-> j.fault, commits |-> j.commits, stored |-> j.stored,
              first |-> j.first, left |-> j.left, phase |-> j.phase]
  BY DEF Begun
<1>8. j.phase \in Phases
  BY <1>7 DEF Following, Phases
<1>9. 0 \in 0 .. MaxAttempts - 1
  BY BrokerAssumption
<1>10. j \in Jobs
  <2>1. /\ j.base \in {Unread} \cup CounterObjects \cup ManifestObjects /\ j.tries \in 0 .. MaxAttempts - 1
        /\ j.fault \in Codes /\ j.commits \in Seq(CommitEntries) /\ j.stored \in Seq(CommitEntries)
        /\ j.first \in BOOLEAN
    BY ONLY <1>2, <1>3, <1>7, <1>9
  <2> QED BY ONLY <1>5, <1>6, <1>7, <1>8, <2>1, req \in Requests DEF Jobs
<1>11. Progress(j)
  <2>1. n = 0 \/ 0 < n
    OBVIOUS
  <2>2. req.api = "InitProducerId" => n = 0
    BY <1>1, ItemsAreSequences
  <2>3. RequestFault(req) = "none" => Len(j.answers) = 0
    BY <1>3, <1>4
  <2>4. j.phase = "items" => RequestFault(req) = "none" /\ 0 < n /\ req.api # "InitProducerId"
    BY <1>1, <1>7 DEF Following
  <2>5. j.phase \in {"fence", "load"} => RequestFault(req) = "none"
    BY <1>7
  <2>6. j.phase = "fence" => req.api = "OffsetCommit" /\ n = 0
    BY <1>1, <1>7, <2>1 DEF Following
  <2>7. j.phase = "load" => \/ req.api \in {"InitProducerId", "Metadata"}
                            \/ req.api = "OffsetFetch" /\ n = 0
    BY <1>1, <1>7, <2>1 DEF Following
  <2>8. j.phase = "reply" /\ j.fault = "none" => n = 0
    BY <1>1, <1>7, <2>1 DEF Following
  <2>9. j.phase # "put"
    BY <1>7 DEF Following
  <2>10. j.phase = "load" /\ req.api = "Metadata" => req.all
    BY <1>7 DEF Following
  <2> QED BY ONLY <1>1, <1>4, <1>7, <2>2, <2>3, <2>4, <2>5, <2>6, <2>7, <2>8, <2>9, <2>10
       DEF Progress
<1>12. Fits(j)
  BY <1>3, <1>4, <1>7 DEF Fits
<1>13. Carries(j)
  <2>1. j.phase # "put" /\ (req.api = "OffsetCommit" => j.phase # "load")
    BY <1>7 DEF Following
  <2>2. req.api = "InitProducerId" /\ j.phase = "reply" => j.fault # "none"
    BY <1>7
  <2> QED BY ONLY <1>7, <2>1, <2>2 DEF Carries
<1> QED BY <1>10, <1>11, <1>12, <1>13 DEF GoodJobs

\* What is known of a handler, field by field.
LEMMA JobFields ==
    ASSUME NEW j \in GoodJobs
    PROVE  /\ j \in Jobs /\ Progress(j) /\ Fits(j) /\ Carries(j)
           /\ j.req \in Requests /\ j.base \in {Unread} \cup CounterObjects \cup ManifestObjects
           /\ j.tries \in 0 .. MaxAttempts - 1 /\ j.answers \in Seq(Answers) /\ j.fault \in Codes
           /\ j.commits \in Seq(CommitEntries) /\ j.stored \in Seq(CommitEntries)
           /\ j.first \in BOOLEAN /\ j.left \in 0 .. MaxPayload /\ j.phase \in Phases
  BY DEF GoodJobs, Jobs

\* An answered item brings the handler to its next item, or past them.
LEMMA Answering ==
    ASSUME NEW j \in GoodJobs, j.phase = "items", NEW a \in Answers,
           j.req.api = "Fetch" => a \in FetchAnswers,
           j.req.api = "ListOffsets" => a \in OffsetsTold,
           NEW next, next = [j EXCEPT !.answers = Append(@, a),
                                      !.phase = Following(j.req, Len(j.answers) + 1)]
    PROVE  next \in GoodJobs
<1>1. PICK n \in Nat : n = Len(j.req.items)
  BY JobFields, ItemsAreSequences
<1>2. PICK l \in Nat : l = Len(j.answers)
  BY JobFields
<1>3. PICK more : more = Append(j.answers, a)
  OBVIOUS
<1>4. more \in Seq(Answers) /\ Len(more) = l + 1
  BY <1>2, <1>3, JobFields
<1>5. l < n /\ j.req.api # "InitProducerId"
  BY <1>1, <1>2, JobFields DEF Progress
<1>6. PICK p : p = Following(j.req, l + 1)
  OBVIOUS
<1>7. /\ p \in Phases
      /\ p = "items" => l + 1 < n
      /\ p = "fence" => j.req.api = "OffsetCommit" /\ l + 1 = n
      /\ p = "load" => j.req.api = "OffsetFetch" /\ l + 1 = n
      /\ p = "reply" => j.req.api # "OffsetFetch" /\ l + 1 = n
      /\ p # "put"
  BY <1>1, <1>5, <1>6 DEF Following, Phases
<1>8. next = [j EXCEPT !.answers = more, !.phase = p]
  BY <1>2, <1>3, <1>6
<1>9. /\ next.req = j.req /\ next.base = j.base /\ next.fault = j.fault /\ next.answers = more
      /\ next.commits = j.commits /\ next.phase = p /\ next \in Jobs
  BY <1>4, <1>7, <1>8, JobFields DEF Jobs
<1>10. Progress(next)
  BY ONLY <1>1, <1>4, <1>5, <1>7, <1>9 DEF Progress
<1>11. Fits(next)
  <2>1. j.req.api = "Fetch" => more \in Seq(FetchAnswers)
    BY <1>3, JobFields DEF Fits
  <2>2. j.req.api = "ListOffsets" => more \in Seq(OffsetsTold)
    BY <1>3, JobFields DEF Fits
  <2> QED BY ONLY <1>7, <1>9, <2>1, <2>2 DEF Fits
<1>12. Carries(next)
  BY ONLY <1>5, <1>7, <1>9 DEF Carries
<1> QED BY <1>9, <1>10, <1>11, <1>12 DEF GoodJobs

\* A handler has its response.
LEMMA Finishing ==
    ASSUME NEW j \in GoodJobs, j.phase \in {"fence", "load", "put"}, j.req.api # "Metadata",
           NEW f \in Codes, NEW m \in ManifestObjects,
           j.req.api = "InitProducerId" /\ f = "none" => j.phase = "put",
           NEW next, next = [j EXCEPT !.phase = "reply", !.fault = f, !.answers = Response(j, f, m)]
    PROVE  next \in GoodJobs
<1>1. PICK n \in Nat : n = Len(j.req.items)
  BY JobFields, ItemsAreSequences
<1>2. PICK told : told = Response(j, f, m)
  OBVIOUS
<1>3. Len(j.answers) = n
  BY <1>1, JobFields DEF Progress
<1>4. j.req.api \in {"InitProducerId", "OffsetCommit", "OffsetFetch"}
  BY JobFields DEF Progress
<1>5. /\ told \in Seq(Answers) /\ Len(told) = n
      /\ j.req.api = "OffsetFetch" => told \in Seq(OffsetsTold)
  <2>1. CASE j.req.api = "OffsetCommit"
    <3>1. told = CommitAnswers(j.req, j.answers, f)
      BY <1>2, <2>1 DEF Response
    <3>2. told \in Seq(Checks) /\ Len(told) = n
      BY <1>1, <3>1, JobFields, CommitAnswersType
    <3>3. Checks \subseteq Answers
      BY DEF Answers
    <3> QED BY ONLY <2>1, <3>2, <3>3
  <2>2. CASE j.req.api = "OffsetFetch"
    <3>1. told = OffsetAnswers(j.req, j.answers, m, f)
      BY <1>2, <2>2 DEF Response
    <3>2. told \in Seq(OffsetsTold) /\ Len(told) = n
      BY <1>1, <3>1, JobFields, OffsetAnswersType
    <3>3. OffsetsTold \subseteq Answers
      BY DEF Answers
    <3> QED BY ONLY <2>2, <3>2, <3>3
  <2>3. CASE j.req.api = "InitProducerId"
    <3>1. told = j.answers
      BY <1>2, <2>3 DEF Response
    <3> QED BY <1>3, <2>3, <3>1, JobFields
  <2> QED BY <1>4, <2>1, <2>2, <2>3
<1>6. next = [j EXCEPT !.phase = "reply", !.fault = f, !.answers = told]
  BY <1>2
<1>7. /\ next.req = j.req /\ next.base = j.base /\ next.fault = f /\ next.answers = told
      /\ next.phase = "reply" /\ next \in Jobs
  BY <1>5, <1>6, JobFields DEF Jobs, Phases
<1>8. Progress(next)
  BY ONLY <1>1, <1>5, <1>7 DEF Progress
<1>9. Fits(next)
  BY ONLY <1>4, <1>5, <1>7 DEF Fits
<1>10. Carries(next)
  <2>1. j.req.api = "InitProducerId" /\ f = "none" => j.base \in CounterObjects
    BY JobFields DEF Carries
  <2> QED BY ONLY <1>7, <2>1 DEF Carries
<1> QED BY <1>7, <1>8, <1>9, <1>10 DEF GoodJobs

\* The rest of a handler's state does not matter.
LEMMA Same ==
    ASSUME NEW j \in GoodJobs, NEW i, i.req = j.req, i.base = j.base, i.fault = j.fault,
           i.answers = j.answers, i.commits = j.commits, i.phase = j.phase
    PROVE  Progress(i) /\ Fits(i) /\ Carries(i)
<1>1. Progress(j) /\ Fits(j) /\ Carries(j)
  BY JobFields
<1>2. Progress(i)
  BY <1>1 DEF Progress
<1>3. Fits(i)
  BY <1>1 DEF Fits
<1>4. Carries(i)
  BY <1>1 DEF Carries
<1> QED BY <1>2, <1>3, <1>4

\* The budget of a fetch, and what a commit has stored, are beside all that.
LEMMA Beside ==
    ASSUME NEW j \in GoodJobs
    PROVE  /\ \A left \in 0 .. MaxPayload, first \in BOOLEAN :
                  [j EXCEPT !.left = left, !.first = first] \in GoodJobs
           /\ \A stored \in Seq(CommitEntries) : [j EXCEPT !.stored = stored] \in GoodJobs
           /\ \A tries \in 0 .. MaxAttempts - 1 : [j EXCEPT !.tries = tries] \in GoodJobs
<1>1. ASSUME NEW left \in 0 .. MaxPayload, NEW first \in BOOLEAN
      PROVE  [j EXCEPT !.left = left, !.first = first] \in GoodJobs
  <2>1. PICK i : i = [j EXCEPT !.left = left, !.first = first]
    OBVIOUS
  <2>2. /\ i \in Jobs /\ i.req = j.req /\ i.base = j.base /\ i.fault = j.fault
        /\ i.answers = j.answers /\ i.commits = j.commits /\ i.phase = j.phase
    BY <2>1, JobFields DEF Jobs
  <2>3. Progress(i) /\ Fits(i) /\ Carries(i)
    BY <2>2, Same
  <2> QED BY <2>1, <2>2, <2>3 DEF GoodJobs
<1>2. ASSUME NEW stored \in Seq(CommitEntries) PROVE [j EXCEPT !.stored = stored] \in GoodJobs
  <2>1. PICK i : i = [j EXCEPT !.stored = stored]
    OBVIOUS
  <2>2. /\ i \in Jobs /\ i.req = j.req /\ i.base = j.base /\ i.fault = j.fault
        /\ i.answers = j.answers /\ i.commits = j.commits /\ i.phase = j.phase
    BY <2>1, JobFields DEF Jobs
  <2>3. Progress(i) /\ Fits(i) /\ Carries(i)
    BY <2>2, Same
  <2> QED BY <2>1, <2>2, <2>3 DEF GoodJobs
<1>3. ASSUME NEW tries \in 0 .. MaxAttempts - 1 PROVE [j EXCEPT !.tries = tries] \in GoodJobs
  <2>1. PICK i : i = [j EXCEPT !.tries = tries]
    OBVIOUS
  <2>2. /\ i \in Jobs /\ i.req = j.req /\ i.base = j.base /\ i.fault = j.fault
        /\ i.answers = j.answers /\ i.commits = j.commits /\ i.phase = j.phase
    BY <2>1, JobFields DEF Jobs
  <2>3. Progress(i) /\ Fits(i) /\ Carries(i)
    BY <2>2, Same
  <2> QED BY <2>1, <2>2, <2>3 DEF GoodJobs
<1> QED BY <1>1, <1>2, <1>3

\* -------------------------------------------------------------------- logs
\* Sums of naturals grow.
LEMMA SumsGrow ==
    ASSUME NEW n \in Nat, NEW s \in [1 .. n -> Nat], NEW f \in [0 .. n -> Nat],
           \A i \in 1 .. n : f[i] = f[i - 1] + s[i], NEW i \in 0 .. n, NEW j \in i .. n
    PROVE  f[i] <= f[j]
<1> DEFINE Bad == {k \in i .. n : ~(f[i] <= f[k])}
<1>1. CASE Bad = {}
  BY <1>1
<1>2. CASE Bad # {}
  <2>1. Bad \in SUBSET Nat
    OBVIOUS
  <2>2. PICK k \in Bad : \A m \in Bad : k <= m
    BY <1>2, <2>1, Smallest
  <2>3. k # i
    BY <2>2
  <2>4. k - 1 \in i .. n /\ k \in 1 .. n /\ ~(k <= k - 1) /\ k - 1 \in 0 .. n /\ k \in 0 .. n
    BY <2>3
  <2>5. f[i] <= f[k - 1]
    BY <2>2, <2>4
  <2>6. f[k] = f[k - 1] + s[k] /\ s[k] \in Nat /\ f[k - 1] \in Nat /\ f[i] \in Nat
    BY <2>4
  <2>7. f[i] <= f[k]
    BY ONLY <2>5, <2>6
  <2> QED BY <2>2, <2>7
<1> QED BY <1>1, <1>2

\* Some positive numbers have a positive sum.
LEMMA PositiveTotal ==
    ASSUME NEW n \in Nat, n # 0, NEW s \in [1 .. n -> Nat \ {0}]
    PROVE  Total(s) \in Nat \ {0}
<1>1. s \in [1 .. n -> Nat]
  OBVIOUS
<1>2. PICK f \in [0 .. n -> Nat] :
          /\ f[0] = 0 /\ \A i \in 1 .. n : f[i] = f[i - 1] + s[i]
          /\ \A m \in 0 .. n : Total([i \in 1 .. m |-> s[i]]) = f[m]
  BY <1>1, Sums
<1>3. n \in 0 .. n /\ [i \in 1 .. n |-> s[i]] = s /\ 1 \in 0 .. n /\ n \in 1 .. n /\ 1 \in 1 .. n
  OBVIOUS
<1>4. f[1] <= f[n]
  BY <1>1, <1>2, <1>3, SumsGrow
<1>5. f[1] = f[0] + s[1] /\ f[0] = 0 /\ s[1] \in Nat \ {0} /\ Total(s) = f[n] /\ f[n] \in Nat
  BY <1>2, <1>3
<1> QED BY <1>4, <1>5

Parts == [count : Nat \ {0}, bytes : Nat \ {0}]

\* Records that decode have at least one batch, and none is empty.
LEMMA DecodedType ==
    ASSUME NEW bs \in Seq([pid : Int \cup {NoProducer}, count : Nat, bytes : Nat \ {0}]),
           DecodeFault(bs) = "none"
    PROVE  Decoded(bs) \in Seq(Parts) /\ Decoded(bs) # <<>>
<1>1. PICK n \in Nat : n = Len(bs)
  OBVIOUS
<1>2. n # 0 /\ DOMAIN bs = 1 .. n /\ \A i \in 1 .. n : bs[i].count \in Nat \ {0} /\ bs[i].bytes \in Nat \ {0}
  <2>1. bs # <<>> /\ \A i \in DOMAIN bs : bs[i].count # 0
    BY DEF DecodeFault
  <2>2. n # 0 /\ DOMAIN bs = 1 .. n
    BY <1>1, <2>1
  <2>3. ASSUME NEW i \in 1 .. n PROVE bs[i].count \in Nat \ {0} /\ bs[i].bytes \in Nat \ {0}
    <3>1. bs[i] \in [pid : Int \cup {NoProducer}, count : Nat, bytes : Nat \ {0}]
      BY <1>1, ElementType
    <3> QED BY <2>1, <2>2, <3>1
  <2> QED BY <2>2, <2>3
<1>3. PICK count : count = [i \in DOMAIN bs |-> bs[i].count]
  OBVIOUS
<1>4. PICK bytes : bytes = [i \in DOMAIN bs |-> bs[i].bytes]
  OBVIOUS
<1>5. count \in [1 .. n -> Nat \ {0}] /\ bytes \in [1 .. n -> Nat \ {0}]
  BY <1>2, <1>3, <1>4
<1>6. Total(count) \in Nat \ {0} /\ Total(bytes) \in Nat \ {0}
  BY <1>2, <1>5, PositiveTotal
<1>7. CASE \A i \in DOMAIN bs : bs[i].pid = NoProducer
  <2>1. Decoded(bs) = <<[count |-> Total(count), bytes |-> Total(bytes)]>>
    BY <1>3, <1>4, <1>7, Zenon DEF Decoded
  <2>2. [count |-> Total(count), bytes |-> Total(bytes)] \in Parts
    BY <1>6 DEF Parts
  <2> QED BY <2>1, <2>2
<1>8. CASE ~\A i \in DOMAIN bs : bs[i].pid = NoProducer
  <2>1. Decoded(bs) = [i \in DOMAIN bs |-> [count |-> bs[i].count, bytes |-> bs[i].bytes]]
    BY <1>8, Zenon DEF Decoded
  <2>2. Decoded(bs) \in [1 .. n -> Parts]
    BY <1>2, <2>1 DEF Parts
  <2>3. Decoded(bs) \in Seq(Parts) /\ Len(Decoded(bs)) = n
    BY <2>2
  <2> QED BY <1>2, <2>3
<1> QED BY <1>7, <1>8

\* No batch of a log ends behind the log's end.
LEMMA BeforeEnd ==
    ASSUME NEW log \in Logs, NEW i \in DOMAIN log.batches
    PROVE  Beyond(log.batches[i]) \in Nat /\ Beyond(log.batches[i]) <= End(log) /\ End(log) \in Nat
<1>1. log.batches \in Seq(Batches)
  BY DEF Logs, Batches
<1>2. PICK n \in Nat : n = Len(log.batches)
  BY <1>1
<1>3. DOMAIN log.batches = 1 .. n /\ n \in 1 .. n /\ log.batches # <<>>
  BY <1>1, <1>2
<1>4. \A k \in 1 .. n : log.batches[k].base \in Nat /\ log.batches[k].count \in Nat
  <2>1. \A k \in 1 .. n : log.batches[k] \in Batches
    BY <1>1, <1>2
  <2> QED BY <2>1 DEF Batches
<1>5. End(log) = Beyond(log.batches[n])
  BY <1>2, <1>3 DEF End
<1>6. \A k \in 1 .. n : Beyond(log.batches[k]) \in Nat /\ log.batches[k].base <= Beyond(log.batches[k])
  BY <1>4 DEF Beyond
<1>7. i < n => Beyond(log.batches[i]) <= log.batches[n].base
  BY <1>3 DEF Logs
<1>8. i < n \/ i = n
  BY <1>3
<1>9. log.batches[n].base \in Nat /\ i \in 1 .. n
  BY <1>3, <1>4
<1> QED BY <1>3, <1>5, <1>6, <1>7, <1>8, <1>9

\* The length of two sequences in a row, and what is at each place.
LEMMA Concatenation ==
    ASSUME NEW S, NEW s \in Seq(S), NEW t \in Seq(S), NEW l \in Nat, NEW m \in Nat,
           l = Len(s), m = Len(t)
    PROVE  /\ s \o t \in Seq(S) /\ Len(s \o t) = l + m
           /\ \A i \in 1 .. l : (s \o t)[i] = s[i]
           /\ \A i \in 1 .. m : (s \o t)[l + i] = t[i]
<1>1. s \o t \in Seq(S) /\ Len(s \o t) = l + m
  OBVIOUS
<1>2. ASSUME NEW i \in 1 .. l PROVE (s \o t)[i] = s[i]
  <2>1. i \in 1 .. l + m
    OBVIOUS
  <2> QED BY <2>1
<1>3. ASSUME NEW i \in 1 .. m PROVE (s \o t)[l + i] = t[i]
  <2>1. l + i \in 1 .. l + m /\ ~(l + i <= l) /\ (l + i) - l = i
    OBVIOUS
  <2> QED BY <2>1
<1> QED BY <1>1, <1>2, <1>3

\* An append keeps a log in order, and moves its end.
LEMMA AppendedType ==
    ASSUME NEW log \in Logs, NEW added \in Seq(Parts), added # <<>>
    PROVE  Appended(log, added) \in Logs
<1>1. PICK m \in Nat : m = Len(added)
  OBVIOUS
<1>2. m # 0 /\ DOMAIN added = 1 .. m
  BY <1>1
<1>3. \A i \in 1 .. m : added[i] \in Parts
  BY <1>1
<1>4. PICK counts : counts = [i \in 1 .. m |-> added[i].count]
  OBVIOUS
<1>5. counts \in [1 .. m -> Nat]
  BY <1>3, <1>4 DEF Parts
<1>6. PICK f \in [0 .. m -> Nat] :
          /\ f[0] = 0 /\ \A i \in 1 .. m : f[i] = f[i - 1] + counts[i]
          /\ \A i \in 0 .. m : Total([j \in 1 .. i |-> counts[j]]) = f[i]
  BY <1>5, Sums
<1>7. PICK e \in Nat : e = End(log)
  <2>1. log.batches \in Seq(Batches)
    BY DEF Logs, Batches
  <2>2. CASE log.batches = <<>>
    BY <2>2 DEF End
  <2>3. CASE log.batches # <<>>
    <3>1. 1 \in DOMAIN log.batches
      BY <2>1, <2>3
    <3> QED BY <3>1, BeforeEnd
  <2> QED BY <2>2, <2>3
<1>8. PICK old : old = log.batches
  OBVIOUS
<1>9. old \in Seq(Batches) /\ log.start \in Nat /\ log.start <= e
  BY <1>7, <1>8 DEF Logs, Batches
<1>10. PICK l \in Nat : l = Len(old)
  BY <1>9
<1>11. PICK new : new = [i \in 1 .. m |-> [base |-> e + f[i - 1], count |-> added[i].count,
                                           bytes |-> added[i].bytes]]
  OBVIOUS
<1>12. ASSUME NEW i \in 1 .. m
       PROVE  /\ new[i].base = e + f[i - 1] /\ Beyond(new[i]) = e + f[i] /\ new[i] \in Batches
              /\ f[i] \in Nat /\ f[i - 1] \in Nat
  <2>1. i \in 0 .. m /\ i - 1 \in 0 .. m
    OBVIOUS
  <2>2. f[i] \in Nat /\ f[i - 1] \in Nat /\ counts[i] = added[i].count /\ f[i] = f[i - 1] + counts[i]
    BY <1>4, <1>6, <2>1
  <2>3. added[i].count \in Nat \ {0} /\ added[i].bytes \in Nat \ {0}
    BY <1>3 DEF Parts
  <2>4. new[i] = [base |-> e + f[i - 1], count |-> added[i].count, bytes |-> added[i].bytes]
    BY <1>11
  <2>5. e + f[i - 1] \in Nat
    BY <2>2
  <2>6. PICK b \in Nat, n \in Nat \ {0}, z \in Nat \ {0} :
          b = e + f[i - 1] /\ n = added[i].count /\ z = added[i].bytes
    BY <2>3, <2>5
  <2>7. new[i] = [base |-> b, count |-> n, bytes |-> z]
    BY <2>4, <2>6
  <2>8. new[i] \in Batches
    BY ONLY <2>7, b \in Nat, n \in Nat \ {0}, z \in Nat \ {0} DEF Batches
  <2>9. Beyond(new[i]) = b + n /\ new[i].base = b
    BY ONLY <2>7 DEF Beyond
  <2>10. b + n = e + f[i]
    <3>1. PICK x \in Nat, y \in Nat : x = f[i - 1] /\ y = f[i]
      BY <2>2
    <3>2. y = x + n /\ b = e + x
      BY <2>2, <2>6, <3>1
    <3>3. b + n = e + y
      BY ONLY <3>2, e \in Nat, n \in Nat, x \in Nat, y \in Nat
    <3> QED BY <3>1, <3>3
  <2> QED BY <2>2, <2>6, <2>8, <2>9, <2>10
<1>13. new \in Seq(Batches) /\ Len(new) = m
  <2>1. new \in [1 .. m -> Batches]
    BY <1>11, <1>12
  <2> QED BY <2>1
<1>14. PICK all : all = old \o new
  OBVIOUS
<1>15. /\ all \in Seq(Batches) /\ Len(all) = l + m
       /\ \A i \in 1 .. l : all[i] = old[i]
       /\ \A i \in 1 .. m : all[l + i] = new[i]
  <2>1. /\ old \o new \in Seq(Batches) /\ Len(old \o new) = l + m
        /\ \A i \in 1 .. l : (old \o new)[i] = old[i]
        /\ \A i \in 1 .. m : (old \o new)[l + i] = new[i]
    <3>1. old \in Seq(Batches) /\ new \in Seq(Batches) /\ l \in Nat /\ m \in Nat
          /\ l = Len(old) /\ m = Len(new)
      BY <1>9, <1>10, <1>13
    <3> HIDE DEF Batches
    <3> QED BY ONLY <3>1, Concatenation
  <2> QED BY ONLY <1>14, <2>1, Zenon
<1>16. PICK log2 : log2 = [log EXCEPT !.batches = all]
  OBVIOUS
<1>17. Appended(log, added) = log2
  <2>1. ASSUME NEW i \in 1 .. m
        PROVE  Total([j \in 1 .. i - 1 |-> added[j].count]) = f[i - 1]
    <3>1. i - 1 \in 0 .. m /\ \A j \in 1 .. i - 1 : j \in 1 .. m
      OBVIOUS
    <3>2. [j \in 1 .. i - 1 |-> added[j].count] = [j \in 1 .. i - 1 |-> counts[j]]
      BY <1>4, <3>1
    <3> QED BY <1>6, <3>1, <3>2
  <2>2. [i \in DOMAIN added |->
            [base |-> End(log) + Total([j \in 1 .. i - 1 |-> added[j].count]),
             count |-> added[i].count, bytes |-> added[i].bytes]] = new
    BY <1>2, <1>7, <1>11, <2>1
  <2> QED BY <1>8, <1>14, <1>16, <2>2, Zenon DEF Appended
<1>18. log2.start = log.start /\ log2.batches = all
       /\ log2 \in [start : Nat, batches : Seq([base : Nat, count : Nat \ {0}, bytes : Nat \ {0}])]
  BY <1>9, <1>15, <1>16 DEF Logs, Batches
<1>19. \A i \in 1 .. m : e + f[i] >= e
  BY <1>12
<1>20. log2.start <= End(log2)
  <2>1. m \in 1 .. m /\ all # <<>> /\ l + m \in Nat
    BY <1>2, <1>15
  <2>2. End(log2) = Beyond(new[m])
    BY <1>15, <1>18, <2>1 DEF End
  <2>3. End(log2) = e + f[m] /\ f[m] \in Nat
    BY <1>12, <2>1, <2>2
  <2> QED BY <1>9, <1>18, <2>3
<1>21. ASSUME NEW i \in 1 .. l + m, NEW j \in 1 .. l + m, i < j
       PROVE  Beyond(all[i]) <= all[j].base
  <2>1. CASE j \in 1 .. l
    <3>1. i \in 1 .. l /\ DOMAIN log.batches = 1 .. l
      BY <1>8, <1>9, <1>10, <1>21, <2>1
    <3>2. Beyond(old[i]) <= old[j].base
      BY <1>8, <1>21, <2>1, <3>1 DEF Logs
    <3> QED BY <1>15, <2>1, <3>1, <3>2
  <2>2. CASE j \notin 1 .. l
    <3>1. PICK q \in 1 .. m : j = l + q
      <4>1. j - l \in 1 .. m /\ j = l + (j - l)
        BY <2>2
      <4> QED BY <4>1
    <3>2. all[j].base = e + f[q - 1] /\ f[q - 1] \in Nat
      BY <1>12, <1>15, <3>1
    <3>3. CASE i \in 1 .. l
      <4>1. i \in DOMAIN log.batches
        BY <1>8, <1>9, <1>10, <3>3
      <4>2. Beyond(old[i]) <= e /\ Beyond(old[i]) \in Nat
        BY <1>7, <1>8, <4>1, BeforeEnd
      <4> QED BY <1>15, <3>2, <3>3, <4>2
    <3>4. CASE i \notin 1 .. l
      <4>1. PICK p \in 1 .. m : i = l + p
        <5>1. i - l \in 1 .. m /\ i = l + (i - l)
          BY <3>4
        <5> QED BY <5>1
      <4>2. Beyond(all[i]) = e + f[p] /\ f[p] \in Nat
        BY <1>12, <1>15, <4>1
      <4>3. p \in 0 .. m /\ q - 1 \in p .. m
        BY <1>21, <3>1, <4>1
      <4>4. f[p] <= f[q - 1]
        BY <1>5, <1>6, <4>3, SumsGrow
      <4>5. PICK x \in Nat, y \in Nat : x = f[p] /\ y = f[q - 1]
        BY <3>2, <4>2
      <4>6. e + x <= e + y
        BY ONLY <4>4, <4>5, e \in Nat
      <4> QED BY <3>2, <4>2, <4>5, <4>6
    <3> QED BY <3>3, <3>4
  <2> QED BY <2>1, <2>2
<1>22. DOMAIN all = 1 .. l + m
  BY <1>15
<1> QED BY ONLY <1>17, <1>18, <1>20, <1>21, <1>22 DEF Logs

\* A log that retention cuts at the end of a batch is a log.
LEMMA TrimmedType ==
    ASSUME NEW log \in Logs, NEW i \in DOMAIN log.batches
    PROVE  [log EXCEPT !.start = Beyond(log.batches[i])] \in Logs
<1>1. Beyond(log.batches[i]) \in Nat /\ Beyond(log.batches[i]) <= End(log)
  BY BeforeEnd
<1>2. PICK b \in Nat : b = Beyond(log.batches[i])
  BY <1>1
<1>3. PICK cut : cut = [log EXCEPT !.start = b]
  OBVIOUS
<1>4. cut.start = b /\ cut.batches = log.batches
      /\ cut \in [start : Nat, batches : Seq([base : Nat, count : Nat \ {0}, bytes : Nat \ {0}])]
  BY <1>3 DEF Logs
<1>5. End(cut) = End(log)
  BY <1>4 DEF End
<1> QED BY <1>1, <1>2, <1>3, <1>4, <1>5 DEF Logs

\* ------------------------------------------------------------------- steps
\* A key that Produce may write is a partition.
LEMMA WritableKeys ==
    ASSUME StoreInv, NEW k \in Names, Unwritable(k) = "none"
    PROVE  k \in Keys /\ k[1] \in Topics /\ Ensured(k[1]) \in 0 .. MaxTopicPartitions
<1>1. k = <<k[1], k[2]>> /\ k[1] \in Topics /\ k[2] \in 0 .. Ensured(k[1]) - 1
  BY DEF Names, Unwritable
<1>2. Ensured(k[1]) \in 0 .. MaxTopicPartitions
  BY <1>1, HandlersAssumption DEF Ensured, StoreInv
<1>3. k[2] \in 0 .. MaxTopicPartitions - 1
  BY <1>1, <1>2, GroupOffsetsAssumption
<1> QED BY <1>1, <1>2, <1>3 DEF Keys

\* Creating a topic keeps the types of the stores.
LEMMA CreatesType ==
    ASSUME StoreInv, NEW t \in Topics, NEW n \in 0 .. MaxTopicPartitions, Creates(t, n)
    PROVE  StoreInv'
  BY DEF StoreInv, Creates

\* Appending records keeps the types of the stores.
LEMMA AppendsType ==
    ASSUME StoreInv, NEW item, item.key \in Names, Unwritable(item.key) = "none",
           item.batches \in Seq([pid : Int \cup {NoProducer}, count : Nat, bytes : Nat \ {0}]),
           DecodeFault(item.batches) = "none", Appends(item)
    PROVE  StoreInv'
<1>1. item.key \in Keys /\ item.key[1] \in Topics /\ Ensured(item.key[1]) \in 0 .. MaxTopicPartitions
  BY WritableKeys
<1>2. Decoded(item.batches) \in Seq(Parts) /\ Decoded(item.batches) # <<>>
  BY DecodedType
<1>3. logs[item.key] \in Logs
  BY <1>1, Known
<1>4. Appended(logs[item.key], Decoded(item.batches)) \in Logs
  BY <1>2, <1>3, AppendedType
<1>5. topics' \in [Topics -> 0 .. MaxTopicPartitions] /\ logs' \in [Keys -> Logs]
  BY <1>1, <1>4 DEF Appends, StoreInv
<1> QED BY <1>5 DEF StoreInv, Appends

\* What MetadataItem answers.
LEMMA MetadataType ==
    ASSUME StoreInv, NEW req, NEW t
    PROVE  /\ MetadataItem(req, t) \in [code : Codes, count : Nat]
           /\ MetadataItem(req, t).code = "none"
                  => t \in Topics /\ MetadataItem(req, t).count \in 0 .. MaxTopicPartitions
<1>1. CASE t \notin Topics
  BY <1>1 DEF MetadataItem, Codes
<1>2. CASE t \in Topics /\ topics[t] # 0
  <2>1. topics[t] \in 0 .. MaxTopicPartitions
    BY <1>2 DEF StoreInv
  <2> QED BY <1>2, <2>1, GroupOffsetsAssumption DEF MetadataItem, Codes
<1>3. CASE t \in Topics /\ topics[t] = 0
  BY <1>3, HandlersAssumption DEF MetadataItem, Codes
<1> QED BY <1>1, <1>2, <1>3

\* What is known of a busy connection.
LEMMA Busy ==
    ASSUME BrokerInv, NEW c \in Conns
    PROVE  /\ DOMAIN job = Conns
           /\ job[c] # Idle => job[c] \in GoodJobs
           /\ \A j \in GoodJobs : j # Idle
  BY IdleIsNoJob DEF BrokerInv, JobsInv, GoodJobs

\* The slot stays with whoever holds it.
LEMMA LockKept ==
    ASSUME BrokerInv, NEW c \in Conns, NEW next, job' = [job EXCEPT ![c] = next], lock' = lock,
           \/ ~Asking(c, "OffsetCommit", "load") /\ ~Asking(c, "OffsetCommit", "put")
           \/ next # Idle /\ next.req.api = "OffsetCommit" /\ next.phase \in {"load", "put"}
    PROVE  LockInv'
<1>1. DOMAIN job = Conns
  BY Busy
<1>2. \A d \in Conns : d # c => job'[d] = job[d]
  BY <1>1
<1>3. job'[c] = next
  BY <1>1
<1>4. ASSUME NEW b \in Brokers, lock'[b] # Nobody
      PROVE  /\ lock'[b] \in Conns /\ BrokerOf[lock'[b]] = b
             /\ Asking(lock[b], "OffsetCommit", "load")' \/ Asking(lock[b], "OffsetCommit", "put")'
  <2>1. /\ lock[b] \in Conns /\ BrokerOf[lock[b]] = b
        /\ Asking(lock[b], "OffsetCommit", "load") \/ Asking(lock[b], "OffsetCommit", "put")
    BY <1>4 DEF BrokerInv, LockInv
  <2>2. CASE lock[b] = c
    BY <1>3, <2>1, <2>2 DEF Asking
  <2>3. CASE lock[b] # c
    BY <1>2, <2>1, <2>3 DEF Asking
  <2> QED BY <2>1, <2>2, <2>3
<1> QED BY <1>4 DEF BrokerInv, LockInv, Asking

\* A handler that gives the slot back leaves it consistent.
LEMMA LockFreed ==
    ASSUME BrokerInv, NEW c \in Conns, NEW next, job' = [job EXCEPT ![c] = next], lock' = Unlocked(c)
    PROVE  LockInv'
<1>1. DOMAIN job = Conns
  BY Busy
<1>2. \A d \in Conns : d # c => job'[d] = job[d]
  BY <1>1
<1>3. ASSUME NEW b \in Brokers, lock'[b] # Nobody
      PROVE  /\ lock'[b] = lock[b] /\ lock[b] \in Conns /\ lock[b] # c /\ BrokerOf[lock[b]] = b
             /\ Asking(lock[b], "OffsetCommit", "load")' \/ Asking(lock[b], "OffsetCommit", "put")'
  <2>1. lock'[b] = lock[b] /\ lock[b] # c
    BY <1>3 DEF Unlocked
  <2>2. /\ lock[b] \in Conns /\ BrokerOf[lock[b]] = b
        /\ Asking(lock[b], "OffsetCommit", "load") \/ Asking(lock[b], "OffsetCommit", "put")
    BY <1>3, <2>1 DEF BrokerInv, LockInv
  <2> QED BY <1>2, <2>1, <2>2 DEF Asking
<1> QED BY <1>3 DEF Unlocked, LockInv, Asking

\* A step of a handler that leaves the clients and the late writes alone.
LEMMA HandlerStep ==
    ASSUME BrokerInv, NEW c \in Conns, NEW next \in GoodJobs, job' = [job EXCEPT ![c] = next],
           client' = client, late' = late, StoreInv', LockInv'
    PROVE  BrokerInv'
<1>1. JobsInv'
  BY DEF BrokerInv, JobsInv
<1>2. \A d \in Conns : job[d] # Idle => job'[d] # Idle
  BY Busy
<1>3. ClientsInv'
  <2>1. ASSUME NEW k \in Clients, client[k].waiting PROVE job'[client[k].at] # Idle
    <3>1. client[k].at \in Conns /\ job[client[k].at] # Idle
      BY <2>1, BrokerAssumption DEF BrokerInv, ClientsInv, GoodClients
    <3> QED BY <1>2, <3>1
  <2> QED BY <2>1 DEF BrokerInv, ClientsInv
<1>4. LateInv'
  BY DEF BrokerInv, LateInv
<1> QED BY <1>1, <1>3, <1>4 DEF BrokerInv

\* An item of a handler is answered.
LEMMA ItemStep ==
    ASSUME BrokerInv, NEW c \in Conns, job[c] # Idle, job[c].phase = "items", NEW a \in Answers,
           job[c].req.api = "Fetch" => a \in FetchAnswers,
           job[c].req.api = "ListOffsets" => a \in OffsetsTold
    PROVE  /\ With(c, a) \in GoodJobs
           /\ At(c) = job[c].req.items[Len(job[c].answers) + 1]
           /\ Len(job[c].answers) + 1 \in 1 .. Len(job[c].req.items)
<1>1. job[c] \in GoodJobs
  BY Busy
<1>2. PICK j \in GoodJobs : j = job[c]
  BY <1>1
<1>3. PICK next : next = With(c, a)
  OBVIOUS
<1>4. next = [j EXCEPT !.answers = Append(@, a), !.phase = Following(j.req, Len(j.answers) + 1)]
  BY <1>2, <1>3 DEF With
<1>5. next \in GoodJobs
  BY <1>2, <1>4, Answering
<1>6. PICK n \in Nat : n = Len(j.req.items)
  BY JobFields, ItemsAreSequences
<1>7. PICK l \in Nat : l = Len(j.answers)
  BY JobFields
<1>8. l < n
  BY <1>2, <1>6, <1>7, JobFields DEF Progress
<1>9. l + 1 \in 1 .. n
  BY <1>8
<1> QED BY <1>2, <1>3, <1>5, <1>6, <1>7, <1>9 DEF At

\* The item a handler is at is one of its request.
LEMMA ItemAt ==
    ASSUME BrokerInv, NEW c \in Conns, job[c] # Idle, job[c].phase = "items"
    PROVE  /\ job[c].req.api = "Fetch" =>
                  job[c].req \in FetchRequests /\ At(c) \in [key : Names, from : Int, max : Int]
           /\ job[c].req.api = "ListOffsets" => At(c) \in [key : Names, timestamp : Int]
           /\ job[c].req.api = "OffsetCommit" => At(c) \in CommitEntries
           /\ job[c].req.api = "OffsetFetch" => At(c) \in [key : Names]
           /\ job[c].req.api = "Produce" =>
                  At(c) \in [key : Names,
                             batches : Seq([pid : Int \cup {NoProducer}, count : Nat, bytes : Nat \ {0}])]
<1>1. job[c] \in GoodJobs
  BY Busy
<1>2. PICK j \in GoodJobs : j = job[c]
  BY <1>1
<1>3. PICK n \in Nat : n = Len(j.req.items)
  BY JobFields, ItemsAreSequences
<1>4. PICK l \in Nat : l = Len(j.answers)
  BY JobFields
<1>5. l + 1 \in 1 .. n /\ j.req \in Requests
  BY <1>2, <1>3, <1>4, JobFields DEF Progress
<1>6. PICK x : x = j.req.items[l + 1]
  OBVIOUS
<1>7. At(c) = x
  BY <1>2, <1>4, <1>6 DEF At
<1>8. j.req.api = "Fetch" => j.req \in FetchRequests /\ x \in [key : Names, from : Int, max : Int]
  <2>1. j.req.api = "Fetch" => j.req \in FetchRequests
    BY <1>5, Kinds
  <2>2. j.req \in FetchRequests => j.req.items \in Seq([key : Names, from : Int, max : Int])
    BY DEF FetchRequests
  <2> QED BY <1>3, <1>5, <1>6, <2>1, <2>2, ElementType
<1>9. j.req.api = "ListOffsets" => x \in [key : Names, timestamp : Int]
  <2>1. j.req.api = "ListOffsets" => j.req \in ListRequests
    BY <1>5, Kinds
  <2>2. j.req \in ListRequests => j.req.items \in Seq([key : Names, timestamp : Int])
    BY DEF ListRequests
  <2> QED BY <1>3, <1>5, <1>6, <2>1, <2>2, ElementType
<1>10. j.req.api = "OffsetCommit" => x \in CommitEntries
  <2>1. j.req.api = "OffsetCommit" => j.req \in CommitRequests
    BY <1>5, Kinds
  <2>2. j.req \in CommitRequests => j.req.items \in Seq(CommitEntries)
    BY DEF CommitRequests
  <2> QED BY <1>3, <1>5, <1>6, <2>1, <2>2, ElementType
<1>11. j.req.api = "OffsetFetch" => x \in [key : Names]
  <2>1. j.req.api = "OffsetFetch" => j.req \in OffsetRequests
    BY <1>5, Kinds
  <2>2. j.req \in OffsetRequests => j.req.items \in Seq([key : Names])
    BY DEF OffsetRequests
  <2> QED BY <1>3, <1>5, <1>6, <2>1, <2>2, ElementType
<1>12. j.req.api = "Produce" =>
           x \in [key : Names,
                  batches : Seq([pid : Int \cup {NoProducer}, count : Nat, bytes : Nat \ {0}])]
  <2>1. j.req.api = "Produce" => j.req \in ProduceRequests
    BY <1>5, Kinds
  <2>2. j.req \in ProduceRequests =>
            j.req.items \in Seq([key : Names,
                batches : Seq([pid : Int \cup {NoProducer}, count : Nat, bytes : Nat \ {0}])])
    BY DEF ProduceRequests
  <2> QED BY <1>3, <1>5, <1>6, <2>1, <2>2, ElementType
<1> QED BY <1>2, <1>7, <1>8, <1>9, <1>10, <1>11, <1>12

\* A handler that answers an item does not hold the slot.
LEMMA KeepLock ==
    ASSUME BrokerInv, NEW c \in Conns, job[c].phase = "items", NEW next, job' = [job EXCEPT ![c] = next],
           lock' = lock
    PROVE  LockInv'
  BY LockKept DEF Asking

\* One lemma for each step of a handler: it keeps the inductive invariant.
LEMMA ServeFetchType ==
    ASSUME BrokerInv, NEW c \in Conns, ServeFetch(c)
    PROVE  BrokerInv'
<1>1. job[c] # Idle /\ job[c].req.api = "Fetch" /\ job[c].phase = "items"
      /\ topics' = topics /\ logs' = logs /\ offsets' = offsets /\ counter' = counter
      /\ lock' = lock /\ late' = late /\ client' = client
  BY DEF ServeFetch, Asking, store, Keep
<1>2. PICK item, limit, bs, a :
          /\ item = At(c) /\ limit = FetchLimit(item, job[c].left)
          /\ bs = Eligible(logs[item.key], item.from)
          /\ a = FetchItem(job[c].req, item, bs, limit, job[c].first)
          /\ job' = [job EXCEPT ![c] = [With(c, a) EXCEPT !.left = Saturating(@ - a.bytes),
                                                          !.first = StillFirst(@, a)]]
  BY Zenon DEF ServeFetch
<1>3. job[c].req \in FetchRequests /\ item \in [key : Names, from : Int, max : Int]
  BY <1>1, <1>2, ItemAt
<1>4. job[c].left \in 0 .. MaxPayload /\ job[c].left \in Nat /\ job[c].first \in BOOLEAN
  BY <1>1, Busy, JobFields, HandlersAssumption
<1>5. a \in FetchAnswers
  BY <1>2, <1>3, <1>4, FetchAnswerType DEF BrokerInv
<1>6. a \in Answers
  BY <1>5 DEF Answers
<1>7. With(c, a) \in GoodJobs
  BY <1>1, <1>5, <1>6, ItemStep
<1>8. PICK w \in GoodJobs : w = With(c, a)
  BY <1>7
<1>9. w.left = job[c].left /\ w.first = job[c].first
  <2>1. job[c] \in Jobs
    BY <1>1, Busy, JobFields
  <2> QED BY <1>8, <2>1 DEF With, Jobs
<1>10. a.bytes \in Nat
  BY <1>5 DEF FetchAnswers
<1>11. Saturating(w.left - a.bytes) \in 0 .. MaxPayload /\ StillFirst(w.first, a) \in BOOLEAN
  BY <1>4, <1>9, <1>10, HandlersAssumption DEF Saturating, StillFirst
<1>12. PICK left \in 0 .. MaxPayload : left = Saturating(w.left - a.bytes)
  BY <1>11
<1>13. PICK first \in BOOLEAN : first = StillFirst(w.first, a)
  BY <1>11
<1>14. PICK next : next = [w EXCEPT !.left = left, !.first = first]
  OBVIOUS
<1>15. next \in GoodJobs /\ job' = [job EXCEPT ![c] = next]
  <2>1. next \in GoodJobs
    BY <1>14, Beside
  <2>2. [w EXCEPT !.left = Saturating(@ - a.bytes), !.first = StillFirst(@, a)]
        = [w EXCEPT !.left = Saturating(w.left - a.bytes), !.first = StillFirst(w.first, a)]
    BY <1>8, JobFields DEF Jobs
  <2>3. next = [With(c, a) EXCEPT !.left = Saturating(@ - a.bytes), !.first = StillFirst(@, a)]
    BY ONLY <1>8, <1>12, <1>13, <1>14, <2>2
  <2> QED BY ONLY <1>2, <2>1, <2>3
<1>16. StoreInv' /\ LockInv'
  BY <1>1, <1>15, KeepLock DEF BrokerInv, StoreInv
<1> QED BY <1>1, <1>15, <1>16, HandlerStep

\* ListOffsets answers one partition and keeps the invariant.
LEMMA ServeListType ==
    ASSUME BrokerInv, NEW c \in Conns, ServeListOffsets(c)
    PROVE  BrokerInv'
<1>1. job[c] # Idle /\ job[c].req.api = "ListOffsets" /\ job[c].phase = "items"
      /\ topics' = topics /\ logs' = logs /\ offsets' = offsets /\ counter' = counter
      /\ lock' = lock /\ late' = late /\ client' = client
      /\ job' = [job EXCEPT ![c] = With(c, ListItem(job[c].req, At(c)))]
  BY DEF ServeListOffsets, Asking, store, Keep
<1>2. ListItem(job[c].req, At(c)) \in OffsetsTold
  BY <1>1, ItemAt, ListAnswerType DEF BrokerInv
<1>3. With(c, ListItem(job[c].req, At(c))) \in GoodJobs
  BY <1>1, <1>2, ItemStep DEF Answers
<1>4. StoreInv' /\ LockInv'
  BY <1>1, KeepLock DEF BrokerInv, StoreInv
<1> QED BY <1>1, <1>3, <1>4, HandlerStep

\* A commit or an offset fetch checks the topic of one item.
LEMMA CheckTopicType ==
    ASSUME BrokerInv, NEW c \in Conns, CheckTopic(c)
    PROVE  BrokerInv'
<1>1. /\ topics' = topics /\ logs' = logs /\ offsets' = offsets /\ counter' = counter
      /\ lock' = lock /\ late' = late /\ client' = client
  BY DEF CheckTopic, store, Keep
<1>2. PICK code :
          /\ job[c] # Idle /\ job[c].req.api \in {"OffsetCommit", "OffsetFetch"}
          /\ job[c].phase = "items" /\ code \in {TopicCheck(At(c).key), SelectionCheck(At(c).key)}
          /\ job' = [job EXCEPT ![c] = With(c, [code |-> code])]
  BY DEF CheckTopic, Asking
<1>3. At(c).key \in Names
  BY <1>2, ItemAt DEF CommitEntries
<1>4. code \in Codes
  BY <1>2, <1>3, CheckType DEF BrokerInv
<1>5. [code |-> code] \in Answers
  BY <1>4 DEF Answers, Checks
<1>6. With(c, [code |-> code]) \in GoodJobs
  BY <1>2, <1>5, ItemStep
<1>7. StoreInv' /\ LockInv'
  BY <1>1, <1>2, KeepLock DEF BrokerInv, StoreInv
<1> QED BY <1>1, <1>2, <1>6, <1>7, HandlerStep

\* The fault of an item of Produce is a code.
LEMMA ProduceFaultType ==
    ASSUME StoreInv, NEW req,
           NEW item \in [key : Names,
                         batches : Seq([pid : Int \cup {NoProducer}, count : Nat, bytes : Nat \ {0}])]
    PROVE  /\ ProduceFault(req, item) \in Codes
           /\ ProduceFault(req, item) = "none" => DecodeFault(item.batches) = "none"
           /\ Unwritable(item.key) \in {"none", "InvalidTopic", "UnsupportedPartition"}
  BY DEF ProduceFault, DecodeFault, Unwritable, Codes

\* Produce appends to one partition, or answers its error.
LEMMA ServeProduceType ==
    ASSUME BrokerInv, NEW c \in Conns, ServeProduce(c)
    PROVE  BrokerInv'
<1>1. job[c] # Idle /\ job[c].req.api = "Produce" /\ job[c].phase = "items"
      /\ lock' = lock /\ late' = late /\ client' = client
  BY DEF ServeProduce, Asking, Keep
<1>2. PICK item : item = At(c)
  OBVIOUS
<1>3. item \in [key : Names,
                batches : Seq([pid : Int \cup {NoProducer}, count : Nat, bytes : Nat \ {0}])]
      /\ StoreInv
  BY <1>1, <1>2, ItemAt DEF BrokerInv
<1>4. PICK fault :
          /\ fault = IF ProduceFault(job[c].req, item) # "none" THEN ProduceFault(job[c].req, item)
                     ELSE IF Unwritable(item.key) # "none" THEN LogErrorCode[Unwritable(item.key)]
                     ELSE "none"
          /\ \/ /\ fault # "none"
                /\ job' = [job EXCEPT ![c] = With(c, [code |-> fault, base |-> -1])]
                /\ UNCHANGED store
             \/ /\ fault = "none" /\ Appends(item)
                /\ job' = [job EXCEPT ![c] = With(c, [code |-> "none", base |-> End(logs[item.key])])]
  BY <1>2 DEF ServeProduce
<1>5. ProduceFault(job[c].req, item) \in Codes
      /\ (ProduceFault(job[c].req, item) = "none" => DecodeFault(item.batches) = "none")
      /\ Unwritable(item.key) \in {"none", "InvalidTopic", "UnsupportedPartition"}
  BY <1>3, ProduceFaultType
<1>6. CASE fault # "none" /\ job' = [job EXCEPT ![c] = With(c, [code |-> fault, base |-> -1])]
           /\ UNCHANGED store
  <2>1. fault \in Codes
    BY <1>4, <1>5, ErrorCodes DEF Codes
  <2>2. [code |-> fault, base |-> -1] \in Answers
    BY <2>1 DEF Answers
  <2>3. With(c, [code |-> fault, base |-> -1]) \in GoodJobs
    BY <1>1, <2>2, ItemStep
  <2>4. StoreInv' /\ LockInv'
    BY <1>1, <1>3, <1>6, KeepLock DEF StoreInv, store
  <2> QED BY <1>1, <1>6, <2>3, <2>4, HandlerStep
<1>7. CASE fault = "none" /\ Appends(item)
           /\ job' = [job EXCEPT ![c] = With(c, [code |-> "none", base |-> End(logs[item.key])])]
  <2>1. DecodeFault(item.batches) = "none" /\ Unwritable(item.key) = "none"
    BY <1>4, <1>5, <1>7, ErrorCodes
  <2>2. StoreInv'
    BY <1>3, <1>7, <2>1, AppendsType
  <2>3. item.key \in Keys
    BY <1>3, <2>1, WritableKeys
  <2>4. End(logs[item.key]) \in Int /\ "none" \in Codes
    BY <1>3, <2>3, Known DEF Codes
  <2>5. [code |-> "none", base |-> End(logs[item.key])] \in Answers
    BY <2>4 DEF Answers
  <2>6. With(c, [code |-> "none", base |-> End(logs[item.key])]) \in GoodJobs
    BY <1>1, <2>5, ItemStep
  <2>7. LockInv'
    BY <1>1, <1>7, KeepLock
  <2> QED BY <1>1, <1>7, <2>2, <2>6, <2>7, HandlerStep
<1> QED BY <1>4, <1>6, <1>7

\* Metadata describes one topic, and may create it.
LEMMA ServeMetadataType ==
    ASSUME BrokerInv, NEW c \in Conns, ServeMetadata(c)
    PROVE  BrokerInv'
<1>1. job[c] # Idle /\ job[c].req.api = "Metadata" /\ job[c].phase = "items"
      /\ lock' = lock /\ late' = late /\ client' = client
  BY DEF ServeMetadata, Asking, Keep
<1>2. PICK t, a :
          /\ a = MetadataItem(job[c].req, t)
          /\ job' = [job EXCEPT ![c] = With(c, a)]
          /\ IF a.code = "none" THEN Creates(t, a.count) ELSE UNCHANGED store
  BY Zenon DEF ServeMetadata
<1>3. /\ a \in [code : Codes, count : Nat]
      /\ a.code = "none" => t \in Topics /\ a.count \in 0 .. MaxTopicPartitions
  BY <1>2, MetadataType DEF BrokerInv
<1>4. With(c, a) \in GoodJobs
  BY <1>1, <1>3, ItemStep DEF Answers
<1>5. StoreInv'
  <2>1. CASE a.code = "none"
    BY <1>2, <1>3, <2>1, CreatesType DEF BrokerInv
  <2>2. CASE a.code # "none"
    BY <1>2, <2>2 DEF BrokerInv, StoreInv, store
  <2> QED BY <2>1, <2>2
<1>6. LockInv'
  BY <1>1, <1>2, KeepLock
<1> QED BY <1>1, <1>2, <1>4, <1>5, <1>6, HandlerStep

\* Finished changes one connection.
LEMMA FinishedIs ==
    ASSUME BrokerInv, NEW c \in Conns, job[c] # Idle, NEW f
    PROVE  Finished(c, f) =
               [job EXCEPT ![c] = [job[c] EXCEPT !.phase = "reply", !.fault = f,
                                                 !.answers = Response(job[c], f, offsets)]]
  BY Busy, Zenon DEF Finished

\* A sequence over a set is one over every larger set.
LEMMA SeqWidens ==
    ASSUME NEW S, NEW T, S \subseteq T, NEW s \in Seq(S)
    PROVE  s \in Seq(T)
<1>1. PICK n \in Nat : n = Len(s)
  OBVIOUS
<1>2. s \in [1 .. n -> S]
  BY <1>1
<1>3. s \in [1 .. n -> T]
  BY <1>2
<1> QED BY <1>3

\* A sequence of a finite set's elements.
LEMMA SetToSeqType ==
    ASSUME NEW S, IsFiniteSet(S)
    PROVE  SetToSeq(S) \in Seq(S)
<1>1. PICK n \in Nat : n = Cardinality(S)
  BY FS_CardinalityType
<1>2. ExistsBijection(1 .. n, S)
  BY <1>1, FS_CardinalityType
<1>3. \E f \in [1 .. n -> S] : IsInjective(f)
  BY <1>2, Zenon DEF ExistsBijection, Bijection, Injection
<1>4. SetToSeq(S) \in [1 .. n -> S]
  BY <1>1, <1>3, Zenon DEF SetToSeq
<1> QED BY <1>4

\* Metadata without a list of topics first lists those that exist.
LEMMA ListTopicsType ==
    ASSUME BrokerInv, NEW c \in Conns, ListTopics(c)
    PROVE  BrokerInv'
<1>1. job[c] # Idle /\ job[c].req.api = "Metadata" /\ job[c].phase = "load"
      /\ topics' = topics /\ logs' = logs /\ offsets' = offsets /\ counter' = counter
      /\ lock' = lock /\ late' = late /\ client' = client
  BY DEF ListTopics, Asking, store, Keep
<1>2. PICK j \in GoodJobs : j = job[c]
  BY <1>1, Busy
<1>3. PICK req : req = [j.req EXCEPT !.items = SetToSeq(Requested(j.req))]
  OBVIOUS
<1>4. PICK next : next = [j EXCEPT !.req = req, !.phase = Following(req, 0)]
  OBVIOUS
<1>5. job' = [job EXCEPT ![c] = next]
  BY <1>2, <1>3, <1>4, Zenon DEF ListTopics
<1>6. j.req \in MetadataRequests /\ j.req.all /\ j.answers = <<>>
  BY <1>1, <1>2, JobFields, Kinds DEF Progress
<1>7. SetToSeq(Requested(j.req)) \in Seq(STRING)
  <2>1. PICK S : S = Requested(j.req)
    OBVIOUS
  <2>2. S \subseteq Topics /\ S \subseteq STRING
    BY <1>6, <2>1, GroupOffsetsAssumption DEF Requested
  <2>3. IsFiniteSet(S)
    BY <2>2, GroupOffsetsAssumption, FS_Subset
  <2>4. SetToSeq(S) \in Seq(S)
    BY <2>3, SetToSeqType
  <2>5. SetToSeq(S) \in Seq(STRING)
    BY ONLY <2>2, <2>4, SeqWidens
  <2> QED BY <2>1, <2>5
<1>8. PICK list \in Seq(STRING) : list = SetToSeq(Requested(j.req))
  BY <1>7
<1>9. req \in MetadataRequests /\ req.api = "Metadata" /\ req.items = list /\ req \in Requests
  <2>1. req = [j.req EXCEPT !.items = list]
    BY <1>3, <1>8
  <2>2. req \in MetadataRequests
    BY ONLY <1>6, <2>1, list \in Seq(STRING) DEF MetadataRequests
  <2> QED BY <1>6, <2>1, <2>2 DEF MetadataRequests, Requests
<1>10. PICK n \in Nat : n = Len(list)
  OBVIOUS
<1>11. PICK p : p = Following(req, 0)
  OBVIOUS
<1>12. p = (IF 0 < n THEN "items" ELSE "reply")
  BY <1>9, <1>10, <1>11 DEF Following
<1>13. /\ next.req = req /\ next.base = j.base /\ next.fault = j.fault /\ next.answers = <<>>
       /\ next.phase = p /\ next \in Jobs
  BY <1>4, <1>6, <1>9, <1>11, <1>12, JobFields DEF Jobs, Phases
<1>14. Len(<<>>) = 0 /\ (n = 0 \/ 0 < n)
  OBVIOUS
<1>15. Progress(next)
  BY ONLY <1>9, <1>10, <1>12, <1>13, <1>14 DEF Progress
<1>16. Fits(next) /\ Carries(next)
  BY ONLY <1>9, <1>12, <1>13 DEF Fits, Carries
<1>17. next \in GoodJobs
  BY <1>13, <1>15, <1>16 DEF GoodJobs
<1>18. StoreInv'
  BY <1>1 DEF BrokerInv, StoreInv
<1>19. LockInv'
  BY <1>1, <1>5, LockKept DEF Asking
<1> QED BY <1>1, <1>5, <1>17, <1>18, <1>19, HandlerStep

\* The allocator of producer ids reads its counter.
LEMMA LoadCounterType ==
    ASSUME BrokerInv, NEW c \in Conns, LoadCounter(c)
    PROVE  BrokerInv'
<1>1. job[c] # Idle /\ job[c].req.api = "InitProducerId" /\ job[c].phase = "load"
      /\ topics' = topics /\ logs' = logs /\ offsets' = offsets /\ counter' = counter
      /\ lock' = lock /\ late' = late /\ client' = client
  BY DEF LoadCounter, Asking, store, Keep
<1>2. PICK j \in GoodJobs : j = job[c]
  BY <1>1, Busy
<1>3. PICK next : next = [j EXCEPT !.base = counter, !.phase = "put"]
  OBVIOUS
<1>4. job' = [job EXCEPT ![c] = next]
  BY <1>2, <1>3, Busy DEF LoadCounter
<1>5. counter \in CounterObjects
  BY DEF BrokerInv, StoreInv
<1>6. /\ next.req = j.req /\ next.base = counter /\ next.answers = j.answers
      /\ next.phase = "put" /\ next \in Jobs
  BY <1>3, <1>5, JobFields DEF Jobs, Phases
<1>7. Progress(j)
  BY JobFields
<1>8. Progress(next)
  BY ONLY <1>1, <1>2, <1>6, <1>7 DEF Progress
<1>9. Fits(next) /\ Carries(next)
  BY ONLY <1>1, <1>2, <1>5, <1>6 DEF Fits, Carries
<1>10. next \in GoodJobs
  BY <1>6, <1>8, <1>9 DEF GoodJobs
<1>11. StoreInv'
  BY <1>1 DEF BrokerInv, StoreInv
<1>12. LockInv'
  BY <1>1, <1>4, LockKept DEF Asking
<1> QED BY <1>1, <1>4, <1>10, <1>11, <1>12, HandlerStep

\* ------------------------------------------------- commits and their writes
\* What a commit without a fault is.
LEMMA FaultFacts ==
    ASSUME NEW commits \in Seq(CommitEntries)
    PROVE  /\ CommitFault(commits) \in Codes
           /\ CommitFault(commits) = "none" =>
                  \A i \in DOMAIN commits :
                      /\ commits[i].key \in Keys /\ commits[i].offset \in Nat
                      /\ \A j \in 1 .. i - 1 : commits[j].key # commits[i].key
<1>1. PICK n \in Nat : n = Len(commits)
  OBVIOUS
<1>2. DOMAIN commits = 1 .. n
  BY <1>1
<1>3. \A i : EntryFault(commits, i) \in Codes
  BY DEF EntryFault, Codes
<1>4. CommitFault(commits) \in Codes
  <2>1. "none" \in Codes /\ "InvalidRequest" \in Codes
    BY DEF Codes
  <2> QED BY <1>3, <2>1 DEF CommitFault
<1>5. ASSUME CommitFault(commits) = "none", NEW i \in DOMAIN commits
      PROVE  EntryFault(commits, i) = "none"
  <2> DEFINE T == {k \in DOMAIN commits : EntryFault(commits, k) # "none"}
  <2>1. CASE T = {}
    BY <1>5, <2>1
  <2>2. CASE T # {}
    <3>1. T \in SUBSET Nat
      BY <1>2
    <3>2. \E x \in T : \A y \in T : x <= y
      BY <2>2, <3>1, Smallest
    <3>3. Min(T) \in T
      <4> HIDE DEF T
      <4> QED BY <3>2, Zenon DEF Min
    <3>4. CommitFault(commits) = "InvalidRequest" \/ CommitFault(commits) = EntryFault(commits, Min(T))
      BY <2>2, Zenon DEF CommitFault
    <3>5. EntryFault(commits, Min(T)) # "none"
      BY <3>3
    <3> QED BY <1>5, <3>4, <3>5
  <2> QED BY <2>1, <2>2
<1>6. ASSUME CommitFault(commits) = "none", NEW i \in DOMAIN commits
      PROVE  /\ commits[i].key \in Keys /\ commits[i].offset \in Nat
             /\ \A j \in 1 .. i - 1 : commits[j].key # commits[i].key
  <2>1. EntryFault(commits, i) = "none"
    BY <1>5, <1>6
  <2>2. commits[i] \in CommitEntries
    BY <1>1, <1>2, ElementType
  <2>3. commits[i].offset \in Int
    BY <2>2 DEF CommitEntries
  <2> QED BY <2>1, <2>3 DEF EntryFault
<1> QED BY <1>4, <1>6

\* What a valid commit makes of a manifest.
LEMMA RevisedFacts ==
    ASSUME NEW m \in ManifestObjects, NEW commits \in Seq(CommitEntries),
           CommitFault(commits) = "none"
    PROVE  /\ Revised(m, commits) \in Manifests
           /\ UnderLimit(m, commits) => Readable(Revised(m, commits))
<1>1. Loaded(m) \in Manifests
  <2>1. [k \in {} |-> 0] \in [{} -> Nat] /\ {} \in SUBSET Keys /\ 0 \in Nat
    OBVIOUS
  <2>2. EmptyManifest \in Manifests
    BY <2>1 DEF EmptyManifest, Manifests
  <2> QED BY <2>2 DEF Loaded, ManifestObjects
<1>2. PICK old : old = Loaded(m).offsets
  OBVIOUS
<1>3. PICK ks \in SUBSET Keys : old \in [ks -> Nat]
  BY <1>1, <1>2 DEF Manifests
<1> DEFINE named == {commits[i].key : i \in DOMAIN commits}
<1>4. PICK new : new = Overlaid(old, commits)
  OBVIOUS
<1>5. new = [k \in ks \cup named |->
               IF k \in named
               THEN commits[CHOOSE i \in DOMAIN commits : commits[i].key = k].offset ELSE old[k]]
  BY <1>3, <1>4 DEF Overlaid
<1>6. named \subseteq Keys
  BY FaultFacts
<1>7. ASSUME NEW k \in ks \cup named PROVE new[k] \in Nat
  <2>1. CASE k \in named
    <3>1. PICK i : i = CHOOSE x \in DOMAIN commits : commits[x].key = k
      OBVIOUS
    <3>2. \E x \in DOMAIN commits : commits[x].key = k
      BY <2>1
    <3>3. i \in DOMAIN commits
      BY <3>1, <3>2, Zenon
    <3>4. commits[i].offset \in Nat
      BY <3>3, FaultFacts
    <3>5. new[k] = commits[i].offset
      BY <1>5, <2>1, <3>1
    <3> QED BY <3>4, <3>5
  <2>2. CASE k \notin named
    BY <1>3, <1>5, <2>2
  <2> QED BY <2>1, <2>2
<1>8. PICK ds \in SUBSET Keys : ds = ks \cup named
  BY <1>3, <1>6
<1> HIDE DEF named
<1>9. new \in [ds -> Nat]
  BY <1>5, <1>7, <1>8
<1>10. Loaded(m).revision + 1 \in Nat
  BY <1>1 DEF Manifests
<1>11. Revised(m, commits) = [revision |-> Loaded(m).revision + 1, offsets |-> new]
  BY <1>2, <1>4 DEF Revised
<1>12. Revised(m, commits) \in Manifests
  BY <1>9, <1>10, <1>11 DEF Manifests
<1>13. ASSUME UnderLimit(m, commits) PROVE Readable(Revised(m, commits))
  <2>1. Revised(m, commits).offsets = new /\ DOMAIN new = ds
    BY <1>9, <1>11
  <2>2. Cardinality(ds) <= MaxGroupOffsets
    BY <1>13, <2>1 DEF UnderLimit
  <2>3. \A k \in ds : new[k] >= 0
    BY <1>9
  <2> QED BY <2>1, <2>2, <2>3 DEF Readable
<1> QED BY <1>12, <1>13

\* A write that lands leaves good objects.
LEMMA LandsType ==
    ASSUME StoreInv, NEW w \in GoodWrites, Lands(w)
    PROVE  StoreInv'
<1>1. topics' = topics /\ logs' = logs
  BY DEF Lands
<1>2. CASE w.object = "counter"
  <2>1. counter' = [next_id |-> NextId(w.base) + 1] /\ offsets' = offsets
    BY <1>2 DEF Lands
  <2>2. NextId(w.base) \in Nat
    BY <1>2 DEF GoodWrites, CounterObjects, Counters, NextId
  <2>3. counter' \in CounterObjects
    BY <2>1, <2>2 DEF CounterObjects, Counters
  <2> QED BY <1>1, <2>1, <2>3 DEF StoreInv
<1>3. CASE w.object # "counter"
  <2>1. offsets' = Revised(w.base, w.commits) /\ counter' = counter
    BY <1>3 DEF Lands
  <2>2. w.base \in ManifestObjects /\ w.commits \in Seq(CommitEntries) /\ CommitFault(w.commits) = "none"
    BY <1>3 DEF GoodWrites
  <2>3. offsets' \in ManifestObjects
    BY <2>1, <2>2, RevisedFacts DEF ManifestObjects
  <2> QED BY <1>1, <2>1, <2>3 DEF StoreInv
<1> QED BY <1>2, <1>3

\* What a handler that is going to write would write.
LEMMA WriteType ==
    ASSUME BrokerInv, NEW c \in Conns, job[c] # Idle, job[c].phase = "put"
    PROVE  Write(c) \in GoodWrites
<1>1. PICK j \in GoodJobs : j = job[c]
  BY Busy
<1>2. PICK w : w = Write(c)
  OBVIOUS
<1>3. /\ w = [object |-> IF j.req.api = "InitProducerId" THEN "counter" ELSE "offsets",
              base |-> j.base, commits |-> j.commits]
      /\ j.phase = "put" /\ j.commits \in Seq(CommitEntries) /\ Progress(j) /\ Carries(j)
  BY <1>1, <1>2, JobFields DEF Write
<1>4. CASE j.req.api = "InitProducerId"
  BY <1>2, <1>3, <1>4 DEF GoodWrites, Carries
<1>5. CASE j.req.api # "InitProducerId"
  <2>1. j.req.api = "OffsetCommit"
    BY <1>3, <1>5 DEF Progress
  <2> QED BY <1>2, <1>3, <2>1 DEF GoodWrites, Carries
<1> QED BY <1>4, <1>5

\* A handler ends, and gives the slot back if it holds it.
LEMMA FinishedStep ==
    ASSUME BrokerInv, NEW c \in Conns, job[c] # Idle, job[c].phase \in {"fence", "load", "put"},
           job[c].req.api # "Metadata", NEW f \in Codes,
           job[c].req.api = "InitProducerId" /\ f = "none" => job[c].phase = "put"
    PROVE  \E next \in GoodJobs : Finished(c, f) = [job EXCEPT ![c] = next]
<1>1. PICK j \in GoodJobs : j = job[c]
  BY Busy
<1>2. PICK next : next = [j EXCEPT !.phase = "reply", !.fault = f, !.answers = Response(j, f, offsets)]
  OBVIOUS
<1>3. offsets \in ManifestObjects
  BY DEF BrokerInv, StoreInv
<1>4. next \in GoodJobs
  BY <1>1, <1>2, <1>3, Finishing
<1>5. Finished(c, f) = [job EXCEPT ![c] = next]
  BY <1>1, <1>2, FinishedIs
<1> QED BY <1>4, <1>5

\* A write that finds what was read takes effect; else the handler reads again.
LEMMA PutType ==
    ASSUME BrokerInv, NEW c \in Conns, Put(c)
    PROVE  BrokerInv'
<1>1. job[c] # Idle /\ job[c].phase = "put" /\ late' = late /\ client' = client
  BY DEF Put, bounds
<1>2. PICK j \in GoodJobs : j = job[c]
  BY <1>1, Busy
<1>3. j.req.api \in {"InitProducerId", "OffsetCommit"} /\ j.commits \in Seq(CommitEntries)
      /\ j.tries \in 0 .. MaxAttempts - 1
  BY <1>1, <1>2, JobFields DEF Progress
<1>4. /\ job[c].phase \in {"fence", "load", "put"} /\ job[c].req.api # "Metadata"
      /\ "none" \in Codes /\ "KafkaStorageError" \in Codes /\ job[c].commits \in Seq(CommitEntries)
  BY <1>1, <1>2, <1>3 DEF Codes
<1>5. CASE Holds(Write(c))
  <2>1. Lands(Write(c)) /\ lock' = Unlocked(c)
        /\ job' = [Finished(c, "none") EXCEPT ![c].stored = job[c].commits]
    BY <1>5 DEF Put
  <2>2. PICK done \in GoodJobs : Finished(c, "none") = [job EXCEPT ![c] = done]
    BY <1>1, <1>4, FinishedStep
  <2>3. PICK next \in GoodJobs : job' = [job EXCEPT ![c] = next]
    <3>1. PICK stored \in Seq(CommitEntries) : stored = job[c].commits
      BY <1>4
    <3>2. job' = [Finished(c, "none") EXCEPT ![c].stored = stored]
      BY <2>1, <3>1
    <3>3. PICK last : last = [done EXCEPT !.stored = stored]
      OBVIOUS
    <3>4. last \in GoodJobs
      BY <3>1, <3>3, Beside
    <3>5. job' = [job EXCEPT ![c] = last]
      BY <2>2, <3>2, <3>3, Busy
    <3> QED BY <3>4, <3>5
  <2>4. StoreInv'
    BY <1>1, <2>1, WriteType, LandsType DEF BrokerInv
  <2>5. LockInv'
    BY <2>1, <2>3, LockFreed
  <2> QED BY <1>1, <2>3, <2>4, <2>5, HandlerStep
<1>6. CASE ~Holds(Write(c)) /\ j.tries + 1 = MaxAttempts
  <2>1. job' = Finished(c, "KafkaStorageError") /\ lock' = Unlocked(c) /\ UNCHANGED store
    BY <1>2, <1>6 DEF Put
  <2>2. PICK next \in GoodJobs : Finished(c, "KafkaStorageError") = [job EXCEPT ![c] = next]
    BY <1>1, <1>4, FinishedStep
  <2>3. StoreInv'
    BY <2>1 DEF BrokerInv, StoreInv, store
  <2>4. LockInv'
    BY <2>1, <2>2, LockFreed
  <2> QED BY <1>1, <2>1, <2>2, <2>3, <2>4, HandlerStep
<1>7. CASE ~Holds(Write(c)) /\ j.tries + 1 # MaxAttempts
  <2>1. /\ job' = [job EXCEPT ![c].tries = @ + 1, ![c].phase = "load"]
        /\ lock' = lock /\ UNCHANGED store
    BY <1>2, <1>7 DEF Put
  <2>2. PICK next : next = [j EXCEPT !.tries = j.tries + 1, !.phase = "load"]
    OBVIOUS
  <2>3. job' = [job EXCEPT ![c] = next]
    BY <1>2, <2>1, <2>2, Busy, Zenon
  <2>4. j.tries + 1 \in 0 .. MaxAttempts - 1
    BY <1>3, <1>7, BrokerAssumption
  <2>5. /\ next.req = j.req /\ next.answers = j.answers /\ next.commits = j.commits
        /\ next.phase = "load" /\ next \in Jobs
    BY <2>2, <2>4, JobFields DEF Jobs, Phases
  <2>6. Progress(j) /\ Fits(j) /\ Carries(j)
    BY JobFields
  <2>7. Progress(next)
    BY ONLY <1>1, <1>2, <1>3, <2>5, <2>6 DEF Progress
  <2>8. Fits(next) /\ Carries(next)
    BY ONLY <1>1, <1>2, <1>3, <2>5, <2>6 DEF Fits, Carries
  <2>9. next \in GoodJobs
    BY <2>5, <2>7, <2>8 DEF GoodJobs
  <2>10. StoreInv'
    BY <2>1 DEF BrokerInv, StoreInv, store
  <2>11. LockInv'
    <3>1. next # Idle
      BY <2>9, Busy
    <3>2. CASE j.req.api = "OffsetCommit"
      BY <2>1, <2>3, <2>5, <3>1, <3>2, LockKept
    <3>3. CASE j.req.api # "OffsetCommit"
      BY <1>2, <2>1, <2>3, <3>3, LockKept DEF Asking
    <3> QED BY <3>2, <3>3
  <2> QED BY <1>1, <2>3, <2>9, <2>10, <2>11, HandlerStep
<1> QED BY <1>5, <1>6, <1>7

\* A handler that ends without a write, or that never held the slot.
LEMMA EndsType ==
    ASSUME BrokerInv, NEW c \in Conns, job[c] # Idle, job[c].phase \in {"fence", "load", "put"},
           job[c].req.api # "Metadata", NEW f \in Codes,
           job[c].req.api = "InitProducerId" /\ f = "none" => job[c].phase = "put",
           job' = Finished(c, f), client' = client, late' = late, UNCHANGED store,
           \/ lock' = Unlocked(c)
           \/ lock' = lock /\ (job[c].phase = "fence" \/ job[c].req.api # "OffsetCommit")
    PROVE  BrokerInv'
<1>1. PICK next \in GoodJobs : Finished(c, f) = [job EXCEPT ![c] = next]
  BY FinishedStep
<1>2. StoreInv'
  BY DEF BrokerInv, StoreInv, store
<1>3. LockInv'
  <2>1. CASE lock' = Unlocked(c)
    BY <1>1, <2>1, LockFreed
  <2>2. CASE lock' = lock /\ (job[c].phase = "fence" \/ job[c].req.api # "OffsetCommit")
    BY <1>1, <2>2, LockKept DEF Asking
  <2> QED BY <2>1, <2>2
<1> QED BY <1>1, <1>2, <1>3, HandlerStep

\* The commits of a request that have no error of their own.
LEMMA ValidCommitsType ==
    ASSUME NEW j \in GoodJobs, j.req.api = "OffsetCommit"
    PROVE  ValidCommits(j.req, j.answers) \in Seq(CommitEntries)
<1>1. j.req \in CommitRequests
  BY JobFields, Kinds
<1>2. j.req.items \in Seq(CommitEntries)
  BY <1>1 DEF CommitRequests
<1> QED BY <1>2, ThoseFacts DEF ValidCommits

\* A commit takes the slot of its group, or is refused.
LEMMA FenceType ==
    ASSUME BrokerInv, NEW c \in Conns, Fence(c)
    PROVE  BrokerInv'
<1>1. job[c] # Idle /\ job[c].phase = "fence" /\ job[c].req.api = "OffsetCommit"
      /\ UNCHANGED store /\ late' = late /\ client' = client /\ lock[BrokerOf[c]] = Nobody
  BY DEF Fence, Asking
<1>2. PICK j \in GoodJobs : j = job[c]
  BY <1>1, Busy
<1>3. PICK commits \in Seq(CommitEntries) : commits = ValidCommits(job[c].req, job[c].answers)
  BY <1>1, <1>2, ValidCommitsType
<1>4. "none" \in Codes /\ "RebalanceInProgress" \in Codes /\ CommitFault(commits) \in Codes
  BY FaultFacts DEF Codes
<1>5. CASE job' = Finished(c, "RebalanceInProgress") /\ UNCHANGED lock
  BY <1>1, <1>4, <1>5, EndsType
<1>6. CASE /\ job' = Finished(c, IF commits = <<>> THEN "none" ELSE CommitFault(commits))
           /\ UNCHANGED lock
  <2>1. PICK f \in Codes : f = IF commits = <<>> THEN "none" ELSE CommitFault(commits)
    BY <1>4
  <2>2. job' = Finished(c, f)
    BY <1>6, <2>1
  <2> QED BY <1>1, <1>6, <2>2, EndsType
<1>7. CASE /\ commits # <<>> /\ CommitFault(commits) = "none"
           /\ job' = [job EXCEPT ![c].phase = "load", ![c].commits = commits]
           /\ lock' = [lock EXCEPT ![BrokerOf[c]] = c]
  <2>1. PICK next : next = [j EXCEPT !.phase = "load", !.commits = commits]
    OBVIOUS
  <2>2. job' = [job EXCEPT ![c] = next]
    BY <1>2, <1>7, <2>1, Busy, Zenon
  <2>3. /\ next.req = j.req /\ next.answers = j.answers /\ next.commits = commits
        /\ next.phase = "load" /\ next \in Jobs
    BY <2>1, JobFields DEF Jobs, Phases
  <2>4. Progress(j) /\ Fits(j) /\ Carries(j)
    BY JobFields
  <2>5. Progress(next)
    BY ONLY <1>1, <1>2, <2>3, <2>4 DEF Progress
  <2>6. Fits(next) /\ Carries(next)
    BY ONLY <1>1, <1>2, <1>7, <2>3, <2>4 DEF Fits, Carries
  <2>7. next \in GoodJobs
    BY <2>3, <2>5, <2>6 DEF GoodJobs
  <2>8. StoreInv'
    BY <1>1 DEF BrokerInv, StoreInv, store
  <2>9. DOMAIN lock = Brokers /\ BrokerOf[c] \in Brokers
    BY BrokerAssumption DEF BrokerInv, LockInv
  <2>10. job'[c] = next /\ next # Idle /\ \A d \in Conns : d # c => job'[d] = job[d]
    BY <2>2, <2>7, Busy
  <2>11. ASSUME NEW b \in Brokers, lock'[b] # Nobody
         PROVE  /\ lock'[b] \in Conns /\ BrokerOf[lock'[b]] = b
                /\ Asking(lock[b], "OffsetCommit", "load")' \/ Asking(lock[b], "OffsetCommit", "put")'
    <3>1. CASE b = BrokerOf[c]
      <4>1. lock'[b] = c
        BY <1>7, <2>9, <3>1
      <4> QED BY <1>1, <1>2, <2>3, <2>10, <3>1, <4>1 DEF Asking
    <3>2. CASE b # BrokerOf[c]
      <4>1. lock'[b] = lock[b]
        BY <1>7, <2>9, <3>2
      <4>2. /\ lock[b] \in Conns /\ BrokerOf[lock[b]] = b
            /\ Asking(lock[b], "OffsetCommit", "load") \/ Asking(lock[b], "OffsetCommit", "put")
        BY <2>11, <4>1 DEF BrokerInv, LockInv
      <4>3. lock[b] # c
        BY <3>2, <4>2
      <4> QED BY <2>10, <4>1, <4>2, <4>3 DEF Asking
    <3> QED BY <3>1, <3>2
  <2>12. LockInv'
    BY <1>7, <2>9, <2>11 DEF LockInv, Asking
  <2> QED BY <1>1, <2>2, <2>7, <2>8, <2>12, HandlerStep
<1>8. \/ job' = Finished(c, "RebalanceInProgress") /\ UNCHANGED lock
      \/ /\ job' = Finished(c, IF commits = <<>> THEN "none" ELSE CommitFault(commits))
         /\ UNCHANGED lock
      \/ /\ commits # <<>> /\ CommitFault(commits) = "none"
         /\ job' = [job EXCEPT ![c].phase = "load", ![c].commits = commits]
         /\ lock' = [lock EXCEPT ![BrokerOf[c]] = c]
  BY <1>3, Zenon DEF Fence
<1> QED BY <1>5, <1>6, <1>7, <1>8

\* OffsetFetch reads the manifest of its group.
LEMMA LoadForFetchType ==
    ASSUME BrokerInv, NEW c \in Conns, LoadForFetch(c)
    PROVE  BrokerInv'
<1>1. job[c] # Idle /\ job[c].phase = "load" /\ job[c].req.api = "OffsetFetch"
      /\ UNCHANGED store /\ late' = late /\ client' = client /\ lock' = lock
  BY DEF LoadForFetch, Asking, Keep
<1>2. PICK f \in Codes : f = IF Readable(offsets) THEN "none" ELSE "KafkaStorageError"
  BY DEF Codes
<1>3. job' = Finished(c, f)
  BY <1>2 DEF LoadForFetch
<1> QED BY <1>1, <1>3, EndsType

\* A commit reads the manifest it is going to replace.
LEMMA LoadForCommitType ==
    ASSUME BrokerInv, NEW c \in Conns, LoadForCommit(c)
    PROVE  BrokerInv'
<1>1. job[c] # Idle /\ job[c].phase = "load" /\ job[c].req.api = "OffsetCommit"
      /\ UNCHANGED store /\ late' = late /\ client' = client
  BY DEF LoadForCommit, Asking
<1>2. PICK j \in GoodJobs : j = job[c]
  BY <1>1, Busy
<1>3. CASE Readable(offsets) /\ UnderLimit(offsets, job[c].commits)
  <2>1. job' = [job EXCEPT ![c].base = offsets, ![c].phase = "put"] /\ lock' = lock
    BY <1>3 DEF LoadForCommit
  <2>2. PICK next : next = [j EXCEPT !.base = offsets, !.phase = "put"]
    OBVIOUS
  <2>3. job' = [job EXCEPT ![c] = next]
    BY <1>2, <2>1, <2>2, Busy, Zenon
  <2>4. offsets \in ManifestObjects
    BY DEF BrokerInv, StoreInv
  <2>5. /\ next.req = j.req /\ next.base = offsets /\ next.answers = j.answers
        /\ next.commits = j.commits /\ next.phase = "put" /\ next \in Jobs
    BY <2>2, <2>4, JobFields DEF Jobs, Phases
  <2>6. Progress(j) /\ Fits(j) /\ Carries(j)
    BY JobFields
  <2>7. Progress(next)
    BY ONLY <1>1, <1>2, <2>5, <2>6 DEF Progress
  <2>8. Fits(next) /\ Carries(next)
    BY ONLY <1>1, <1>2, <1>3, <2>4, <2>5, <2>6 DEF Fits, Carries
  <2>9. next \in GoodJobs
    BY <2>5, <2>7, <2>8 DEF GoodJobs
  <2>10. StoreInv'
    BY <1>1 DEF BrokerInv, StoreInv, store
  <2>11. next # Idle /\ next.req.api = "OffsetCommit"
    BY <1>1, <1>2, <2>5, <2>9, Busy
  <2>12. LockInv'
    BY <2>1, <2>3, <2>5, <2>11, LockKept
  <2> QED BY <1>1, <2>3, <2>9, <2>10, <2>12, HandlerStep
<1>4. CASE ~(Readable(offsets) /\ UnderLimit(offsets, job[c].commits))
  <2>1. PICK f \in Codes : f = IF Readable(offsets) THEN "InvalidRequest" ELSE "KafkaStorageError"
    BY DEF Codes
  <2>2. job' = Finished(c, f) /\ lock' = Unlocked(c)
    BY <1>4, <2>1 DEF LoadForCommit
  <2> QED BY <1>1, <2>2, EndsType
<1> QED BY <1>3, <1>4

\* ----------------------------------------------------------------- clients
\* What is known of a client.
LEMMA ClientFields ==
    ASSUME NEW k, NEW m \in GoodClients(k)
    PROVE  /\ m.at \in Dials[k] /\ m.waiting \in BOOLEAN /\ m.script \in Seq(Requests)
           /\ m.commits \in Int /\ m.keys \in Seq(Keys) /\ m.pos \in [Range(m.keys) -> Int]
  BY DEF GoodClients

\* A client that changes, but for its subscription.
LEMMA ChangedClient ==
    ASSUME NEW k, NEW m \in GoodClients(k), NEW at \in Dials[k], NEW waiting \in BOOLEAN,
           NEW script \in Seq(Requests), NEW commits \in Int, NEW pos \in [Range(m.keys) -> Int],
           NEW n, n = [at |-> at, waiting |-> waiting, script |-> script, commits |-> commits,
                       keys |-> m.keys, pos |-> pos]
    PROVE  n \in GoodClients(k)
<1>1. m.keys \in Seq(Keys)
  BY DEF GoodClients
<1>2. PICK ks : ks = Range(m.keys)
  OBVIOUS
<1>3. ks \in SUBSET Keys
  BY <1>1, <1>2 DEF Range
<1>4. pos \in UNION {[ms -> Int] : ms \in SUBSET Keys}
  BY <1>2, <1>3
<1>5. n \in [at : Dials[k], waiting : BOOLEAN, script : Seq(Requests), commits : Int,
             keys : Seq(Keys), pos : UNION {[ms -> Int] : ms \in SUBSET Keys}]
  BY <1>1, <1>4
<1>6. n.pos \in [Range(n.keys) -> Int]
  OBVIOUS
<1> QED BY <1>5, <1>6 DEF GoodClients

\* What a record of a client is.
LEMMA ClientRecord ==
    ASSUME NEW k, NEW m \in GoodClients(k)
    PROVE  m = [at |-> m.at, waiting |-> m.waiting, script |-> m.script, commits |-> m.commits,
                keys |-> m.keys, pos |-> m.pos]
  BY DEF GoodClients

\* A client that dials again.
LEMMA RedialledType ==
    ASSUME BrokerInv, NEW k \in Clients, client[k].waiting, NEW d \in Dials[k],
           NEW fresh \in BOOLEAN
    PROVE  Redialled(k, d, fresh) \in GoodClients(k) /\ Redialled(k, d, fresh).waiting = FALSE
<1>1. PICK m \in GoodClients(k) : m = client[k]
  BY DEF BrokerInv, ClientsInv
<1>2. m.at \in Conns /\ job[m.at] # Idle
  BY <1>1, ClientFields, BrokerAssumption DEF BrokerInv, ClientsInv
<1>3. job[m.at].req \in Requests
  BY <1>2, Busy, JobFields
<1>4. PICK script \in Seq(Requests) :
          script = IF Consumer(k) THEN m.script ELSE <<job[m.at].req>> \o m.script
  <2>1. PICK req \in Requests : req = job[m.at].req
    BY <1>3
  <2>2. m.script \in Seq(Requests)
    BY ClientFields
  <2>3. <<req>> \in Seq(Requests)
    OBVIOUS
  <2>4. <<req>> \o m.script \in Seq(Requests)
    BY ONLY <2>2, <2>3
  <2> QED BY <2>1, <2>2, <2>4
<1>5. PICK pos \in [Range(m.keys) -> Int] :
          pos = IF fresh THEN [key \in DOMAIN m.pos |-> Unasked] ELSE m.pos
  <2>1. m.pos \in [Range(m.keys) -> Int] /\ Unasked \in Int
    BY ClientFields DEF Unasked
  <2>2. [key \in DOMAIN m.pos |-> Unasked] \in [Range(m.keys) -> Int]
    BY <2>1
  <2> QED BY <2>1, <2>2
<1>6. PICK n : n = [m EXCEPT !.at = d, !.waiting = FALSE, !.script = script, !.pos = pos]
  OBVIOUS
<1>7. Redialled(k, d, fresh) = n
  BY <1>1, <1>4, <1>5, <1>6, ClientRecord DEF Redialled
<1>8. n = [at |-> d, waiting |-> FALSE, script |-> script, commits |-> m.commits,
           keys |-> m.keys, pos |-> pos]
  <2>1. m = [at |-> m.at, waiting |-> m.waiting, script |-> m.script, commits |-> m.commits,
             keys |-> m.keys, pos |-> m.pos]
    BY ClientRecord
  <2> QED BY ONLY <1>6, <2>1
<1>9. n \in GoodClients(k)
  BY <1>8, ChangedClient, ClientFields
<1> QED BY <1>7, <1>8, <1>9

\* Connections are lost; nobody waits on them any longer.
LEMMA LoseType ==
    ASSUME BrokerInv, NEW conns \in SUBSET Conns, Lose(conns),
           \A d \in Conns : d \notin conns => job'[d] = job[d]
    PROVE  ClientsInv'
<1>1. PICK dial \in [Clients -> Conns], fresh \in BOOLEAN :
          /\ \A k \in Clients : dial[k] \in Dials[k]
          /\ client' = [k \in Clients |->
                 IF client[k].waiting /\ client[k].at \in conns
                 THEN Redialled(k, dial[k], fresh) ELSE client[k]]
  BY DEF Lose
<1>2. ASSUME NEW k \in Clients
      PROVE  client'[k] \in GoodClients(k) /\ (client'[k].waiting => job'[client'[k].at] # Idle)
  <2>1. client[k] \in GoodClients(k) /\ client[k].at \in Conns
    BY ClientFields, BrokerAssumption DEF BrokerInv, ClientsInv
  <2>2. CASE client[k].waiting /\ client[k].at \in conns
    <3>1. client'[k] = Redialled(k, dial[k], fresh)
      BY <1>1, <2>2
    <3> QED BY <1>1, <2>2, <3>1, RedialledType
  <2>3. CASE ~(client[k].waiting /\ client[k].at \in conns)
    <3>1. client'[k] = client[k]
      BY <1>1, <2>3
    <3>2. ASSUME client[k].waiting PROVE job'[client[k].at] # Idle
      BY <2>1, <2>3, <3>2 DEF BrokerInv, ClientsInv
    <3> QED BY <2>1, <3>1, <3>2
  <2> QED BY <2>2, <2>3
<1>3. DOMAIN client' = Clients
  BY <1>1
<1> QED BY <1>2, <1>3 DEF ClientsInv, GoodClients

\* --------------------------------------------------------------- responses
\* A position that a response gives is an offset.
LEMMA PositionType ==
    ASSUME NEW j \in GoodJobs, j.phase = "reply", j.fault = "none", NEW key, NEW pos \in Int
    PROVE  Position(j.req, j.answers, key, pos) \in Int
<1>1. PICK n \in Nat : n = Len(j.req.items)
  BY JobFields, ItemsAreSequences
<1>2. DOMAIN j.req.items = 1 .. n
  BY <1>1, JobFields, ItemsAreSequences
<1>3. Progress(j) /\ Fits(j) /\ j.answers \in Seq(Answers)
  BY JobFields
<1>4. Len(j.answers) = n
  BY <1>1, <1>3 DEF Progress
<1> DEFINE mine == {i \in DOMAIN j.req.items : j.req.items[i].key = key}
<1>5. CASE mine = {}
  BY <1>5 DEF Position
<1>6. CASE mine # {}
  <2>1. PICK i : i = CHOOSE x \in mine : TRUE
    OBVIOUS
  <2>2. i \in mine
    BY <1>6, <2>1, Zenon
  <2>3. i \in 1 .. n
    BY <1>2, <2>2
  <2>4. PICK a : a = j.answers[i]
    OBVIOUS
  <2>5. Position(j.req, j.answers, key, pos) =
            CASE a.code = "OffsetOutOfRange" -> Nowhere
              [] a.code = "none" /\ j.req.api = "Fetch" -> a.until
              [] a.code = "none" /\ j.req.api \in {"OffsetFetch", "ListOffsets"} -> a.offset
              [] OTHER -> pos
    BY <1>6, <2>1, <2>4 DEF Position
  <2>6. j.req.api = "Fetch" => a \in FetchAnswers
    BY <1>3, <1>4, <2>3, <2>4, ElementType DEF Fits
  <2>7. j.req.api \in {"OffsetFetch", "ListOffsets"} => a \in OffsetsTold
    BY <1>3, <1>4, <2>3, <2>4, ElementType DEF Fits
  <2>8. /\ j.req.api = "Fetch" => a.until \in Int
        /\ j.req.api \in {"OffsetFetch", "ListOffsets"} => a.offset \in Int
    BY <2>6, <2>7 DEF FetchAnswers, OffsetsTold
  <2>9. Nowhere \in Int
    BY DEF Nowhere
  <2>10. j.req.api \in {"OffsetFetch", "ListOffsets"} => j.req.api # "Fetch"
    OBVIOUS
  <2> QED BY <2>5, <2>8, <2>9, <2>10
<1> QED BY <1>5, <1>6

\* An answer leaves the broker, and the client knows what it was told.
LEMMA ReplyType ==
    ASSUME BrokerInv, NEW c \in Conns, Reply(c)
    PROVE  BrokerInv'
<1>1. job[c] # Idle /\ job[c].phase = "reply" /\ job' = [job EXCEPT ![c] = Idle]
      /\ UNCHANGED store /\ lock' = lock /\ late' = late
  BY DEF Reply
<1>2. PICK j \in GoodJobs : j = job[c]
  BY <1>1, Busy
<1>3. client' = [k \in Clients |->
          IF k \notin Reader(c) THEN client[k]
          ELSE [client[k] EXCEPT !.waiting = FALSE,
                    !.pos = IF j.fault # "none" THEN @
                            ELSE [key \in DOMAIN @ |-> Position(j.req, j.answers, key, @[key])]]]
  BY <1>2 DEF Reply
<1>4. StoreInv' /\ LateInv'
  BY <1>1 DEF BrokerInv, StoreInv, LateInv, store
<1>5. JobsInv'
  BY <1>1 DEF BrokerInv, JobsInv
<1>6. LockInv'
  BY <1>1, LockKept DEF Asking
<1>7. ASSUME NEW k \in Clients
      PROVE  client'[k] \in GoodClients(k) /\ (client'[k].waiting => job'[client'[k].at] # Idle)
  <2>1. PICK m \in GoodClients(k) : m = client[k]
    BY DEF BrokerInv, ClientsInv
  <2>2. m.at \in Conns
    BY ClientFields, BrokerAssumption
  <2>3. CASE k \notin Reader(c)
    <3>1. client'[k] = m
      BY <1>3, <2>1, <2>3
    <3>2. ASSUME m.waiting PROVE m.at # c /\ job[m.at] # Idle
      BY <2>1, <2>3, <3>2 DEF Reader, BrokerInv, ClientsInv
    <3>3. ASSUME m.waiting PROVE job'[m.at] # Idle
      <4>1. m.at # c /\ job[m.at] # Idle
        BY <3>2, <3>3
      <4>2. job'[m.at] = job[m.at]
        BY <1>1, <2>2, <4>1, Busy
      <4> QED BY <4>1, <4>2
    <3> QED BY <3>1, <3>3
  <2>4. CASE k \in Reader(c)
    <3>1. m.pos \in [Range(m.keys) -> Int]
      BY ClientFields
    <3>2. PICK ks : ks = Range(m.keys)
      OBVIOUS
    <3>3. PICK pos \in [ks -> Int] :
              pos = IF j.fault # "none" THEN m.pos
                    ELSE [key \in DOMAIN m.pos |-> Position(j.req, j.answers, key, m.pos[key])]
      <4>1. CASE j.fault # "none"
        BY <3>1, <3>2, <4>1
      <4>2. CASE j.fault = "none"
        <5>1. j.phase = "reply"
          BY <1>1, <1>2
        <5>2. \A key \in ks : m.pos[key] \in Int
          BY <3>1, <3>2
        <5>3. \A key \in ks : Position(j.req, j.answers, key, m.pos[key]) \in Int
          BY <4>2, <5>1, <5>2, PositionType
        <5>4. DOMAIN m.pos = ks
          BY <3>1, <3>2
        <5> QED BY <4>2, <5>3, <5>4
      <4> QED BY <4>1, <4>2
    <3>4. PICK n : n = [m EXCEPT !.waiting = FALSE, !.pos = pos]
      OBVIOUS
    <3>5. client'[k] = n
      BY <1>3, <2>1, <2>4, <3>3, <3>4
    <3>6. n = [at |-> m.at, waiting |-> FALSE, script |-> m.script, commits |-> m.commits,
               keys |-> m.keys, pos |-> pos]
      <4>1. m = [at |-> m.at, waiting |-> m.waiting, script |-> m.script, commits |-> m.commits,
                 keys |-> m.keys, pos |-> m.pos]
        BY ClientRecord
      <4> QED BY ONLY <3>4, <4>1
    <3>7. n \in GoodClients(k)
      BY <3>2, <3>6, ChangedClient, ClientFields
    <3> QED BY <3>5, <3>6, <3>7
  <2> QED BY <2>3, <2>4
<1>8. ClientsInv'
  <2>1. DOMAIN client' = Clients
    BY <1>3
  <2> QED BY <1>7, <2>1 DEF ClientsInv, GoodClients
<1> QED BY <1>4, <1>5, <1>6, <1>8 DEF BrokerInv

\* ---------------------------------------------------------------- failures
\* A failed item leaves stores of the right types.
LEMMA DoneBeforeType ==
    ASSUME BrokerInv, NEW c \in Conns, job[c] # Idle, job[c].phase = "items",
           DoneBefore(job[c].req, At(c))
    PROVE  StoreInv'
<1>1. CASE UNCHANGED store
  BY <1>1 DEF BrokerInv, StoreInv, store
<1>2. CASE job[c].req.api = "Produce" /\ ProduceFault(job[c].req, At(c)) = "none"
           /\ Unwritable(At(c).key) = "none"
           /\ (Appends(At(c)) \/ Creates(At(c).key[1], Ensured(At(c).key[1])))
  <2>1. PICK item \in [key : Names,
                       batches : Seq([pid : Int \cup {NoProducer}, count : Nat, bytes : Nat \ {0}])] :
            item = At(c)
    BY <1>2, ItemAt
  <2>2. item.key \in Names
        /\ item.batches \in Seq([pid : Int \cup {NoProducer}, count : Nat, bytes : Nat \ {0}])
    BY ONLY <2>1
  <2>3. StoreInv
    BY DEF BrokerInv
  <2>4. DecodeFault(item.batches) = "none"
    BY <1>2, <2>1, <2>3, ProduceFaultType
  <2>5. CASE Appends(item)
    BY <1>2, <2>1, <2>2, <2>3, <2>4, <2>5, AppendsType
  <2>6. CASE Creates(item.key[1], Ensured(item.key[1]))
    <3>1. item.key[1] \in Topics /\ Ensured(item.key[1]) \in 0 .. MaxTopicPartitions
      BY <1>2, <2>1, <2>2, <2>3, WritableKeys
    <3> QED BY <2>3, <2>6, <3>1, CreatesType
  <2> QED BY <1>2, <2>1, <2>5, <2>6
<1>3. CASE MetadataItem(job[c].req, At(c)).code = "none"
           /\ Creates(At(c), MetadataItem(job[c].req, At(c)).count)
  <2>1. StoreInv
    BY DEF BrokerInv
  <2>2. At(c) \in Topics /\ MetadataItem(job[c].req, At(c)).count \in 0 .. MaxTopicPartitions
    BY <1>3, <2>1, MetadataType
  <2> QED BY <1>3, <2>1, <2>2, CreatesType
<1> QED BY <1>1, <1>2, <1>3 DEF DoneBefore

\* A store call fails while an item is served.
LEMMA ItemFailsType ==
    ASSUME BrokerInv, NEW c \in Conns, ItemFails(c)
    PROVE  BrokerInv'
<1>1. job[c] # Idle /\ job[c].phase = "items" /\ lock' = lock /\ late' = late /\ client' = client
      /\ job' = [job EXCEPT ![c] = With(c, FailedItem(job[c].req))]
  BY DEF ItemFails
<1>2. StoreInv'
  BY <1>1, DoneBeforeType DEF ItemFails
<1>3. PICK a : a = FailedItem(job[c].req)
  OBVIOUS
<1>4. LogErrorCode["ObjectStore"] \in Codes
  BY ErrorCodes
<1>5. NoRecords(LogErrorCode["ObjectStore"]) \in FetchAnswers
  BY <1>4 DEF NoRecords, FetchAnswers
<1>6. /\ a \in Answers
      /\ job[c].req.api = "Fetch" => a \in FetchAnswers
      /\ job[c].req.api = "ListOffsets" => a \in OffsetsTold
  <2>1. PICK code \in Codes : code = LogErrorCode["ObjectStore"]
    BY <1>4
  <2>2. /\ [code |-> code, offset |-> -1] \in OffsetsTold
        /\ [code |-> code, base |-> -1] \in [code : Codes, base : Int]
        /\ [code |-> code, count |-> 0] \in [code : Codes, count : Nat]
        /\ [code |-> code] \in Checks
    BY DEF OffsetsTold, Checks
  <2>3. a = CASE job[c].req.api = "Fetch" -> NoRecords(code)
              [] job[c].req.api = "ListOffsets" -> [code |-> code, offset |-> -1]
              [] job[c].req.api = "Produce" -> [code |-> code, base |-> -1]
              [] job[c].req.api = "Metadata" -> [code |-> code, count |-> 0]
              [] OTHER -> [code |-> code]
    BY <1>3, <2>1 DEF FailedItem
  <2>4. NoRecords(code) \in FetchAnswers
    BY <1>5, <2>1
  <2> QED BY ONLY <2>2, <2>3, <2>4 DEF Answers
<1>7. PICK next \in GoodJobs : next = With(c, a)
  BY <1>1, <1>6, ItemStep
<1>8. job' = [job EXCEPT ![c] = next]
  BY <1>1, <1>3, <1>7
<1>9. LockInv'
  BY <1>1, <1>8, KeepLock
<1> QED BY <1>1, <1>2, <1>8, <1>9, HandlerStep

\* A store call of an allocation or a commit fails; its write may arrive later.
LEMMA StoreFailsType ==
    ASSUME BrokerInv, NEW c \in Conns, StoreFails(c)
    PROVE  BrokerInv'
<1>1. job[c] # Idle /\ job[c].phase \in {"load", "put"} /\ job[c].req.api # "Metadata"
      /\ job' = Finished(c, "KafkaStorageError") /\ lock' = Unlocked(c) /\ client' = client
      /\ UNCHANGED store
      /\ late' = IF job[c].phase = "put" THEN late \cup {Write(c)} ELSE late
  BY DEF StoreFails
<1>2. "KafkaStorageError" \in Codes /\ job[c].phase \in {"fence", "load", "put"}
  BY <1>1 DEF Codes
<1>3. PICK next \in GoodJobs : Finished(c, "KafkaStorageError") = [job EXCEPT ![c] = next]
  BY <1>1, <1>2, FinishedStep
<1>4. LockInv'
  BY <1>1, <1>3, LockFreed
<1>5. LateInv'
  BY <1>1, WriteType DEF BrokerInv, LateInv
<1>6. StoreInv'
  BY <1>1 DEF BrokerInv, StoreInv, store
<1>7. JobsInv'
  BY <1>1, <1>3 DEF BrokerInv, JobsInv
<1>8. \A d \in Conns : job[d] # Idle => job'[d] # Idle
  BY <1>1, <1>3, Busy
<1>9. \A k \in Clients : client[k].at \in Conns
  BY ClientFields, BrokerAssumption DEF BrokerInv, ClientsInv
<1>10. ClientsInv'
  <2>1. ASSUME NEW k \in Clients, client[k].waiting PROVE job'[client[k].at] # Idle
    BY <1>8, <1>9, <2>1 DEF BrokerInv, ClientsInv
  <2> QED BY <1>1, <2>1 DEF BrokerInv, ClientsInv, GoodClients
<1> QED BY <1>4, <1>5, <1>6, <1>7, <1>10 DEF BrokerInv

\* The topics cannot be listed, and the connection is closed.
LEMMA ListingFailsType ==
    ASSUME BrokerInv, NEW c \in Conns, ListingFails(c)
    PROVE  BrokerInv'
<1>1. job[c] # Idle /\ job[c].req.api = "Metadata" /\ job' = [job EXCEPT ![c] = Idle]
      /\ Lose({c}) /\ UNCHANGED store /\ lock' = lock /\ late' = late
  BY DEF ListingFails, Asking
<1>2. StoreInv' /\ LateInv'
  BY <1>1 DEF BrokerInv, StoreInv, LateInv, store
<1>3. JobsInv'
  BY <1>1 DEF BrokerInv, JobsInv
<1>4. LockInv'
  BY <1>1, LockKept DEF Asking
<1>5. \A d \in Conns : d \notin {c} => job'[d] = job[d]
  BY <1>1, Busy
<1>6. ClientsInv'
  BY <1>1, <1>5, LoseType
<1> QED BY <1>2, <1>3, <1>4, <1>6 DEF BrokerInv

\* A client gives up waiting; its request goes on without a reader.
LEMMA HangUpType ==
    ASSUME BrokerInv, NEW k \in Clients, HangUp(k)
    PROVE  BrokerInv'
<1>1. client[k].waiting /\ UNCHANGED store /\ job' = job /\ lock' = lock /\ late' = late
  BY DEF HangUp
<1>2. PICK d \in Dials[k], fresh \in BOOLEAN : client' = [client EXCEPT ![k] = Redialled(k, d, fresh)]
  BY DEF HangUp
<1>3. StoreInv' /\ LateInv' /\ JobsInv'
  BY <1>1 DEF BrokerInv, StoreInv, LateInv, JobsInv, store
<1>4. LockInv'
  BY <1>1 DEF BrokerInv, LockInv, Asking
<1>5. Redialled(k, d, fresh) \in GoodClients(k) /\ Redialled(k, d, fresh).waiting = FALSE
  BY <1>1, RedialledType
<1>6. ASSUME NEW l \in Clients
      PROVE  client'[l] \in GoodClients(l) /\ (client'[l].waiting => job'[client'[l].at] # Idle)
  <2>1. CASE l = k
    <3>1. client'[l] = Redialled(k, d, fresh)
      BY <1>2, <2>1 DEF BrokerInv, ClientsInv
    <3> QED BY <1>5, <2>1, <3>1
  <2>2. CASE l # k
    <3>1. client'[l] = client[l]
      BY <1>2, <2>2 DEF BrokerInv, ClientsInv
    <3> QED BY <1>1, <3>1 DEF BrokerInv, ClientsInv
  <2> QED BY <2>1, <2>2
<1>7. ClientsInv'
  <2>1. DOMAIN client' = Clients
    BY <1>2 DEF BrokerInv, ClientsInv
  <2> QED BY <1>6, <2>1 DEF ClientsInv, GoodClients
<1> QED BY <1>3, <1>4, <1>7 DEF BrokerInv

\* A broker is replaced; what its requests sent to the store may arrive later.
LEMMA ShutdownType ==
    ASSUME BrokerInv, NEW b \in Brokers, Shutdown(b)
    PROVE  BrokerInv'
<1>1. PICK conns \in SUBSET Conns : conns = {c \in Conns : BrokerOf[c] = b /\ job[c] # Idle}
  OBVIOUS
<1>2. /\ job' = [c \in Conns |-> IF c \in conns THEN Idle ELSE job[c]]
      /\ lock' = [lock EXCEPT ![b] = Nobody]
      /\ late' = late \cup {Write(c) : c \in {d \in conns : job[d].phase = "put"}}
      /\ Lose(conns) /\ UNCHANGED store
  BY <1>1, Zenon DEF Shutdown
<1>3. StoreInv'
  BY <1>2 DEF BrokerInv, StoreInv, store
<1>4. JobsInv'
  BY <1>2 DEF BrokerInv, JobsInv
<1>5. LateInv'
  <2>1. \A d \in conns : job[d].phase = "put" => Write(d) \in GoodWrites
    BY <1>1, WriteType
  <2> QED BY <1>2, <2>1 DEF BrokerInv, LateInv
<1>6. \A d \in Conns : d \notin conns => job'[d] = job[d]
  BY <1>2
<1>7. ClientsInv'
  BY <1>2, <1>6, LoseType
<1>8. ASSUME NEW a \in Brokers, lock'[a] # Nobody
      PROVE  /\ lock'[a] \in Conns /\ BrokerOf[lock'[a]] = a
             /\ Asking(lock[a], "OffsetCommit", "load")' \/ Asking(lock[a], "OffsetCommit", "put")'
  <2>1. lock'[a] = lock[a] /\ a # b
    BY <1>2, <1>8 DEF BrokerInv, LockInv
  <2>2. /\ lock[a] \in Conns /\ BrokerOf[lock[a]] = a
        /\ Asking(lock[a], "OffsetCommit", "load") \/ Asking(lock[a], "OffsetCommit", "put")
    BY <1>8, <2>1 DEF BrokerInv, LockInv
  <2>3. lock[a] \notin conns
    BY <1>1, <2>1, <2>2
  <2>4. job'[lock[a]] = job[lock[a]]
    BY <1>6, <2>2, <2>3
  <2> QED BY <2>1, <2>2, <2>4 DEF Asking
<1>9. LockInv'
  BY <1>2, <1>8 DEF BrokerInv, LockInv, Asking
<1> QED BY <1>3, <1>4, <1>5, <1>7, <1>9 DEF BrokerInv

\* Steps that change only what is stored.
LEMMA StoreStep ==
    ASSUME BrokerInv, StoreInv', UNCHANGED <<job, lock, client>>, late' \subseteq late
    PROVE  BrokerInv'
<1>1. JobsInv' /\ LateInv'
  BY DEF BrokerInv, JobsInv, LateInv
<1>2. ClientsInv'
  BY DEF BrokerInv, ClientsInv, GoodClients
<1>3. LockInv'
  BY DEF BrokerInv, LockInv, Asking
<1> QED BY <1>1, <1>2, <1>3 DEF BrokerInv

\* A late write arrives: it takes effect only on the version it was made for.
LEMMA LateWriteType ==
    ASSUME BrokerInv, LateWrite
    PROVE  BrokerInv'
<1>1. PICK w \in late :
          /\ late' = late \ {w}
          /\ IF Holds(w) THEN Lands(w) ELSE UNCHANGED <<store, history>>
          /\ UNCHANGED <<job, lock, client, bounds>>
  BY DEF LateWrite
<1>2. w \in GoodWrites
  BY DEF BrokerInv, LateInv
<1>3. StoreInv'
  <2>1. CASE Holds(w)
    BY <1>1, <1>2, <2>1, LandsType DEF BrokerInv
  <2>2. CASE ~Holds(w)
    BY <1>1, <2>2 DEF BrokerInv, StoreInv, store
  <2> QED BY <2>1, <2>2
<1> QED BY <1>1, <1>3, StoreStep

\* Retention moves the start of a log to the end of a batch.
LEMMA TrimType ==
    ASSUME BrokerInv, NEW k \in Keys, Trim(k)
    PROVE  BrokerInv'
<1>1. PICK i \in DOMAIN logs[k].batches : logs' = [logs EXCEPT ![k].start = Beyond(logs[k].batches[i])]
  BY DEF Trim
<1>2. PICK log \in Logs : log = logs[k]
  BY DEF BrokerInv, StoreInv
<1>3. PICK cut : cut = [log EXCEPT !.start = Beyond(log.batches[i])]
  OBVIOUS
<1>4. cut \in Logs
  BY <1>1, <1>2, <1>3, TrimmedType
<1>5. logs' = [logs EXCEPT ![k] = cut]
  BY <1>1, <1>2, <1>3
<1>6. logs' \in [Keys -> Logs]
  BY <1>4, <1>5 DEF BrokerInv, StoreInv
<1>7. StoreInv' /\ UNCHANGED <<job, lock, client>> /\ late' = late
  BY <1>6 DEF Trim, BrokerInv, StoreInv
<1> QED BY <1>7, StoreStep

\* ---------------------------------------------------------------- requests
\* The keys at a position are keys of the subscription.
LEMMA LocatedType ==
    ASSUME BrokerInv, NEW k \in Clients, NEW pos
    PROVE  Located(k, pos) \in Seq(Keys)
<1>1. client[k].keys \in Seq(Keys)
  BY ClientFields DEF BrokerInv, ClientsInv
<1> QED BY <1>1, ThoseFacts DEF Located

\* The partitions are among the keys a request may name.
LEMMA KeysAreNames == Keys \subseteq Names
<1>1. PICK all : all = STRING
  OBVIOUS
<1>2. Topics \subseteq all
  BY <1>1, GroupOffsetsAssumption, Zenon
<1>3. 0 .. MaxTopicPartitions - 1 \subseteq Int
  BY GroupOffsetsAssumption
<1>4. Keys \subseteq all \X Int
  BY ONLY <1>2, <1>3 DEF Keys
<1> QED BY <1>1, <1>4, Zenon DEF Names

\* The requests of a consumer are requests.
LEMMA SendableType ==
    ASSUME BrokerInv, NEW k \in Clients
    PROVE  Sendable(k) \subseteq Requests
<1>1. PICK m \in GoodClients(k) : m = client[k]
  BY DEF BrokerInv, ClientsInv
<1>2. ASSUME NEW keys \in Seq(Keys)
      PROVE  AskOffsets(keys) \in Requests /\ AskEarliest(keys) \in Requests
  <2>1. PICK n \in Nat : n = Len(keys) /\ DOMAIN keys = 1 .. n
    BY <1>2
  <2>2. \A i \in 1 .. n : keys[i] \in Names
    BY <1>2, <2>1, ElementType, KeysAreNames
  <2>3. [i \in DOMAIN keys |-> [key |-> keys[i]]] \in Seq([key : Names])
    <3>1. \A i \in 1 .. n : [key |-> keys[i]] \in [key : Names]
      BY <2>2
    <3> QED BY <2>1, <3>1
  <2>4. [i \in DOMAIN keys |-> [key |-> keys[i], timestamp |-> -2]] \in Seq([key : Names, timestamp : Int])
    <3>1. \A i \in 1 .. n : [key |-> keys[i], timestamp |-> -2] \in [key : Names, timestamp : Int]
      BY <2>2
    <3> QED BY <2>1, <3>1
  <2>5. AskOffsets(keys) \in OffsetRequests
    BY <2>3 DEF AskOffsets, OffsetRequests
  <2>6. AskEarliest(keys) \in ListRequests
    BY <2>4 DEF AskEarliest, ListRequests
  <2> QED BY <2>5, <2>6 DEF Requests
<1>3. FetchAt(m.keys, m.pos) \in Requests /\ CommitAt(m.keys, m.pos) \in Requests
  <2>1. PICK keys \in Seq(Keys) : keys = m.keys
    BY ClientFields
  <2>2. PICK n \in Nat : n = Len(keys) /\ DOMAIN keys = 1 .. n
    OBVIOUS
  <2>3. \A i \in 1 .. n : keys[i] \in Names
    BY <2>2, ElementType, KeysAreNames
  <2>4. PICK pos \in [Range(keys) -> Int] : pos = m.pos
    BY <2>1, ClientFields
  <2>5. \A i \in 1 .. n : pos[keys[i]] \in Int
    BY <2>2 DEF Range
  <2>6. [i \in DOMAIN keys |-> [key |-> keys[i], from |-> pos[keys[i]], max |-> PartitionMax]]
            \in Seq([key : Names, from : Int, max : Int])
    <3>1. \A i \in 1 .. n : [key |-> keys[i], from |-> pos[keys[i]], max |-> PartitionMax]
                                \in [key : Names, from : Int, max : Int]
      BY <2>3, <2>5, BrokerAssumption
    <3> QED BY <2>2, <3>1
  <2>7. [i \in DOMAIN keys |-> [key |-> keys[i], offset |-> pos[keys[i]]]] \in Seq(CommitEntries)
    <3>1. \A i \in 1 .. n : [key |-> keys[i], offset |-> pos[keys[i]]] \in CommitEntries
      BY <2>3, <2>5 DEF CommitEntries
    <3> QED BY <2>2, <3>1
  <2>8. FetchAt(keys, pos) \in FetchRequests
    BY <2>6, BrokerAssumption DEF FetchAt, FetchRequests
  <2>9. CommitAt(keys, pos) \in CommitRequests
    BY <2>7 DEF CommitAt, CommitRequests
  <2> QED BY <2>1, <2>4, <2>8, <2>9 DEF Requests
<1>4. m.script # <<>> => Head(m.script) \in Requests
  BY ClientFields
<1>5. Located(k, Unasked) \in Seq(Keys) /\ Located(k, Nowhere) \in Seq(Keys)
  BY LocatedType
<1>6. /\ AskOffsets(Located(k, Unasked)) \in Requests
      /\ AskEarliest(Located(k, Nowhere)) \in Requests
  BY <1>2, <1>5
<1> QED BY <1>1, <1>3, <1>4, <1>6 DEF Sendable

\* A client sends a request, and a handler begins or the frame is refused.
LEMMA SendType ==
    ASSUME BrokerInv, NEW k \in Clients, Send(k)
    PROVE  BrokerInv'
<1>1. PICK m \in GoodClients(k) : m = client[k]
  BY DEF BrokerInv, ClientsInv
<1>2. PICK c \in Conns : c = m.at
  BY ClientFields, BrokerAssumption
<1>3. job[c] = Idle /\ ~m.waiting /\ UNCHANGED store /\ lock' = lock /\ late' = late
  BY <1>1, <1>2 DEF Send
<1>4. PICK req \in Requests :
          /\ job' = IF Admission(req) = "handle" THEN [job EXCEPT ![c] = Begun(req)] ELSE job
          /\ client' = [client EXCEPT
                 ![k].waiting = Admission(req) = "handle" /\ ~Silent(req),
                 ![k].script = IF @ = <<>> THEN @ ELSE Tail(@),
                 ![k].commits = IF Consumer(k) /\ req.api = "OffsetCommit" THEN @ - 1 ELSE @]
  <2>1. Sendable(k) \subseteq Requests
    BY SendableType
  <2>2. \E req \in Sendable(k) :
          /\ job' = IF Admission(req) = "handle" THEN [job EXCEPT ![c] = Begun(req)] ELSE job
          /\ client' = [client EXCEPT
                 ![k].waiting = Admission(req) = "handle" /\ ~Silent(req),
                 ![k].script = IF @ = <<>> THEN @ ELSE Tail(@),
                 ![k].commits = IF Consumer(k) /\ req.api = "OffsetCommit" THEN @ - 1 ELSE @]
    BY <1>1, <1>2, Zenon DEF Send
  <2> QED BY <2>1, <2>2, Zenon
<1>5. PICK first \in GoodJobs : first = Begun(req)
  BY Begins
<1>6. StoreInv' /\ LateInv'
  BY <1>3 DEF BrokerInv, StoreInv, LateInv, store
<1>7. JobsInv'
  BY <1>4, <1>5 DEF BrokerInv, JobsInv
<1>8. LockInv'
  <2>1. CASE Admission(req) = "handle"
    <3>1. job' = [job EXCEPT ![c] = first]
      BY <1>4, <1>5, <2>1
    <3>2. ~Asking(c, "OffsetCommit", "load") /\ ~Asking(c, "OffsetCommit", "put")
      BY <1>3 DEF Asking
    <3> QED BY <1>3, <3>1, <3>2, LockKept
  <2>2. CASE Admission(req) # "handle"
    <3>1. job' = job
      BY <1>4, <2>2
    <3> QED BY <1>3, <3>1 DEF BrokerInv, LockInv, Asking
  <2> QED BY <2>1, <2>2
<1>9. \A d \in Conns : job[d] # Idle => job'[d] # Idle
  BY <1>3, <1>4, Busy
<1>10. Admission(req) = "handle" => job'[c] # Idle
  BY <1>4, <1>5, Busy
<1>11. PICK waiting \in BOOLEAN : waiting = (Admission(req) = "handle" /\ ~Silent(req))
  OBVIOUS
<1>12. PICK script \in Seq(Requests) : script = IF m.script = <<>> THEN m.script ELSE Tail(m.script)
  <2>1. m.script \in Seq(Requests)
    BY ClientFields
  <2>2. m.script # <<>> => Tail(m.script) \in Seq(Requests)
    BY ONLY <2>1
  <2> QED BY <2>1, <2>2
<1>13. PICK commits \in Int :
           commits = IF Consumer(k) /\ req.api = "OffsetCommit" THEN m.commits - 1 ELSE m.commits
  BY ClientFields
<1>14. PICK n : n = [m EXCEPT !.waiting = waiting, !.script = script, !.commits = commits]
  OBVIOUS
<1>15. client' = [client EXCEPT ![k] = n]
  <2>1. DOMAIN client = Clients
    BY DEF BrokerInv, ClientsInv
  <2>2. m = [at |-> m.at, waiting |-> m.waiting, script |-> m.script, commits |-> m.commits,
             keys |-> m.keys, pos |-> m.pos]
    BY ClientRecord
  <2> QED BY <1>1, <1>4, <1>11, <1>12, <1>13, <1>14, <2>1, <2>2, Zenon
<1>16. n = [at |-> m.at, waiting |-> waiting, script |-> script, commits |-> commits,
            keys |-> m.keys, pos |-> m.pos]
  <2>1. m = [at |-> m.at, waiting |-> m.waiting, script |-> m.script, commits |-> m.commits,
             keys |-> m.keys, pos |-> m.pos]
    BY ClientRecord
  <2> QED BY ONLY <1>14, <2>1
<1>17. n \in GoodClients(k)
  BY <1>16, ChangedClient, ClientFields
<1>18. ASSUME NEW l \in Clients
       PROVE  client'[l] \in GoodClients(l) /\ (client'[l].waiting => job'[client'[l].at] # Idle)
  <2>1. CASE l = k
    <3>1. client'[l] = n
      BY <1>15, <2>1 DEF BrokerInv, ClientsInv
    <3>2. n.waiting => Admission(req) = "handle"
      BY <1>11, <1>16
    <3>3. n.at = c
      BY <1>2, <1>16
    <3> QED BY <1>10, <1>17, <2>1, <3>1, <3>2, <3>3
  <2>2. CASE l # k
    <3>1. client'[l] = client[l] /\ client[l] \in GoodClients(l)
      BY <1>15, <2>2 DEF BrokerInv, ClientsInv
    <3>2. client[l].at \in Conns
      BY <3>1, ClientFields, BrokerAssumption
    <3> QED BY <1>9, <3>1, <3>2 DEF BrokerInv, ClientsInv
  <2> QED BY <2>1, <2>2
<1>19. ClientsInv'
  <2>1. DOMAIN client' = Clients
    BY <1>15 DEF BrokerInv, ClientsInv
  <2> QED BY <1>18, <2>1 DEF ClientsInv, GoodClients
<1> QED BY <1>6, <1>7, <1>8, <1>19 DEF BrokerInv

\* ------------------------------------------------------------- the theorem
\* The worlds the brokers start in.
LEMMA InitType == Init => BrokerInv
<1> SUFFICES ASSUME Init PROVE BrokerInv
  OBVIOUS
<1>1. PICK w \in Workloads :
        /\ topics = w.topics /\ logs = w.logs
        /\ offsets = Missing /\ counter = Missing
        /\ job = [c \in Conns |-> Idle] /\ lock = [b \in Brokers |-> Nobody]
        /\ late = {}
        /\ client = [k \in Clients |->
               [at |-> First[k], waiting |-> FALSE, script |-> w.scripts[k],
                commits |-> w.commits[k],
                keys |-> w.subscribed[k],
                pos |-> [key \in Range(w.subscribed[k]) |-> Unasked]]]
  BY DEF Init
<1>2. /\ w.topics \in [Topics -> 0 .. MaxTopicPartitions] /\ w.logs \in [Keys -> Logs]
      /\ w.scripts \in [Clients -> Seq(Requests)] /\ w.subscribed \in [Clients -> Seq(Keys)]
      /\ w.commits \in [Clients -> Nat]
  BY WorldsAssumption
<1>3. StoreInv
  BY <1>1, <1>2 DEF StoreInv, ManifestObjects, CounterObjects
<1>4. JobsInv /\ LateInv /\ LockInv
  BY <1>1 DEF JobsInv, LateInv, LockInv
<1>5. ASSUME NEW k \in Clients PROVE client[k] \in GoodClients(k) /\ client[k].waiting = FALSE
  <2>1. PICK keys \in Seq(Keys) : keys = w.subscribed[k]
    BY <1>2
  <2>2. PICK pos : pos = [key \in Range(keys) |-> Unasked]
    OBVIOUS
  <2>3. PICK ks \in SUBSET Keys : ks = Range(keys)
    <3>1. \A i \in DOMAIN keys : keys[i] \in Keys
      BY ONLY keys \in Seq(Keys)
    <3>2. Range(keys) \subseteq Keys
      BY <3>1 DEF Range
    <3> QED BY <3>2
  <2>4. pos \in [ks -> Int]
    BY <2>2, <2>3 DEF Unasked
  <2>5. client[k] = [at |-> First[k], waiting |-> FALSE, script |-> w.scripts[k],
                     commits |-> w.commits[k], keys |-> keys, pos |-> pos]
    BY <1>1, <2>1, <2>2
  <2>6. First[k] \in Dials[k] /\ w.scripts[k] \in Seq(Requests) /\ w.commits[k] \in Int
    BY <1>2, BrokerAssumption
  <2>7. pos \in UNION {[ms -> Int] : ms \in SUBSET Keys}
    BY <2>4
  <2> QED BY <2>3, <2>4, <2>5, <2>6, <2>7 DEF GoodClients
<1>6. ClientsInv
  <2>1. DOMAIN client = Clients
    BY <1>1
  <2> QED BY <1>5, <2>1 DEF ClientsInv
<1> QED BY <1>3, <1>4, <1>6 DEF BrokerInv

\* Every step keeps the inductive invariant.
LEMMA NextType == BrokerInv /\ [Next]_vars => BrokerInv'
<1> SUFFICES ASSUME BrokerInv, [Next]_vars PROVE BrokerInv'
  OBVIOUS
<1>1. ASSUME NEW c \in Conns, Handle(c) PROVE BrokerInv'
  BY <1>1, ServeFetchType, ServeListType, CheckTopicType, ServeProduceType, ServeMetadataType,
     ListTopicsType, LoadCounterType, FenceType, LoadForCommitType, LoadForFetchType, PutType,
     ReplyType DEF Handle
<1>2. ASSUME NEW c \in Conns, ItemFails(c) \/ StoreFails(c) \/ ListingFails(c) PROVE BrokerInv'
  BY <1>2, ItemFailsType, StoreFailsType, ListingFailsType
<1>3. ASSUME NEW k \in Clients, Send(k) \/ HangUp(k) PROVE BrokerInv'
  BY <1>3, SendType, HangUpType
<1>4. ASSUME NEW b \in Brokers, Shutdown(b) PROVE BrokerInv'
  BY <1>4, ShutdownType
<1>5. ASSUME NEW k \in Keys, Trim(k) PROVE BrokerInv'
  BY <1>5, TrimType
<1>6. CASE LateWrite
  BY <1>6, LateWriteType
<1>7. CASE UNCHANGED vars
  <2>1. StoreInv' /\ UNCHANGED <<job, lock, client>> /\ late' = late
    BY <1>7 DEF BrokerInv, StoreInv, vars, store
  <2> QED BY <2>1, StoreStep
<1> QED BY <1>1, <1>2, <1>3, <1>4, <1>5, <1>6, <1>7 DEF Next

(***************************************************************************)
(* In every reachable state each handler is where its request allows, with *)
(* the answers of its API so far; a handler that is going to write, and a  *)
(* write under way of one that is gone, has checked what it writes.        *)
(***************************************************************************)
THEOREM HandlersInvariant == Spec => []BrokerInv
<1>1. Init => BrokerInv
  BY InitType
<1>2. BrokerInv /\ [Next]_vars => BrokerInv'
  BY NextType
<1> QED BY <1>1, <1>2, PTL DEF Spec

\* What a run checks of the types and of the group's slot, for every world.
LEMMA TypesFollow == BrokerInv => TypeOK
<1> SUFFICES ASSUME BrokerInv PROVE TypeOK
  OBVIOUS
<1>1. topics \in [Topics -> 0 .. MaxTopicPartitions]
  BY DEF BrokerInv, StoreInv
<1>2. ASSUME NEW k \in Keys PROVE logs[k].start \in 0 .. End(logs[k])
  <2>1. logs[k] \in Logs
    BY DEF BrokerInv, StoreInv
  <2>2. logs[k].start \in Nat /\ logs[k].start <= End(logs[k]) /\ End(logs[k]) \in Nat
    BY <2>1, Known DEF BrokerInv, Logs
  <2> QED BY <2>2
<1>3. ASSUME NEW c \in Conns, job[c] # Idle
      PROVE  /\ job[c].phase \in {"items", "fence", "load", "put", "reply"}
             /\ job[c].tries \in 0 .. MaxAttempts /\ job[c].left \in 0 .. MaxPayload
  <2>1. PICK j \in GoodJobs : j = job[c]
    BY <1>3, Busy
  <2>2. j.phase \in Phases /\ j.tries \in 0 .. MaxAttempts - 1 /\ j.left \in 0 .. MaxPayload
    BY JobFields
  <2>3. j.tries \in 0 .. MaxAttempts
    BY <2>2, BrokerAssumption
  <2> QED BY <2>1, <2>2, <2>3 DEF Phases
<1>4. \A k \in Clients :
          client[k].at \in Dials[k] /\ (client[k].waiting => job[client[k].at] # Idle)
  BY ClientFields DEF BrokerInv, ClientsInv
<1>5. \A b \in Brokers : lock[b] # Nobody =>
          /\ BrokerOf[lock[b]] = b
          /\ Asking(lock[b], "OffsetCommit", "load") \/ Asking(lock[b], "OffsetCommit", "put")
  BY DEF BrokerInv, LockInv
<1> QED BY <1>1, <1>2, <1>3, <1>4, <1>5 DEF TypeOK

(***************************************************************************)
(* TypeOK: the types, positions and counts of handlers and clients, and    *)
(* that the group's slot is held only by a commit that is between its      *)
(* admission and its end, on that broker.                                  *)
(***************************************************************************)
THEOREM HandlersTyped == Spec => []TypeOK
  BY HandlersInvariant, TypesFollow, PTL

\* --------------------------------------------------- who changes which state
\* What a step does to the objects of the offsets and of the counter.
LEMMA ObjectSteps ==
    ASSUME BrokerInv, [Next]_vars
    PROVE  \/ UNCHANGED <<offsets, counter, latest>>
           \/ \E w \in GoodWrites : Holds(w) /\ Lands(w)
<1>1. ASSUME NEW c \in Conns, Put(c)
      PROVE  \/ UNCHANGED <<offsets, counter, latest>>
             \/ \E w \in GoodWrites : Holds(w) /\ Lands(w)
  <2>1. PICK w \in GoodWrites : w = Write(c)
    BY <1>1, WriteType DEF Put
  <2>2. CASE Holds(w)
    <3>1. Lands(w)
      BY <1>1, <2>1, <2>2 DEF Put
    <3> QED BY <2>2, <3>1
  <2>3. CASE ~Holds(w)
    BY <1>1, <2>1, <2>3 DEF Put, store, history
  <2> QED BY <2>2, <2>3
<1>2. ASSUME LateWrite
      PROVE  \/ UNCHANGED <<offsets, counter, latest>>
             \/ \E w \in GoodWrites : Holds(w) /\ Lands(w)
  <2>1. PICK w \in late : IF Holds(w) THEN Lands(w) ELSE UNCHANGED <<store, history>>
    BY <1>2 DEF LateWrite
  <2>2. w \in GoodWrites
    BY DEF BrokerInv, LateInv
  <2> QED BY <2>1, <2>2 DEF store, history
<1>3. ASSUME NEW c \in Conns, Handle(c) /\ ~Put(c) PROVE UNCHANGED <<offsets, counter, latest>>
  BY <1>3 DEF Handle, ServeFetch, ServeListOffsets, CheckTopic, ServeProduce, ServeMetadata,
              ListTopics, LoadCounter, Fence, LoadForCommit, LoadForFetch, Reply, Appends, Creates,
              Keep, store, history
<1>4. ASSUME NEW c \in Conns, ItemFails(c) \/ StoreFails(c) \/ ListingFails(c)
      PROVE  UNCHANGED <<offsets, counter, latest>>
  BY <1>4 DEF ItemFails, StoreFails, ListingFails, DoneBefore, Appends, Creates, store, history
<1>5. ASSUME NEW k \in Clients, Send(k) \/ HangUp(k) PROVE UNCHANGED <<offsets, counter, latest>>
  BY <1>5 DEF Send, HangUp, store, history
<1>6. ASSUME NEW b \in Brokers, Shutdown(b) PROVE UNCHANGED <<offsets, counter, latest>>
  BY <1>6 DEF Shutdown, store, history
<1>7. ASSUME NEW k \in Keys, Trim(k) PROVE UNCHANGED <<offsets, counter, latest>>
  BY <1>7 DEF Trim, history
<1>8. CASE UNCHANGED vars
  BY <1>8 DEF vars, store, history
<1> QED BY <1>1, <1>2, <1>3, <1>4, <1>5, <1>6, <1>7, <1>8 DEF Next

\* ------------------------------------------------------ the group's offsets
OffsetsInv == NoLostCommit /\ ManifestReadable

\* At first nothing is committed.
LEMMA InitOffsets == Init => OffsetsInv
  BY DEF Init, OffsetsInv, NoLostCommit, ManifestReadable, Loaded, EmptyManifest, Readable

\* Every step keeps the manifest and its history together.
LEMMA NextOffsets == BrokerInv /\ OffsetsInv /\ [Next]_vars => OffsetsInv'
<1> SUFFICES ASSUME BrokerInv, OffsetsInv, [Next]_vars PROVE OffsetsInv'
  OBVIOUS
<1>1. CASE UNCHANGED <<offsets, counter, latest>>
  BY <1>1 DEF OffsetsInv, NoLostCommit, ManifestReadable
<1>2. ASSUME NEW w \in GoodWrites, Holds(w), Lands(w) PROVE OffsetsInv'
  <2>1. CASE w.object = "counter"
    BY <1>2, <2>1 DEF Lands, OffsetsInv, NoLostCommit, ManifestReadable
  <2>2. CASE w.object # "counter"
    <3>1. /\ w.base \in ManifestObjects /\ w.commits \in Seq(CommitEntries)
          /\ CommitFault(w.commits) = "none" /\ UnderLimit(w.base, w.commits)
      BY <2>2 DEF GoodWrites
    <3>2. offsets = w.base /\ offsets' = Revised(offsets, w.commits) /\ latest' = Overlaid(latest, w.commits)
      BY <1>2, <2>2 DEF Lands, Holds, Current
    <3>3. offsets' \in Manifests /\ Readable(offsets')
      BY <3>1, <3>2, RevisedFacts
    <3>4. offsets' # Missing
      BY <3>3, GroupOffsetsAssumption
    <3>5. Loaded(offsets').offsets = Overlaid(Loaded(offsets).offsets, w.commits)
      BY <3>2, <3>4 DEF Loaded, Revised
    <3>6. Loaded(offsets).offsets = latest
      BY DEF OffsetsInv, NoLostCommit
    <3>7. Loaded(offsets').offsets = latest'
      BY <3>2, <3>5, <3>6
    <3> QED BY <3>3, <3>7 DEF OffsetsInv, NoLostCommit, ManifestReadable
  <2> QED BY <2>1, <2>2
<1> QED BY <1>1, <1>2, ObjectSteps

(***************************************************************************)
(* NoLostCommit: the manifest is what all stored commits, in their order,  *)
(* make of it, however brokers race, repeat their writes or leave them     *)
(* under way: a conditional write lands only on what its handler has read. *)
(***************************************************************************)
THEOREM CommitsKept == Spec => []NoLostCommit
<1>1. Init => OffsetsInv
  BY InitOffsets
<1>2. BrokerInv /\ OffsetsInv /\ [Next]_vars => OffsetsInv'
  BY NextOffsets
<1>3. OffsetsInv => NoLostCommit
  BY DEF OffsetsInv
<1> QED BY <1>1, <1>2, <1>3, HandlersInvariant, PTL DEF Spec

(***************************************************************************)
(* ManifestReadable: whoever reads the group's manifest accepts it, since  *)
(* a commit is checked with what it is added to, not on its own.           *)
(***************************************************************************)
THEOREM ManifestsAccepted == Spec => []ManifestReadable
<1>1. Init => OffsetsInv
  BY InitOffsets
<1>2. BrokerInv /\ OffsetsInv /\ [Next]_vars => OffsetsInv'
  BY NextOffsets
<1>3. OffsetsInv => ManifestReadable
  BY DEF OffsetsInv
<1> QED BY <1>1, <1>2, <1>3, HandlersInvariant, PTL DEF Spec

\* What a step does to the request of one connection.
LEMMA JobSteps ==
    ASSUME BrokerInv, [Next]_vars, NEW c \in Conns
    PROVE  \/ job'[c] = job[c] \/ job'[c] = Idle
           \/ /\ job[c] = Idle
              /\ \E req \in Requests, k \in Clients : req \in Sendable(k) /\ job'[c] = Begun(req)
           \/ Handle(c) /\ ~Reply(c)
           \/ ItemFails(c) \/ StoreFails(c)
<1>1. DOMAIN job = Conns
  BY Busy
<1>2. ASSUME NEW d \in Conns, d # c, Handle(d) PROVE job'[c] = job[c]
  <2>1. CASE ServeFetch(d)
    <3>1. \E next : job' = [job EXCEPT ![d] = next]
      BY <2>1, Zenon DEF ServeFetch
    <3> QED BY <1>1, <1>2, <3>1
  <2>2. CASE ServeProduce(d)
    <3>1. \E next : job' = [job EXCEPT ![d] = next]
      BY <2>2 DEF ServeProduce
    <3> QED BY <1>1, <1>2, <3>1
  <2>3. CASE ServeMetadata(d)
    <3>1. \E next : job' = [job EXCEPT ![d] = next]
      BY <2>3 DEF ServeMetadata
    <3> QED BY <1>1, <1>2, <3>1
  <2>4. CASE ServeListOffsets(d) \/ CheckTopic(d) \/ ListTopics(d) \/ LoadCounter(d)
    BY <1>1, <1>2, <2>4 DEF ServeListOffsets, CheckTopic, ListTopics, LoadCounter
  <2>5. CASE Fence(d) \/ LoadForCommit(d) \/ LoadForFetch(d)
    BY <1>1, <1>2, <2>5 DEF Fence, LoadForCommit, LoadForFetch, Finished
  <2>6. CASE Put(d) \/ Reply(d)
    BY <1>1, <1>2, <2>6 DEF Put, Reply, Finished
  <2> QED BY <1>2, <2>1, <2>2, <2>3, <2>4, <2>5, <2>6 DEF Handle
<1>3. ASSUME NEW d \in Conns, d # c, ItemFails(d) \/ StoreFails(d) PROVE job'[c] = job[c]
  BY <1>1, <1>3 DEF ItemFails, StoreFails, Finished
<1>4. ASSUME NEW d \in Conns, Reply(d) \/ ListingFails(d) PROVE job'[c] = job[c] \/ job'[c] = Idle
  BY <1>1, <1>4 DEF Reply, ListingFails
<1>5. ASSUME NEW k \in Clients, Send(k)
      PROVE  \/ job'[c] = job[c]
             \/ /\ job[c] = Idle
                /\ \E req \in Requests : req \in Sendable(k) /\ job'[c] = Begun(req)
  <2>1. PICK d : d = client[k].at
    OBVIOUS
  <2>2. job[d] = Idle
    BY <1>5, <2>1 DEF Send
  <2>3. PICK req \in Sendable(k) :
            job' = IF Admission(req) = "handle" THEN [job EXCEPT ![d] = Begun(req)] ELSE job
    BY <1>5, <2>1, Zenon DEF Send
  <2>4. req \in Requests
    BY SendableType
  <2> QED BY <1>1, <2>2, <2>3, <2>4
<1>6. ASSUME NEW k \in Clients, HangUp(k) PROVE job'[c] = job[c]
  BY <1>6 DEF HangUp
<1>7. ASSUME NEW b \in Brokers, Shutdown(b) PROVE job'[c] = job[c] \/ job'[c] = Idle
  BY <1>7 DEF Shutdown
<1>8. CASE LateWrite \/ (\E k \in Keys : Trim(k)) \/ UNCHANGED vars
  BY <1>8 DEF LateWrite, Trim, vars
<1> QED BY <1>2, <1>3, <1>4, <1>5, <1>6, <1>7, <1>8 DEF Next

\* What a handler holds that has answered one more item.
LEMMA WithFields ==
    ASSUME BrokerInv, NEW c \in Conns, job[c] # Idle, NEW a, NEW next, next = With(c, a)
    PROVE  /\ DOMAIN next = DOMAIN job[c]
           /\ next.answers = Append(job[c].answers, a)
           /\ next.phase = Following(job[c].req, Len(job[c].answers) + 1)
           /\ next.req = job[c].req /\ next.first = job[c].first /\ next.left = job[c].left
           /\ next.base = job[c].base /\ next.fault = job[c].fault /\ next.stored = job[c].stored
<1>1. PICK j \in GoodJobs : j = job[c]
  BY Busy
<1>2. PICK answers : answers = Append(j.answers, a)
  OBVIOUS
<1>3. PICK phase : phase = Following(j.req, Len(j.answers) + 1)
  OBVIOUS
<1>4. next = [j EXCEPT !.answers = answers, !.phase = phase]
  BY <1>1, <1>2, <1>3 DEF With
<1>5. /\ DOMAIN next = DOMAIN j /\ next.answers = answers /\ next.phase = phase
      /\ next.req = j.req /\ next.first = j.first /\ next.left = j.left
      /\ next.base = j.base /\ next.fault = j.fault /\ next.stored = j.stored
  BY <1>4, JobFields DEF Jobs
<1> QED BY <1>1, <1>2, <1>3, <1>4, <1>5

\* What a handler that has its response holds.
LEMMA FinishedFields ==
    ASSUME BrokerInv, NEW c \in Conns, job[c] # Idle, NEW f, NEW next, next = Finished(c, f)[c]
    PROVE  /\ next.req = job[c].req /\ next.phase = "reply" /\ next.stored = job[c].stored
           /\ next.fault = f /\ next.base = job[c].base
           /\ next.answers = Response(job[c], f, offsets)
<1>1. PICK j \in GoodJobs : j = job[c]
  BY Busy
<1>2. PICK last : last = [j EXCEPT !.phase = "reply", !.fault = f, !.answers = Response(j, f, offsets)]
  OBVIOUS
<1>3. Finished(c, f) = [job EXCEPT ![c] = last]
  BY <1>1, <1>2, FinishedIs
<1>4. next = last
  BY <1>3, Busy
<1> QED BY <1>1, <1>2, <1>4, JobFields DEF Jobs

\* A handler goes on with the request it has, though it may list its topics.
LEMMA ApiKept ==
    ASSUME BrokerInv, NEW c \in Conns, (Handle(c) /\ ~Reply(c)) \/ ItemFails(c) \/ StoreFails(c)
    PROVE  /\ job[c] # Idle /\ job'[c].req.api = job[c].req.api
           /\ job[c].req.api # "Metadata" => job'[c].req = job[c].req
<1>1. job[c] # Idle
  BY DEF Handle, ServeFetch, ServeListOffsets, CheckTopic, ServeProduce, ServeMetadata, ListTopics,
         LoadCounter, Fence, LoadForCommit, LoadForFetch, Put, ItemFails, StoreFails, Asking
<1>2. PICK j \in GoodJobs : j = job[c]
  BY <1>1, Busy
<1>3. ASSUME NEW a, job' = [job EXCEPT ![c] = With(c, a)] PROVE job'[c].req = job[c].req
  <2>1. PICK w : w = With(c, a)
    OBVIOUS
  <2>2. job'[c] = w
    BY <1>3, <2>1, Busy
  <2> QED BY <1>1, <2>1, <2>2, WithFields
<1>4. ASSUME NEW f, job' = Finished(c, f) PROVE job'[c].req = job[c].req
  BY <1>1, <1>4, FinishedFields
<1>5. CASE ServeFetch(c)
  <2>1. PICK a, left, first : job' = [job EXCEPT ![c] = [With(c, a) EXCEPT !.left = left, !.first = first]]
    BY <1>5, Zenon DEF ServeFetch
  <2>2. PICK w : w = With(c, a)
    OBVIOUS
  <2>3. DOMAIN w = DOMAIN j /\ w.req = j.req
    BY <1>1, <1>2, <2>2, WithFields
  <2>4. job'[c] = [w EXCEPT !.left = left, !.first = first]
    BY <2>1, <2>2, Busy
  <2>5. "req" \in DOMAIN w
    BY <2>3, JobFields DEF Jobs
  <2>6. PICK next : next = [w EXCEPT !.left = left, !.first = first]
    OBVIOUS
  <2>7. next.req = w.req
    BY ONLY <2>5, <2>6
  <2> QED BY <1>1, <1>2, <2>3, <2>4, <2>6, <2>7
<1>6. CASE ServeListOffsets(c) \/ ServeProduce(c) \/ ServeMetadata(c) \/ CheckTopic(c) \/ ItemFails(c)
  <2>1. \E a : job' = [job EXCEPT ![c] = With(c, a)]
    BY <1>6 DEF ServeListOffsets, ServeProduce, ServeMetadata, CheckTopic, ItemFails
  <2> QED BY <1>1, <1>3, <2>1
<1>7. CASE ListTopics(c)
  <2>1. PICK items : items = SetToSeq(Requested(job[c].req))
    OBVIOUS
  <2>2. PICK req : req = [j.req EXCEPT !.items = items]
    OBVIOUS
  <2>3. PICK phase : job' = [job EXCEPT ![c].req = req, ![c].phase = phase]
    BY <1>2, <1>7, <2>1, <2>2 DEF ListTopics
  <2>4. j.req.api = "Metadata" /\ req.api = j.req.api
    <3>1. j.req \in MetadataRequests
      BY <1>2, <1>7, JobFields, Kinds DEF ListTopics, Asking
    <3> QED BY <2>2, <3>1 DEF MetadataRequests
  <2>5. job'[c] = [j EXCEPT !.req = req, !.phase = phase]
    BY <1>2, <2>3, Busy
  <2>6. job'[c].req = req
    BY <2>5, JobFields DEF Jobs
  <2> QED BY <1>1, <1>2, <2>4, <2>6
<1>8. CASE LoadCounter(c)
  <2>1. job'[c] = [j EXCEPT !.base = counter, !.phase = "put"]
    BY <1>2, <1>8, Busy DEF LoadCounter
  <2> QED BY <1>1, <1>2, <2>1, JobFields DEF Jobs
<1>9. CASE LoadForFetch(c) \/ StoreFails(c)
  <2>1. \E f : job' = Finished(c, f)
    BY <1>9 DEF LoadForFetch, StoreFails
  <2> QED BY <1>1, <1>4, <2>1
<1>10. CASE Fence(c)
  <2>1. PICK commits : commits = ValidCommits(job[c].req, job[c].answers)
    OBVIOUS
  <2>2. \/ \E f : job' = Finished(c, f)
        \/ job' = [job EXCEPT ![c].phase = "load", ![c].commits = commits]
    BY <1>10, <2>1, Zenon DEF Fence
  <2>3. ASSUME job' = [job EXCEPT ![c].phase = "load", ![c].commits = commits]
        PROVE  job'[c].req = job[c].req
    <3>1. job'[c] = [j EXCEPT !.phase = "load", !.commits = commits]
      BY <1>2, <2>3, Busy
    <3> QED BY <1>2, <3>1, JobFields DEF Jobs
  <2> QED BY <1>1, <1>4, <2>2, <2>3
<1>11. CASE LoadForCommit(c)
  <2>1. \/ \E f : job' = Finished(c, f)
        \/ job' = [job EXCEPT ![c].base = offsets, ![c].phase = "put"]
    BY <1>11 DEF LoadForCommit
  <2>2. ASSUME job' = [job EXCEPT ![c].base = offsets, ![c].phase = "put"]
        PROVE  job'[c].req = job[c].req
    <3>1. job'[c] = [j EXCEPT !.base = offsets, !.phase = "put"]
      BY <1>2, <2>2, Busy
    <3> QED BY <1>2, <3>1, JobFields DEF Jobs
  <2> QED BY <1>1, <1>4, <2>1, <2>2
<1>12. CASE Put(c)
  <2>1. \/ \E f : job' = Finished(c, f)
        \/ \E stored : job' = [Finished(c, "none") EXCEPT ![c].stored = stored]
        \/ job' = [job EXCEPT ![c].tries = @ + 1, ![c].phase = "load"]
    BY <1>12 DEF Put
  <2>2. ASSUME job' = [job EXCEPT ![c].tries = @ + 1, ![c].phase = "load"]
        PROVE  job'[c].req = job[c].req
    <3>1. job'[c] = [j EXCEPT !.tries = j.tries + 1, !.phase = "load"]
      BY <1>2, <2>2, Busy
    <3> QED BY <1>2, <3>1, JobFields DEF Jobs
  <2>3. ASSUME NEW stored, job' = [Finished(c, "none") EXCEPT ![c].stored = stored]
        PROVE  job'[c].req = job[c].req
    <3>1. /\ job[c].phase \in {"fence", "load", "put"} /\ job[c].req.api # "Metadata" /\ "none" \in Codes
          /\ job[c].req.api = "InitProducerId" /\ "none" = "none" => job[c].phase = "put"
      BY <1>2, <1>12, JobFields DEF Put, Progress, Codes
    <3>2. PICK rec \in GoodJobs : Finished(c, "none") = [job EXCEPT ![c] = rec]
      BY <1>1, <3>1, FinishedStep
    <3>3. rec.req = j.req
      BY <1>1, <1>2, <3>2, FinishedFields, Busy
    <3>4. job'[c] = [rec EXCEPT !.stored = stored]
      BY <2>3, <3>2, Busy
    <3> QED BY <1>2, <3>3, <3>4, JobFields DEF Jobs
  <2> QED BY <1>1, <1>4, <2>1, <2>2, <2>3
<1> QED BY <1>1, <1>2, <1>5, <1>6, <1>7, <1>8, <1>9, <1>10, <1>11, <1>12 DEF Handle

\* --------------------------------------------------- what a commit is told
\* What an admitted commit stores, and what it is told.
AnswersTrue(j) ==
    j.req.api = "OffsetCommit" =>
        /\ j.phase \in {"load", "put"} => j.commits = ValidCommits(j.req, j.answers)
        /\ j.phase = "reply" =>
               \A i \in DOMAIN j.req.items :
                   j.answers[i].code = "none" =>
                       \E n \in DOMAIN j.stored : j.stored[n] = j.req.items[i]

CommitsInv == \A c \in Conns : job[c] # Idle => AnswersTrue(job[c])

\* A request or a group that fails gives no partition success.
LEMMA FailedCommit ==
    ASSUME NEW req \in Requests, NEW checks, NEW fault, fault # "none",
           NEW i \in DOMAIN req.items
    PROVE  CommitAnswers(req, checks, fault)[i].code # "none"
  BY DEF CommitAnswers

\* A partition that is told success was among the valid commits.
LEMMA StoredCommit ==
    ASSUME NEW j \in GoodJobs, j.req.api = "OffsetCommit", j.phase \in {"fence", "load", "put"},
           NEW i \in DOMAIN j.req.items,
           CommitAnswers(j.req, j.answers, "none")[i].code = "none"
    PROVE  \E n \in DOMAIN ValidCommits(j.req, j.answers) :
               ValidCommits(j.req, j.answers)[n] = j.req.items[i]
<1>1. PICK n \in Nat : n = Len(j.req.items)
  BY JobFields, ItemsAreSequences
<1>2. DOMAIN j.req.items = 1 .. n
  BY <1>1, JobFields, ItemsAreSequences
<1>3. j.answers \in Seq(Answers) /\ Len(j.answers) = n
  BY <1>1, JobFields DEF Progress
<1>4. i \in DOMAIN j.answers
  BY <1>2, <1>3
<1>5. LocalError(j.req, j.answers, j.req.items[i].key) = "none"
  BY DEF CommitAnswers
<1>6. j.answers[i].code = "none"
  BY <1>3, <1>4, <1>5, LocalErrorType
<1>7. PICK items \in Seq(CommitEntries) : items = j.req.items
  BY JobFields, Kinds DEF CommitRequests
<1>8. PICK places : places = {p \in DOMAIN j.answers : j.answers[p].code = "none"}
  OBVIOUS
<1>9. i \in places /\ i \in 1 .. Len(items)
  BY <1>1, <1>2, <1>4, <1>6, <1>7, <1>8
<1>10. PICK s \in Seq(CommitEntries) : s = Those(items, places)
  BY <1>7, ThoseFacts
<1>11. \E p \in 1 .. Len(s) : s[p] = items[i]
  BY ONLY <1>9, <1>10, ThoseFacts
<1>12. DOMAIN s = 1 .. Len(s)
  BY <1>10
<1>13. s = ValidCommits(j.req, j.answers)
  BY <1>7, <1>8, <1>10 DEF ValidCommits
<1> QED BY <1>7, <1>11, <1>12, <1>13

\* A handler of a commit that fails.
LEMMA FailedTrue ==
    ASSUME BrokerInv, NEW c \in Conns, job[c] # Idle, NEW f, f # "none",
           NEW next, next = Finished(c, f)[c]
    PROVE  AnswersTrue(next)
<1>1. PICK j \in GoodJobs : j = job[c]
  BY Busy
<1>2. next = [j EXCEPT !.phase = "reply", !.fault = f, !.answers = Response(j, f, offsets)]
  <2>1. PICK last : last = [j EXCEPT !.phase = "reply", !.fault = f, !.answers = Response(j, f, offsets)]
    OBVIOUS
  <2>2. Finished(c, f) = [job EXCEPT ![c] = last]
    BY <1>1, <2>1, FinishedIs
  <2> QED BY <2>1, <2>2, Busy
<1>3. next.req = j.req /\ next.phase = "reply" /\ next.answers = Response(j, f, offsets)
  BY <1>2, JobFields DEF Jobs
<1>4. CASE j.req.api = "OffsetCommit"
  <2>1. next.answers = CommitAnswers(j.req, j.answers, f)
    BY <1>3, <1>4 DEF Response
  <2>2. \A i \in DOMAIN j.req.items : next.answers[i].code # "none"
    BY <2>1, FailedCommit, JobFields
  <2> QED BY <1>3, <2>2 DEF AnswersTrue
<1> QED BY <1>3, <1>4 DEF AnswersTrue

\* A commit that succeeds, and has stored these entries.
LEMMA SuccessTrue ==
    ASSUME NEW j \in GoodJobs, j.req.api = "OffsetCommit", j.phase \in {"fence", "load", "put"},
           NEW stored, stored = ValidCommits(j.req, j.answers) \/ ValidCommits(j.req, j.answers) = <<>>,
           NEW next, next.req = j.req, next.phase = "reply", next.stored = stored,
           next.answers = CommitAnswers(j.req, j.answers, "none")
    PROVE  AnswersTrue(next)
<1>1. ASSUME NEW i \in DOMAIN j.req.items, next.answers[i].code = "none"
      PROVE  \E n \in DOMAIN stored : stored[n] = j.req.items[i]
  <2>1. PICK n \in DOMAIN ValidCommits(j.req, j.answers) :
            ValidCommits(j.req, j.answers)[n] = j.req.items[i]
    BY <1>1, StoredCommit
  <2>2. ValidCommits(j.req, j.answers) # <<>>
    BY <2>1
  <2> QED BY <2>1, <2>2
<1> QED BY <1>1 DEF AnswersTrue

\* An item that is answered leaves a commit among its items or at the fence.
LEMMA AnsweredTrue ==
    ASSUME BrokerInv, NEW c \in Conns, job[c] # Idle, NEW a, NEW next, next = With(c, a)
    PROVE  next.req = job[c].req /\ AnswersTrue(next)
<1>1. PICK j \in GoodJobs : j = job[c]
  BY Busy
<1>2. PICK answers : answers = Append(j.answers, a)
  OBVIOUS
<1>3. PICK phase : phase = Following(j.req, Len(j.answers) + 1)
  OBVIOUS
<1>4. next = [j EXCEPT !.answers = answers, !.phase = phase]
  BY <1>1, <1>2, <1>3 DEF With
<1>5. next.req = j.req /\ next.phase = phase
  BY <1>4, JobFields DEF Jobs
<1>6. j.req.api = "OffsetCommit" => phase \in {"items", "fence"}
  BY <1>3 DEF Following
<1> QED BY <1>1, <1>5, <1>6 DEF AnswersTrue

\* A commit that begins has told nobody of a success.
LEMMA BegunTrue ==
    ASSUME NEW req \in Requests
    PROVE  AnswersTrue(Begun(req))
<1>1. PICK next : next = Begun(req)
  OBVIOUS
<1>2. next.req = req
  BY <1>1 DEF Begun
<1>3. CASE req.api = "OffsetCommit"
  <2>1. CASE RequestFault(req) = "none"
    <3>1. next.phase \in {"items", "fence"}
      BY <1>1, <1>3, <2>1 DEF Begun, Following
    <3> QED BY <1>1, <3>1 DEF AnswersTrue
  <2>2. CASE RequestFault(req) # "none"
    <3>1. next.phase = "reply" /\ next.answers = CommitAnswers(req, <<>>, RequestFault(req))
      BY <1>1, <1>3, <2>2 DEF Begun
    <3>2. \A i \in DOMAIN req.items : next.answers[i].code # "none"
      BY <2>2, <3>1, FailedCommit
    <3> QED BY <1>1, <1>2, <3>1, <3>2 DEF AnswersTrue
  <2> QED BY <2>1, <2>2
<1> QED BY <1>1, <1>2, <1>3 DEF AnswersTrue

\* A commit that is admitted is going to store what its checks left over.
LEMMA FenceTrue ==
    ASSUME BrokerInv, NEW c \in Conns, Fence(c)
    PROVE  AnswersTrue(job'[c])
<1>1. job[c] # Idle /\ job[c].phase = "fence" /\ job[c].req.api = "OffsetCommit"
  BY DEF Fence, Asking
<1>2. PICK j \in GoodJobs : j = job[c]
  BY <1>1, Busy
<1>3. PICK commits : commits = ValidCommits(job[c].req, job[c].answers)
  OBVIOUS
<1>4. PICK next : next = job'[c]
  OBVIOUS
<1>5. CASE job' = Finished(c, "RebalanceInProgress")
  BY <1>1, <1>5, FailedTrue
<1>6. CASE commits # <<>> /\ CommitFault(commits) # "none" /\ job' = Finished(c, CommitFault(commits))
  BY <1>1, <1>6, FailedTrue
<1>7. CASE commits = <<>> /\ job' = Finished(c, "none")
  <2>1. next.req = j.req /\ next.phase = "reply" /\ next.answers = Response(j, "none", offsets)
    BY <1>1, <1>2, <1>4, <1>7, FinishedFields
  <2>2. next.answers = CommitAnswers(j.req, j.answers, "none")
    BY <1>1, <1>2, <2>1 DEF Response
  <2>3. j.req.api = "OffsetCommit" /\ j.phase \in {"fence", "load", "put"}
        /\ ValidCommits(j.req, j.answers) = <<>>
    BY <1>1, <1>2, <1>3, <1>7
  <2>4. AnswersTrue(next)
    BY <2>1, <2>2, <2>3, SuccessTrue
  <2> QED BY <1>4, <2>4
<1>8. CASE job' = [job EXCEPT ![c].phase = "load", ![c].commits = commits]
  <2>1. next = [j EXCEPT !.phase = "load", !.commits = commits]
    BY <1>2, <1>4, <1>8, Busy
  <2>2. next.req = j.req /\ next.phase = "load" /\ next.commits = commits /\ next.answers = j.answers
    BY <2>1, JobFields DEF Jobs
  <2> QED BY <1>2, <1>3, <1>4, <2>2 DEF AnswersTrue
<1>9. \/ job' = Finished(c, "RebalanceInProgress")
      \/ commits = <<>> /\ job' = Finished(c, "none")
      \/ commits # <<>> /\ CommitFault(commits) # "none" /\ job' = Finished(c, CommitFault(commits))
      \/ job' = [job EXCEPT ![c].phase = "load", ![c].commits = commits]
  BY <1>3, Zenon DEF Fence
<1> QED BY <1>5, <1>6, <1>7, <1>8, <1>9

\* Reading the manifest does not change what a commit will store.
LEMMA LoadTrue ==
    ASSUME BrokerInv, CommitsInv, NEW c \in Conns, LoadForCommit(c)
    PROVE  AnswersTrue(job'[c])
<1>1. job[c] # Idle /\ job[c].phase = "load" /\ job[c].req.api = "OffsetCommit"
  BY DEF LoadForCommit, Asking
<1>2. PICK j \in GoodJobs : j = job[c]
  BY <1>1, Busy
<1>3. PICK next : next = job'[c]
  OBVIOUS
<1>4. CASE Readable(offsets) /\ UnderLimit(offsets, job[c].commits)
  <2>1. job' = [job EXCEPT ![c].base = offsets, ![c].phase = "put"]
    BY <1>4 DEF LoadForCommit
  <2>2. next = [j EXCEPT !.base = offsets, !.phase = "put"]
    BY <1>2, <1>3, <2>1, Busy
  <2>3. next.req = j.req /\ next.phase = "put" /\ next.commits = j.commits /\ next.answers = j.answers
    BY <2>2, JobFields DEF Jobs
  <2> QED BY <1>1, <1>2, <1>3, <2>3 DEF AnswersTrue, CommitsInv
<1>5. CASE ~(Readable(offsets) /\ UnderLimit(offsets, job[c].commits))
  <2>1. PICK f : f = IF Readable(offsets) THEN "InvalidRequest" ELSE "KafkaStorageError"
    OBVIOUS
  <2>2. job' = Finished(c, f) /\ f # "none"
    BY <1>5, <2>1 DEF LoadForCommit
  <2> QED BY <1>1, <2>2, FailedTrue
<1> QED BY <1>4, <1>5

\* A commit that is stored is told so for what it stored, and no other item.
LEMMA PutTrue ==
    ASSUME BrokerInv, CommitsInv, NEW c \in Conns, Put(c)
    PROVE  AnswersTrue(job'[c])
<1>1. job[c] # Idle /\ job[c].phase = "put"
  BY DEF Put
<1>2. PICK j \in GoodJobs : j = job[c]
  BY <1>1, Busy
<1>3. PICK next : next = job'[c]
  OBVIOUS
<1>4. CASE Holds(Write(c))
  <2>1. job' = [Finished(c, "none") EXCEPT ![c].stored = job[c].commits]
    BY <1>4 DEF Put
  <2>2. PICK done : done = Finished(c, "none")[c]
    OBVIOUS
  <2>3. /\ done.req = j.req /\ done.phase = "reply" /\ done.answers = Response(j, "none", offsets)
    BY <1>1, <1>2, <2>2, FinishedFields
  <2>4. PICK rec \in GoodJobs : Finished(c, "none") = [job EXCEPT ![c] = rec]
    <3>1. /\ job[c].phase \in {"fence", "load", "put"} /\ job[c].req.api # "Metadata" /\ "none" \in Codes
          /\ job[c].req.api = "InitProducerId" /\ "none" = "none" => job[c].phase = "put"
      BY <1>1, <1>2, JobFields DEF Progress, Codes
    <3> QED BY <1>1, <3>1, FinishedStep
  <2>5. next = [rec EXCEPT !.stored = j.commits] /\ done = rec
    BY <1>2, <1>3, <2>1, <2>2, <2>4, Busy
  <2>6. /\ next.req = j.req /\ next.phase = "reply" /\ next.answers = Response(j, "none", offsets)
        /\ next.stored = j.commits
    BY <2>3, <2>5, JobFields DEF Jobs
  <2>7. CASE j.req.api = "OffsetCommit"
    <3>1. j.commits = ValidCommits(j.req, j.answers)
      BY <1>1, <1>2, <2>7 DEF CommitsInv, AnswersTrue
    <3>2. next.answers = CommitAnswers(j.req, j.answers, "none")
      BY <2>6, <2>7 DEF Response
    <3>3. j.phase \in {"fence", "load", "put"}
      BY <1>1, <1>2
    <3>4. PICK stored : stored = j.commits
      OBVIOUS
    <3>5. AnswersTrue(next)
      BY ONLY j \in GoodJobs, <2>6, <2>7, <3>1, <3>2, <3>3, <3>4, SuccessTrue
    <3> QED BY <1>3, <3>5
  <2>8. CASE j.req.api # "OffsetCommit"
    BY <1>3, <2>6, <2>8 DEF AnswersTrue
  <2> QED BY <2>7, <2>8
<1>5. CASE ~Holds(Write(c)) /\ j.tries + 1 = MaxAttempts
  <2>1. job' = Finished(c, "KafkaStorageError")
    BY <1>2, <1>5 DEF Put
  <2> QED BY <1>1, <2>1, FailedTrue
<1>6. CASE ~Holds(Write(c)) /\ j.tries + 1 # MaxAttempts
  <2>1. job' = [job EXCEPT ![c].tries = @ + 1, ![c].phase = "load"]
    BY <1>2, <1>6 DEF Put
  <2>2. next = [j EXCEPT !.tries = j.tries + 1, !.phase = "load"]
    BY <1>2, <1>3, <2>1, Busy
  <2>3. next.req = j.req /\ next.phase = "load" /\ next.commits = j.commits /\ next.answers = j.answers
    BY <2>2, JobFields DEF Jobs
  <2> QED BY <1>1, <1>2, <1>3, <2>3 DEF AnswersTrue, CommitsInv
<1> QED BY <1>4, <1>5, <1>6

\* The steps of requests that are not commits.
LEMMA OthersTrue ==
    ASSUME BrokerInv, NEW c \in Conns,
           \/ ServeFetch(c) \/ ServeListOffsets(c) \/ ServeProduce(c) \/ ServeMetadata(c)
           \/ ListTopics(c) \/ LoadCounter(c) \/ LoadForFetch(c)
    PROVE  AnswersTrue(job'[c])
<1>1. job[c].req.api # "OffsetCommit" /\ job[c].phase # "reply"
  BY DEF ServeFetch, ServeListOffsets, ServeProduce, ServeMetadata, ListTopics, LoadCounter,
         LoadForFetch, Asking
<1>2. Handle(c) /\ ~Reply(c)
  BY <1>1 DEF Handle, Reply
<1>3. job'[c].req.api = job[c].req.api
  BY <1>2, ApiKept
<1> QED BY <1>1, <1>3 DEF AnswersTrue

\* Every step keeps the answers of commits true.
LEMMA NextCommits == BrokerInv /\ CommitsInv /\ [Next]_vars => CommitsInv'
<1> SUFFICES ASSUME BrokerInv, CommitsInv, [Next]_vars, NEW c \in Conns, job'[c] # Idle
             PROVE  AnswersTrue(job'[c])
  BY DEF CommitsInv, AnswersTrue, ValidCommits
<1>1. CASE job'[c] = job[c]
  BY <1>1 DEF CommitsInv
<1>2. CASE \E req \in Requests : job'[c] = Begun(req)
  BY <1>2, BegunTrue
<1>3. CASE Handle(c) /\ ~Reply(c)
  <2>1. CASE CheckTopic(c)
    <3>1. PICK a : job' = [job EXCEPT ![c] = With(c, a)]
      BY <2>1 DEF CheckTopic
    <3>2. job[c] # Idle
      BY <2>1 DEF CheckTopic, Asking
    <3> QED BY <3>1, <3>2, AnsweredTrue, Busy
  <2> QED BY <1>3, <2>1, OthersTrue, FenceTrue, LoadTrue, PutTrue DEF Handle
<1>4. CASE ItemFails(c)
  <2>1. job[c] # Idle /\ job' = [job EXCEPT ![c] = With(c, FailedItem(job[c].req))]
    BY <1>4 DEF ItemFails
  <2> QED BY <2>1, AnsweredTrue, Busy
<1>5. CASE StoreFails(c)
  <2>1. job[c] # Idle /\ job' = Finished(c, "KafkaStorageError")
    BY <1>5 DEF StoreFails
  <2> QED BY <2>1, FailedTrue
<1> QED BY <1>1, <1>2, <1>3, <1>4, <1>5, JobSteps

(***************************************************************************)
(* CommitAnswersTrue: a partition that is told success had that very       *)
(* offset stored by this request.  What the handler stores is what its     *)
(* checks left over, and only an entry among it can be told success.       *)
(***************************************************************************)
THEOREM CommitsToldTrue == Spec => []CommitAnswersTrue
<1>1. Init => CommitsInv
  BY DEF Init, CommitsInv
<1>2. BrokerInv /\ CommitsInv /\ [Next]_vars => CommitsInv'
  BY NextCommits
<1>3. CommitsInv => CommitAnswersTrue
  BY DEF CommitsInv, CommitAnswersTrue, AnswersTrue, Asking
<1> QED BY <1>1, <1>2, <1>3, HandlersInvariant, PTL DEF Spec

\* ------------------------------------------------------------ producer IDs
\* A handler whose response carries a producer ID.
Grants(c) == Asking(c, "InitProducerId", "reply") /\ job[c].fault = "none"

(***************************************************************************)
(* Every ID that was received or is about to be received is below the      *)
(* counter, and no two of them are the same.                               *)
(***************************************************************************)
IdsInv ==
    /\ issued \in Seq(Nat) /\ \A i \in DOMAIN issued : issued[i] < NextId(counter)
    /\ IdsUnique
    /\ \A c \in Conns : Grants(c) =>
           /\ NextId(job[c].base) < NextId(counter)
           /\ \A i \in DOMAIN issued : issued[i] # NextId(job[c].base)
    /\ \A c, d \in Conns : c # d /\ Grants(c) /\ Grants(d) =>
           NextId(job[c].base) # NextId(job[d].base)

\* The next ID is a number.
LEMMA NextIdType ==
    ASSUME NEW x \in CounterObjects
    PROVE  NextId(x) \in Nat
  BY DEF CounterObjects, Counters, NextId

\* The counter never goes back.
LEMMA CounterGrows ==
    ASSUME BrokerInv, [Next]_vars
    PROVE  NextId(counter) \in Nat /\ NextId(counter') \in Nat /\ NextId(counter) <= NextId(counter')
<1>1. counter \in CounterObjects /\ counter' \in CounterObjects
  BY NextType DEF BrokerInv, StoreInv
<1>2. NextId(counter) \in Nat /\ NextId(counter') \in Nat
  BY <1>1, NextIdType
<1>3. CASE counter' = counter
  BY <1>2, <1>3
<1>4. ASSUME NEW w \in GoodWrites, Holds(w), Lands(w), counter' # counter
      PROVE  NextId(counter) <= NextId(counter')
  <2>1. counter = w.base /\ counter' = [next_id |-> NextId(w.base) + 1]
    BY <1>4 DEF Holds, Lands, Current
  <2>2. counter' # Missing
    BY <1>2, <2>1, HandlersAssumption DEF Counters
  <2>3. NextId(counter') = NextId(counter) + 1
    BY <2>1, <2>2 DEF NextId
  <2> QED BY <1>2, <2>3
<1> QED BY <1>2, <1>3, <1>4, ObjectSteps

\* A write of the counter grants its ID.
LEMMA PutGrants ==
    ASSUME BrokerInv, NEW c \in Conns, Put(c), Holds(Write(c)), job[c].req.api = "InitProducerId"
    PROVE  /\ NextId(job'[c].base) = NextId(counter) /\ NextId(counter') = NextId(counter) + 1
           /\ issued' = issued /\ \A d \in Conns : d # c => job'[d] = job[d]
<1>1. job[c] # Idle /\ job[c].phase = "put" /\ Lands(Write(c))
      /\ job' = [Finished(c, "none") EXCEPT ![c].stored = job[c].commits]
  BY DEF Put
<1>2. PICK j \in GoodJobs : j = job[c]
  BY <1>1, Busy
<1>3. Write(c) = [object |-> "counter", base |-> j.base, commits |-> j.commits]
  BY <1>2 DEF Write
<1>4. counter = j.base /\ counter' = [next_id |-> NextId(counter) + 1] /\ issued' = issued
  BY <1>1, <1>3 DEF Holds, Lands, Current
<1>5. NextId(counter) \in Nat
  BY NextIdType DEF BrokerInv, StoreInv
<1>6. counter' # Missing
  BY <1>4, <1>5, HandlersAssumption DEF Counters
<1>7. NextId(counter') = NextId(counter) + 1
  BY <1>4, <1>6 DEF NextId
<1>8. /\ job[c].phase \in {"fence", "load", "put"} /\ job[c].req.api # "Metadata" /\ "none" \in Codes
      /\ job[c].req.api = "InitProducerId" /\ "none" = "none" => job[c].phase = "put"
  BY <1>1 DEF Codes
<1>9. PICK rec \in GoodJobs : Finished(c, "none") = [job EXCEPT ![c] = rec]
  BY <1>1, <1>8, FinishedStep
<1>10. Finished(c, "none")[c].base = j.base
  BY <1>1, <1>2, FinishedFields
<1>11. rec.base = j.base
  BY <1>9, <1>10, Busy
<1>12. job' = [job EXCEPT ![c] = [rec EXCEPT !.stored = j.commits]]
  BY <1>1, <1>2, <1>9, Busy
<1>13. job'[c].base = j.base
  BY <1>11, <1>12, Busy, JobFields DEF Jobs
<1>14. \A d \in Conns : d # c => job'[d] = job[d]
  BY <1>12, Busy
<1> QED BY <1>4, <1>7, <1>13, <1>14

\* In any other step nobody is granted an ID.
LEMMA NobodyElseGrants ==
    ASSUME BrokerInv, [Next]_vars, NEW c \in Conns, Grants(c)',
           ~(Put(c) /\ Holds(Write(c)) /\ job[c].req.api = "InitProducerId")
    PROVE  job'[c] = job[c]
<1>1. job'[c] # Idle /\ job'[c].req.api = "InitProducerId" /\ job'[c].phase = "reply"
      /\ job'[c].fault = "none"
  BY DEF Grants, Asking
<1>2. ASSUME NEW req \in Requests, job'[c] = Begun(req) PROVE FALSE
  <2>1. PICK next : next = Begun(req)
    OBVIOUS
  <2>2. next.req = req /\ next.fault = RequestFault(req)
    BY <2>1 DEF Begun
  <2>3. RequestFault(req) = "none" /\ req.api = "InitProducerId"
    BY <1>1, <1>2, <2>1, <2>2
  <2>4. next.phase = "load"
    BY <2>1, <2>3 DEF Begun
  <2> QED BY <1>1, <1>2, <2>1, <2>4
<1>3. ASSUME job[c] # Idle, NEW a, job'[c] = With(c, a), job[c].phase = "items" PROVE FALSE
  <2>1. job'[c].req = job[c].req
    BY <1>3, AnsweredTrue
  <2>2. job[c] \in GoodJobs
    BY <1>3, Busy
  <2> QED BY <1>1, <1>3, <2>1, <2>2, JobFields DEF Progress
<1>4. CASE ItemFails(c)
  <2>1. job[c] # Idle /\ job'[c] = With(c, FailedItem(job[c].req)) /\ job[c].phase = "items"
    BY <1>4, Busy DEF ItemFails
  <2> QED BY <1>3, <2>1
<1>5. ASSUME job[c] # Idle, NEW f, f # "none", job'[c] = Finished(c, f)[c] PROVE FALSE
  BY <1>1, <1>5, FinishedFields
<1>6. CASE StoreFails(c)
  <2>1. job[c] # Idle /\ job'[c] = Finished(c, "KafkaStorageError")[c]
    BY <1>6 DEF StoreFails
  <2> QED BY <1>5, <2>1
<1>7. CASE Put(c)
  <2>1. job[c] # Idle /\ job[c].phase = "put"
    BY <1>7 DEF Put
  <2>2. PICK j \in GoodJobs : j = job[c]
    BY <2>1, Busy
  <2>3. CASE Holds(Write(c))
    <3>1. job' = [Finished(c, "none") EXCEPT ![c].stored = job[c].commits]
      BY <1>7, <2>3 DEF Put
    <3>2. /\ job[c].phase \in {"fence", "load", "put"} /\ job[c].req.api # "Metadata" /\ "none" \in Codes
          /\ job[c].req.api = "InitProducerId" /\ "none" = "none" => job[c].phase = "put"
      BY <2>1, <2>2, JobFields DEF Progress, Codes
    <3>3. PICK rec \in GoodJobs : Finished(c, "none") = [job EXCEPT ![c] = rec]
      BY <2>1, <3>2, FinishedStep
    <3>4. rec.req = j.req
      BY <2>1, <2>2, <3>3, FinishedFields, Busy
    <3>5. job'[c] = [rec EXCEPT !.stored = j.commits]
      BY <2>2, <3>1, <3>3, Busy
    <3>6. job'[c].req = j.req
      BY <3>4, <3>5, JobFields DEF Jobs
    <3> QED BY <1>1, <1>7, <2>2, <2>3, <3>6
  <2>4. CASE ~Holds(Write(c)) /\ j.tries + 1 = MaxAttempts
    BY <1>5, <1>7, <2>1, <2>2, <2>4 DEF Put
  <2>5. CASE ~Holds(Write(c)) /\ j.tries + 1 # MaxAttempts
    <3>1. job' = [job EXCEPT ![c].tries = @ + 1, ![c].phase = "load"]
      BY <1>7, <2>2, <2>5 DEF Put
    <3>2. job'[c] = [j EXCEPT !.tries = j.tries + 1, !.phase = "load"]
      BY <2>2, <3>1, Busy
    <3>3. job'[c].phase = "load"
      BY <3>2, JobFields DEF Jobs
    <3> QED BY <1>1, <3>3
  <2> QED BY <2>3, <2>4, <2>5
<1>8. CASE LoadCounter(c)
  <2>1. PICK j \in GoodJobs : j = job[c]
    BY <1>8, Busy DEF LoadCounter, Asking
  <2>2. job'[c] = [j EXCEPT !.base = counter, !.phase = "put"]
    BY <1>8, <2>1, Busy DEF LoadCounter
  <2>3. job'[c].phase = "put"
    BY <2>2, JobFields DEF Jobs
  <2> QED BY <1>1, <2>3
<1>9. CASE ServeFetch(c) \/ ServeListOffsets(c) \/ ServeProduce(c) \/ ServeMetadata(c)
           \/ ListTopics(c) \/ LoadForFetch(c)
  <2>1. job[c].req.api # "InitProducerId"
    BY <1>9 DEF ServeFetch, ServeListOffsets, ServeProduce, ServeMetadata, ListTopics, LoadForFetch,
                Asking
  <2>2. Handle(c) /\ ~Reply(c)
    <3>1. job[c].phase # "reply"
      BY <1>9 DEF ServeFetch, ServeListOffsets, ServeProduce, ServeMetadata, ListTopics, LoadForFetch,
                  Asking
    <3> QED BY <1>9, <3>1 DEF Handle, Reply
  <2>3. job'[c].req.api = job[c].req.api
    BY <2>2, ApiKept
  <2> QED BY <1>1, <2>1, <2>3
<1>10. CASE Fence(c) \/ LoadForCommit(c) \/ CheckTopic(c)
  <2>1. job[c].req.api # "InitProducerId" /\ job[c].phase # "reply"
    BY <1>10 DEF Fence, LoadForCommit, CheckTopic, Asking
  <2>2. Handle(c) /\ ~Reply(c)
    BY <1>10, <2>1 DEF Handle, Reply
  <2>3. job'[c].req.api = job[c].req.api
    BY <2>2, ApiKept
  <2> QED BY <1>1, <2>1, <2>3
<1> QED BY <1>1, <1>2, <1>4, <1>6, <1>7, <1>8, <1>9, <1>10, JobSteps DEF Handle

\* Who receives an ID.
LEMMA IssuedSteps ==
    ASSUME BrokerInv, [Next]_vars, issued' # issued
    PROVE  \E c \in Conns :
               /\ Grants(c) /\ issued' = Append(issued, NextId(job[c].base)) /\ counter' = counter
               /\ job' = [job EXCEPT ![c] = Idle]
<1>1. ASSUME NEW c \in Conns, Reply(c)
      PROVE  /\ Grants(c) /\ issued' = Append(issued, NextId(job[c].base)) /\ counter' = counter
             /\ job' = [job EXCEPT ![c] = Idle]
  BY <1>1 DEF Reply, Grants, Asking, store
<1>2. ASSUME NEW c \in Conns, Handle(c), ~Reply(c) PROVE issued' = issued
  BY <1>2 DEF Handle, ServeFetch, ServeListOffsets, CheckTopic, ServeProduce, ServeMetadata, ListTopics,
              LoadCounter, Fence, LoadForCommit, LoadForFetch, Put, Lands, Keep, history
<1>3. ASSUME NEW c \in Conns, ItemFails(c) \/ StoreFails(c) \/ ListingFails(c) PROVE issued' = issued
  BY <1>3 DEF ItemFails, StoreFails, ListingFails, history
<1>4. ASSUME NEW k \in Clients, Send(k) \/ HangUp(k) PROVE issued' = issued
  BY <1>4 DEF Send, HangUp, history
<1>5. ASSUME NEW b \in Brokers, Shutdown(b) PROVE issued' = issued
  BY <1>5 DEF Shutdown, history
<1>6. ASSUME NEW k \in Keys, Trim(k) PROVE issued' = issued
  BY <1>6 DEF Trim, history
<1>7. CASE LateWrite
  BY <1>7 DEF LateWrite, Lands, history
<1>8. CASE UNCHANGED vars
  BY <1>8 DEF vars, history
<1> QED BY <1>1, <1>2, <1>3, <1>4, <1>5, <1>6, <1>7, <1>8 DEF Next

\* Every step keeps the IDs that are granted or received apart.
LEMMA NextIds == BrokerInv /\ IdsInv /\ [Next]_vars => IdsInv'
<1> SUFFICES ASSUME BrokerInv, IdsInv, [Next]_vars PROVE IdsInv'
  OBVIOUS
<1>1. PICK n \in Nat, m \in Nat : n = NextId(counter) /\ m = NextId(counter') /\ n <= m
  BY CounterGrows
<1>2. issued \in Seq(Nat) /\ \A i \in DOMAIN issued : issued[i] < n
  BY <1>1 DEF IdsInv
<1>3. \A i, j \in DOMAIN issued : i # j => issued[i] # issued[j]
  BY DEF IdsInv, IdsUnique
<1>4. \A c \in Conns : Grants(c) =>
          /\ NextId(job[c].base) \in Nat /\ NextId(job[c].base) < n
          /\ \A i \in DOMAIN issued : issued[i] # NextId(job[c].base)
  <2>1. ASSUME NEW c \in Conns, Grants(c) PROVE NextId(job[c].base) \in Nat
    <3>1. PICK j \in GoodJobs : j = job[c]
      BY <2>1, Busy DEF Grants, Asking
    <3>2. j.base \in CounterObjects
      BY <2>1, <3>1, JobFields DEF Carries, Grants, Asking
    <3> QED BY <3>1, <3>2, NextIdType
  <2> QED BY <1>1, <2>1 DEF IdsInv
<1>5. \A c, d \in Conns : c # d /\ Grants(c) /\ Grants(d) => NextId(job[c].base) # NextId(job[d].base)
  BY DEF IdsInv
<1>6. CASE issued' # issued
  <2>1. PICK c \in Conns :
            /\ Grants(c) /\ issued' = Append(issued, NextId(job[c].base)) /\ counter' = counter
            /\ job' = [job EXCEPT ![c] = Idle]
    BY <1>6, IssuedSteps
  <2>2. PICK id \in Nat : id = NextId(job[c].base)
    BY <1>4, <2>1
  <2>3. m = n /\ id < n /\ \A i \in DOMAIN issued : issued[i] # id
    BY <1>1, <1>4, <2>1, <2>2
  <2>4. \A d \in Conns : Grants(d)' => d # c /\ Grants(d) /\ job'[d] = job[d]
    <3>1. ASSUME NEW d \in Conns, Grants(d)' PROVE d # c /\ Grants(d) /\ job'[d] = job[d]
      <4>1. job'[d] # Idle
        BY <3>1 DEF Grants, Asking
      <4>2. d # c /\ job'[d] = job[d]
        BY <2>1, <4>1, Busy
      <4> QED BY <3>1, <4>2 DEF Grants, Asking
    <3> QED BY <3>1
  <2>5. PICK l \in Nat : l = Len(issued)
    BY <1>2
  <2>6. PICK new : new = issued'
    OBVIOUS
  <2>7. /\ new \in Seq(Nat) /\ DOMAIN new = 1 .. l + 1 /\ DOMAIN issued = 1 .. l
        /\ \A i \in 1 .. l : new[i] = issued[i]
        /\ new[l + 1] = id
    BY <1>2, <2>1, <2>2, <2>5, <2>6
  <2>8. \A i \in DOMAIN new : new[i] < m
    BY <1>2, <2>3, <2>7
  <2>9. \A i, j \in DOMAIN new : i # j => new[i] # new[j]
    <3>1. ASSUME NEW i \in 1 .. l + 1, NEW j \in 1 .. l + 1, i # j PROVE new[i] # new[j]
      <4>1. CASE i = l + 1
        <5>1. j \in 1 .. l
          BY <3>1, <4>1
        <5> QED BY <2>3, <2>7, <4>1, <5>1
      <4>2. CASE i # l + 1 /\ j = l + 1
        <5>1. i \in 1 .. l
          BY <4>2
        <5> QED BY <2>3, <2>7, <4>2, <5>1
      <4>3. CASE i # l + 1 /\ j # l + 1
        <5>1. i \in 1 .. l /\ j \in 1 .. l
          BY <4>3
        <5> QED BY <1>3, <2>7, <3>1, <5>1
      <4> QED BY <4>1, <4>2, <4>3
    <3> QED BY <2>7, <3>1
  <2>10. \A d \in Conns : Grants(d)' =>
             /\ NextId(job'[d].base) < m
             /\ \A i \in DOMAIN new : new[i] # NextId(job'[d].base)
    <3>1. ASSUME NEW d \in Conns, Grants(d)', NEW i \in 1 .. l + 1
          PROVE  NextId(job'[d].base) < m /\ new[i] # NextId(job'[d].base)
      <4>1. d # c /\ Grants(d) /\ job'[d] = job[d]
        BY <2>4, <3>1
      <4>2. NextId(job'[d].base) < m
        BY <1>4, <2>3, <4>1
      <4>3. CASE i = l + 1
        BY <1>5, <2>1, <2>2, <2>7, <4>1, <4>2, <4>3
      <4>4. CASE i # l + 1
        <5>1. i \in 1 .. l
          BY <4>4
        <5> QED BY <1>4, <2>7, <4>1, <4>2, <5>1
      <4> QED BY <4>3, <4>4
    <3>2. l + 1 \in 1 .. l + 1
      OBVIOUS
    <3> QED BY <2>7, <3>1, <3>2
  <2>11. \A d, e \in Conns : d # e /\ Grants(d)' /\ Grants(e)' =>
             NextId(job'[d].base) # NextId(job'[e].base)
    BY <1>5, <2>4
  <2> QED BY <1>1, <2>6, <2>7, <2>8, <2>9, <2>10, <2>11 DEF IdsInv, IdsUnique, Grants, Asking, NextId
<1>7. ASSUME issued' = issued, NEW c \in Conns, Put(c), Holds(Write(c)),
             job[c].req.api = "InitProducerId"
      PROVE  IdsInv'
  <2>1. NextId(job'[c].base) = n /\ m = n + 1 /\ \A d \in Conns : d # c => job'[d] = job[d]
    BY <1>1, <1>7, PutGrants
  <2>2. \A d \in Conns : d # c /\ Grants(d)' => Grants(d) /\ job'[d] = job[d]
    BY <2>1 DEF Grants, Asking
  <2>3. \A i \in DOMAIN issued : issued[i] \in Nat
    BY <1>2
  <2>4. \A i \in DOMAIN issued : issued[i] < m
    BY <1>2, <2>1, <2>3
  <2>5. \A d \in Conns : Grants(d)' =>
            /\ NextId(job'[d].base) < m
            /\ \A i \in DOMAIN issued : issued[i] # NextId(job'[d].base)
    <3>1. ASSUME NEW d \in Conns, Grants(d)'
          PROVE  /\ NextId(job'[d].base) < m
                 /\ \A i \in DOMAIN issued : issued[i] # NextId(job'[d].base)
      <4>1. CASE d = c
        BY <1>2, <2>1, <2>3, <4>1
      <4>2. CASE d # c
        BY <1>4, <2>1, <2>2, <3>1, <4>2
      <4> QED BY <4>1, <4>2
    <3> QED BY <3>1
  <2>6. \A d, e \in Conns : d # e /\ Grants(d)' /\ Grants(e)' =>
            NextId(job'[d].base) # NextId(job'[e].base)
    <3>1. ASSUME NEW d \in Conns, NEW e \in Conns, d # e, Grants(d)', Grants(e)'
          PROVE  NextId(job'[d].base) # NextId(job'[e].base)
      <4>1. CASE d = c
        BY <1>4, <2>1, <2>2, <3>1, <4>1
      <4>2. CASE e = c
        BY <1>4, <2>1, <2>2, <3>1, <4>2
      <4>3. CASE d # c /\ e # c
        BY <1>5, <2>2, <3>1, <4>3
      <4> QED BY <4>1, <4>2, <4>3
    <3> QED BY <3>1
  <2> QED BY <1>1, <1>2, <1>3, <1>7, <2>4, <2>5, <2>6 DEF IdsInv, IdsUnique, Grants, Asking, NextId
<1>8. CASE /\ issued' = issued
           /\ \A c \in Conns : ~(Put(c) /\ Holds(Write(c)) /\ job[c].req.api = "InitProducerId")
  <2>1. \A d \in Conns : Grants(d)' => Grants(d) /\ job'[d] = job[d]
    <3>1. ASSUME NEW d \in Conns, Grants(d)' PROVE Grants(d) /\ job'[d] = job[d]
      <4>1. job'[d] = job[d]
        BY <1>8, <3>1, NobodyElseGrants
      <4> QED BY <3>1, <4>1 DEF Grants, Asking
    <3> QED BY <3>1
  <2>2. \A i \in DOMAIN issued : issued[i] \in Nat
    BY <1>2
  <2>3. \A i \in DOMAIN issued : issued[i] < m
    BY <1>1, <1>2, <2>2
  <2>4. \A d \in Conns : Grants(d)' =>
            /\ NextId(job'[d].base) < m
            /\ \A i \in DOMAIN issued : issued[i] # NextId(job'[d].base)
    BY <1>1, <1>4, <2>1
  <2>5. \A d, e \in Conns : d # e /\ Grants(d)' /\ Grants(e)' =>
            NextId(job'[d].base) # NextId(job'[e].base)
    BY <1>5, <2>1
  <2> QED BY <1>1, <1>2, <1>3, <1>8, <2>3, <2>4, <2>5 DEF IdsInv, IdsUnique, Grants, Asking, NextId
<1> QED BY <1>6, <1>7, <1>8

(***************************************************************************)
(* IdsUnique: no producer ID is received twice.  A conditional write of    *)
(* the counter grants an ID to one handler only, also if a write of one    *)
(* that is gone arrives late, and the counter never goes back.             *)
(***************************************************************************)
THEOREM IdsNeverRepeat == Spec => []IdsUnique
<1>1. Init => IdsInv
  BY DEF Init, IdsInv, IdsUnique, Grants, Asking
<1>2. BrokerInv /\ IdsInv /\ [Next]_vars => IdsInv'
  BY NextIds
<1>3. IdsInv => IdsUnique
  BY DEF IdsInv
<1> QED BY <1>1, <1>2, <1>3, HandlersInvariant, PTL DEF Spec
\* ------------------------------------------------------- what a fetch sends
\* A sum grows by the number that is added at its end.
LEMMA TotalSteps ==
    ASSUME NEW n \in Nat, NEW s \in [1 .. n -> Nat], NEW x \in Nat,
           NEW t \in [1 .. n + 1 -> Nat], \A i \in 1 .. n : t[i] = s[i], t[n + 1] = x
    PROVE  Total(s) \in Nat /\ Total(t) = Total(s) + x
<1>1. PICK m \in Nat : m = n + 1
  OBVIOUS
<1>2. t \in [1 .. m -> Nat]
  BY <1>1
<1>3. PICK f \in [0 .. m -> Nat] :
          /\ f[0] = 0 /\ \A i \in 1 .. m : f[i] = f[i - 1] + t[i]
          /\ \A k \in 0 .. m : Total([i \in 1 .. k |-> t[i]]) = f[k]
  BY ONLY <1>2, m \in Nat, Sums
<1>4. n \in 0 .. m /\ m \in 0 .. m /\ m \in 1 .. m /\ m - 1 = n
  BY <1>1
<1>5. [i \in 1 .. m |-> t[i]] = t /\ [i \in 1 .. n |-> t[i]] = s
  BY <1>2
<1>6. Total(t) = f[m] /\ Total(s) = f[n]
  BY ONLY <1>3, <1>4, <1>5
<1>7. f[m] = f[n] + t[m] /\ f[n] \in Nat
  BY <1>3, <1>4
<1> QED BY <1>1, <1>6, <1>7

\* The bytes and the batches of the answers so far.
Bytes(answers) == Total([i \in DOMAIN answers |-> answers[i].bytes])
Sent(answers) == Total([i \in DOMAIN answers |-> answers[i].batches])

\* Without answers nothing is sent.
LEMMA NothingSent == Bytes(<<>>) = 0 /\ Sent(<<>>) = 0
<1>1. PICK s : s = [i \in 1 .. 0 |-> 0]
  OBVIOUS
<1>2. s \in [1 .. 0 -> Nat] /\ 0 \in Nat /\ [i \in 1 .. 0 |-> s[i]] = s /\ 0 \in 0 .. 0
  BY <1>1
<1>3. PICK f \in [0 .. 0 -> Nat] :
          f[0] = 0 /\ \A k \in 0 .. 0 : Total([i \in 1 .. k |-> s[i]]) = f[k]
  BY ONLY <1>2, Sums
<1>4. Total(s) = 0
  BY ONLY <1>2, <1>3
<1>5. [i \in DOMAIN <<>> |-> (<<>>)[i].bytes] = s /\ [i \in DOMAIN <<>> |-> (<<>>)[i].batches] = s
  BY <1>1
<1> QED BY ONLY <1>4, <1>5 DEF Bytes, Sent

\* What one more answer adds.
LEMMA SentSteps ==
    ASSUME NEW answers \in Seq(FetchAnswers), NEW a \in FetchAnswers,
           NEW more, more = Append(answers, a)
    PROVE  /\ Bytes(answers) \in Nat /\ Sent(answers) \in Nat
           /\ Bytes(more) = Bytes(answers) + a.bytes
           /\ Sent(more) = Sent(answers) + a.batches
<1>1. PICK n \in Nat : n = Len(answers)
  OBVIOUS
<1>2. DOMAIN answers = 1 .. n /\ DOMAIN more = 1 .. n + 1 /\ more[n + 1] = a
      /\ \A i \in 1 .. n : more[i] = answers[i] /\ answers[i] \in FetchAnswers
  BY <1>1
<1>3. a.bytes \in Nat /\ a.batches \in Nat
  BY DEF FetchAnswers
<1>4. \A i \in 1 .. n + 1 : more[i] \in FetchAnswers
  BY <1>2
<1>5. \A i \in 1 .. n + 1 : more[i].bytes \in Nat /\ more[i].batches \in Nat
  BY <1>4 DEF FetchAnswers
<1>6. 1 .. n \subseteq 1 .. n + 1 /\ n + 1 \in 1 .. n + 1
  OBVIOUS
<1>7. Bytes(answers) \in Nat /\ Bytes(more) = Bytes(answers) + a.bytes
  <2>1. PICK s : s = [i \in DOMAIN answers |-> answers[i].bytes]
    OBVIOUS
  <2>2. PICK t : t = [i \in DOMAIN more |-> more[i].bytes]
    OBVIOUS
  <2>3. t \in [1 .. n + 1 -> Nat] /\ t[n + 1] = a.bytes
    BY ONLY <1>2, <1>5, <1>6, <2>2
  <2>4. s \in [1 .. n -> Nat] /\ \A i \in 1 .. n : t[i] = s[i]
    BY ONLY <1>2, <1>5, <1>6, <2>1, <2>2
  <2>5. Total(s) \in Nat /\ Total(t) = Total(s) + a.bytes
    BY ONLY <1>1, <1>3, <2>3, <2>4, TotalSteps
  <2> QED BY ONLY <2>1, <2>2, <2>5 DEF Bytes
<1>8. Sent(answers) \in Nat /\ Sent(more) = Sent(answers) + a.batches
  <2>1. PICK s : s = [i \in DOMAIN answers |-> answers[i].batches]
    OBVIOUS
  <2>2. PICK t : t = [i \in DOMAIN more |-> more[i].batches]
    OBVIOUS
  <2>3. t \in [1 .. n + 1 -> Nat] /\ t[n + 1] = a.batches
    BY ONLY <1>2, <1>5, <1>6, <2>2
  <2>4. s \in [1 .. n -> Nat] /\ \A i \in 1 .. n : t[i] = s[i]
    BY ONLY <1>2, <1>5, <1>6, <2>1, <2>2
  <2>5. Total(s) \in Nat /\ Total(t) = Total(s) + a.batches
    BY ONLY <1>1, <1>3, <2>3, <2>4, TotalSteps
  <2> QED BY ONLY <2>1, <2>2, <2>5 DEF Sent
<1> QED BY <1>7, <1>8
(***************************************************************************)
(* What the answer to one partition says: an error sends nothing, records  *)
(* keep to the limit unless they are a first batch, and a first answer     *)
(* without records was asked for at the end of the log.                    *)
(***************************************************************************)
LEMMA FetchAnswerFacts ==
    ASSUME StoreInv, NEW req \in FetchRequests, NEW item \in [key : Names, from : Int, max : Int],
           NEW left \in Nat, NEW first \in BOOLEAN,
           NEW bs, bs = Eligible(logs[item.key], item.from), NEW limit, limit = FetchLimit(item, left),
           NEW a, a = FetchItem(req, item, bs, limit, first)
    PROVE  /\ limit \in Int /\ limit <= left
           /\ a.code # "none" => a.batches = 0
           /\ a.batches = 0 => a.bytes = 0
           /\ a.batches # 0 => a.bytes > 0 /\ (a.bytes <= limit \/ (a.batches = 1 /\ first))
           /\ a.code = "none" /\ a.batches = 0 /\ first => item.from = a.high
<1>1. req.max \in Int /\ item.max \in Int /\ item.from \in Int /\ item.key \in Names
  BY DEF FetchRequests
<1>2. limit \in Int /\ limit <= left
  BY <1>1, HandlersAssumption DEF FetchLimit, LeastOf
<1> DEFINE Good(x) ==
      /\ x.code # "none" => x.batches = 0
      /\ x.batches = 0 => x.bytes = 0
      /\ x.batches # 0 => x.bytes > 0 /\ (x.bytes <= limit \/ (x.batches = 1 /\ first))
      /\ x.code = "none" /\ x.batches = 0 /\ first => item.from = x.high
<1>3. ASSUME NEW code, code # "none" PROVE Good(NoRecords(code))
  BY <1>3 DEF NoRecords
<1> DEFINE k == item.key
<1>4. CASE a = FetchBounded(k, item.from, bs, limit, first)
  <2>1. CASE Unreadable(k) # "none"
    <3>1. LogErrorCode[Unreadable(k)] # "none"
      BY <1>1, <2>1, Unreadables, ErrorCodes
    <3>2. a = NoRecords(LogErrorCode[Unreadable(k)])
      BY <1>4, <2>1 DEF FetchBounded
    <3> QED BY <1>2, <1>3, <3>1, <3>2
  <2>2. CASE Unreadable(k) = "none" /\ (item.from < 0 \/ item.from \notin logs[k].start .. End(logs[k]))
    <3>1. \E x \in {"InvalidOffset", "OffsetOutOfRange"} : a = NoRecords(LogErrorCode[x])
      BY <1>4, <2>2 DEF FetchBounded
    <3>2. \A x \in {"InvalidOffset", "OffsetOutOfRange"} : LogErrorCode[x] # "none"
      BY ErrorCodes
    <3> QED BY <1>2, <1>3, <3>1, <3>2
  <2>3. CASE Unreadable(k) = "none" /\ ~(item.from < 0) /\ item.from \in logs[k].start .. End(logs[k])
    <3>1. k \in Keys
      BY <1>1, <2>3, Unreadables
    <3>2. logs[k] \in Logs /\ logs[k].batches \in Seq(Batches) /\ End(logs[k]) \in Nat
      BY <3>1, Known
    <3>3. bs \in Seq(Batches)
      BY <3>2, ThoseFacts DEF Eligible
    <3>4. PICK n : n = Selected(bs, limit, first)
      OBVIOUS
    <3>5. /\ n \in 0 .. Len(bs)
          /\ n = 0 \/ Weight(bs, n) <= limit \/ (n = 1 /\ first)
          /\ first /\ bs # <<>> => n # 0
      BY ONLY <1>2, <3>3, <3>4, first \in BOOLEAN, SelectedFacts
    <3>6. PICK b \in Nat : b = Weight(bs, n)
      BY <3>3, <3>5, Weights
    <3>7. PICK until : until = IF n = 0 THEN item.from ELSE Beyond(bs[n])
      OBVIOUS
    <3>8. PICK high : high = End(logs[k])
      OBVIOUS
    <3>9. a = [code |-> "none", high |-> high, batches |-> n, bytes |-> b, until |-> until]
      BY <1>4, <2>3, <3>4, <3>6, <3>7, <3>8, Zenon DEF FetchBounded
    <3>10. n = 0 => b = 0
      <4>1. n = 0 => [i \in 1 .. n |-> bs[i].bytes] = [i \in DOMAIN <<>> |-> (<<>>)[i].bytes]
        OBVIOUS
      <4> QED BY <3>6, <4>1, NothingSent DEF Weight, Bytes
    <3>11. n # 0 => b > 0
      <4>1. n \in Nat /\ \A i \in 1 .. n : bs[i] \in Batches
        BY <3>3, <3>5
      <4>2. PICK s : s = [i \in 1 .. n |-> bs[i].bytes]
        OBVIOUS
      <4>3. s \in [1 .. n -> Nat \ {0}]
        BY <4>1, <4>2 DEF Batches
      <4>4. n # 0 => Total(s) \in Nat \ {0}
        BY ONLY <4>1, <4>3, PositiveTotal
      <4> QED BY <3>6, <4>2, <4>4 DEF Weight
    <3>12. first /\ n = 0 => item.from = high
      <4>1. SUFFICES ASSUME first, n = 0, item.from # high PROVE FALSE
        OBVIOUS
      <4>2. item.from \in Nat /\ item.from < high
        BY <1>1, <2>3, <3>2, <3>8, <4>1
      <4>3. logs[k].batches # <<>>
        BY <3>2, <3>8, <4>2 DEF End
      <4>4. PICK m \in Nat : m = Len(logs[k].batches)
        BY <3>2
      <4>5. m \in 1 .. Len(logs[k].batches) /\ m \in DOMAIN logs[k].batches
        BY <3>2, <4>3, <4>4
      <4>6. Beyond(logs[k].batches[m]) = high
        BY <3>8, <4>3, <4>4 DEF End
      <4>7. PICK places :
                places = {i \in DOMAIN logs[k].batches : Beyond(logs[k].batches[i]) > item.from}
        OBVIOUS
      <4>8. m \in places
        BY <4>2, <4>5, <4>6, <4>7, <3>2, <3>8
      <4>9. bs = Those(logs[k].batches, places)
        BY <4>7, Zenon DEF Eligible
      <4>10. \E i \in 1 .. Len(bs) : bs[i] = logs[k].batches[m]
        <5>1. PICK s \in Seq(Batches) : s = logs[k].batches
          BY <3>2
        <5>2. PICK them \in Seq(Batches) : them = Those(s, places)
          BY ThoseFacts
        <5>3. m \in places /\ m \in 1 .. Len(s)
          BY <4>5, <4>8, <5>1
        <5>4. \E l \in 1 .. Len(them) : them[l] = s[m]
          BY ONLY <5>2, <5>3, ThoseFacts
        <5> QED BY ONLY <4>9, <5>1, <5>2, <5>4
      <4>11. bs # <<>>
        BY <4>10
      <4> QED BY <3>5, <4>1, <4>11
    <3>13. a.code = "none" /\ a.batches = n /\ a.bytes = b /\ a.high = high
      BY <3>9
    <3> QED BY <1>2, <3>5, <3>6, <3>10, <3>11, <3>12, <3>13
  <2> QED BY <2>1, <2>2, <2>3
<1>5. CASE a # FetchBounded(k, item.from, bs, limit, first)
  <2>1. a = NoRecords("InvalidFetchSize") \/ a = NoRecords("InvalidRequest")
    BY <1>5 DEF FetchItem
  <2> QED BY <1>2, <1>3, <2>1
<1> QED BY <1>4, <1>5
\* How a fetch answers one partition more, with what its step is sure of.
FetchStep(j, next) ==
    \E a \in FetchAnswers, limit \in Int :
        /\ next.req = j.req /\ next.answers = Append(j.answers, a)
        /\ next.left = Saturating(j.left - a.bytes) /\ next.first = (j.first /\ a.batches = 0)
        /\ limit <= j.left
        /\ a.code # "none" => a.batches = 0
        /\ a.batches = 0 => a.bytes = 0
        /\ a.batches # 0 => a.bytes > 0 /\ (a.bytes <= limit \/ (a.batches = 1 /\ j.first))
        /\ a.code = "none" /\ a.batches = 0 /\ j.first =>
               j.req.items[Len(j.answers) + 1].from = a.high

\* A partition that is served is such a step.
LEMMA FetchServed ==
    ASSUME BrokerInv, NEW c \in Conns, ServeFetch(c)
    PROVE  FetchStep(job[c], job'[c])
<1>1. job[c] # Idle /\ job[c].req.api = "Fetch" /\ job[c].phase = "items"
  BY DEF ServeFetch, Asking
<1>2. PICK item, limit, bs, a :
          /\ item = At(c) /\ limit = FetchLimit(item, job[c].left)
          /\ bs = Eligible(logs[item.key], item.from)
          /\ a = FetchItem(job[c].req, item, bs, limit, job[c].first)
          /\ job' = [job EXCEPT ![c] = [With(c, a) EXCEPT !.left = Saturating(@ - a.bytes),
                                                          !.first = StillFirst(@, a)]]
  BY Zenon DEF ServeFetch
<1>3. PICK j \in GoodJobs : j = job[c]
  BY <1>1, Busy
<1>4. j.req \in FetchRequests /\ item \in [key : Names, from : Int, max : Int]
  BY <1>1, <1>2, <1>3, ItemAt
<1>5. PICK left \in Nat : left = j.left
  BY JobFields, HandlersAssumption
<1>6. PICK first \in BOOLEAN : first = j.first
  BY JobFields
<1>7. PICK req \in FetchRequests : req = j.req
  BY <1>4
<1>8. limit = FetchLimit(item, left) /\ a = FetchItem(req, item, bs, limit, first)
  BY <1>2, <1>3, <1>5, <1>6, <1>7
<1>9. StoreInv
  BY DEF BrokerInv
<1>10. a \in FetchAnswers
  BY ONLY <1>2, <1>4, <1>8, <1>9, left \in Nat, first \in BOOLEAN, req \in FetchRequests, FetchAnswerType
<1>11. /\ limit \in Int /\ limit <= left
       /\ a.code # "none" => a.batches = 0
       /\ a.batches = 0 => a.bytes = 0
       /\ a.batches # 0 => a.bytes > 0 /\ (a.bytes <= limit \/ (a.batches = 1 /\ first))
       /\ a.code = "none" /\ a.batches = 0 /\ first => item.from = a.high
  BY ONLY <1>2, <1>4, <1>8, <1>9, left \in Nat, first \in BOOLEAN, req \in FetchRequests, FetchAnswerFacts
<1>12. PICK w : w = With(c, a)
  OBVIOUS
<1>13. /\ DOMAIN w = DOMAIN j /\ w.answers = Append(j.answers, a) /\ w.req = j.req
       /\ w.first = first /\ w.left = left
  BY <1>1, <1>3, <1>5, <1>6, <1>12, WithFields
<1>14. {"req", "answers", "first", "left"} \subseteq DOMAIN w
  BY <1>13, JobFields DEF Jobs
<1>15. PICK rest : rest = Saturating(w.left - a.bytes)
  OBVIOUS
<1>16. PICK still : still = StillFirst(w.first, a)
  OBVIOUS
<1>17. [w EXCEPT !.left = Saturating(@ - a.bytes), !.first = StillFirst(@, a)]
       = [w EXCEPT !.left = Saturating(w.left - a.bytes), !.first = StillFirst(w.first, a)]
  BY <1>14
<1>18. PICK next : next = [w EXCEPT !.left = rest, !.first = still]
  OBVIOUS
<1>19. next = [With(c, a) EXCEPT !.left = Saturating(@ - a.bytes), !.first = StillFirst(@, a)]
  BY ONLY <1>12, <1>15, <1>16, <1>17, <1>18
<1>20. job'[c] = next
  BY <1>2, <1>19, Busy
<1>21. next.answers = w.answers /\ next.req = w.req /\ next.left = rest /\ next.first = still
  BY ONLY <1>14, <1>18
<1>22. At(c) = j.req.items[Len(j.answers) + 1]
  BY <1>3 DEF At
<1>23. next.left = Saturating(j.left - a.bytes) /\ next.first = (j.first /\ a.batches = 0)
  BY <1>5, <1>6, <1>13, <1>15, <1>16, <1>21 DEF StillFirst
<1>24. next.req = j.req /\ next.answers = Append(j.answers, a) /\ limit <= j.left
  BY ONLY <1>5, <1>11, <1>13, <1>21
<1>25. /\ a.batches # 0 => a.bytes > 0 /\ (a.bytes <= limit \/ (a.batches = 1 /\ j.first))
       /\ a.code = "none" /\ a.batches = 0 /\ j.first =>
              j.req.items[Len(j.answers) + 1].from = a.high
  BY ONLY <1>2, <1>6, <1>11, <1>22
<1>26. FetchStep(j, next)
  BY ONLY <1>10, <1>11, <1>23, <1>24, <1>25, Zenon DEF FetchStep
<1> QED BY <1>3, <1>20, <1>26

\* So is one whose read fails.
LEMMA FetchFailed ==
    ASSUME BrokerInv, NEW c \in Conns, ItemFails(c), job[c].req.api = "Fetch"
    PROVE  FetchStep(job[c], job'[c])
<1>1. PICK a : a = NoRecords("KafkaStorageError")
  OBVIOUS
<1>2. job[c] # Idle /\ job' = [job EXCEPT ![c] = With(c, a)]
  BY <1>1 DEF ItemFails, FailedItem, LogErrorCode
<1>3. /\ a \in FetchAnswers /\ a.code # "none" /\ a.batches = 0 /\ a.bytes = 0
  BY <1>1 DEF NoRecords, FetchAnswers, Codes
<1>4. PICK j \in GoodJobs : j = job[c]
  BY <1>2, Busy
<1>5. PICK next : next = With(c, a)
  OBVIOUS
<1>6. next.answers = Append(j.answers, a) /\ next.req = j.req /\ next.first = j.first /\ next.left = j.left
  BY <1>2, <1>4, <1>5, WithFields
<1>7. j.left \in Nat /\ j.left \in Int /\ j.first \in BOOLEAN
  BY JobFields, HandlersAssumption
<1>8. next.left = Saturating(j.left - a.bytes) /\ next.first = (j.first /\ a.batches = 0) /\ j.left <= j.left
  BY <1>3, <1>6, <1>7 DEF Saturating
<1>9. job'[c] = next
  BY <1>2, <1>5, Busy
<1>10. FetchStep(j, next)
  BY <1>3, <1>6, <1>7, <1>8 DEF FetchStep
<1> QED BY <1>4, <1>9, <1>10

\* All that may happen to a connection that then handles a fetch.
LEMMA FetchSteps ==
    ASSUME BrokerInv, [Next]_vars, NEW c \in Conns, job'[c] # Idle, job'[c].req.api = "Fetch"
    PROVE  \/ job'[c] = job[c]
           \/ \E req \in FetchRequests : job'[c] = Begun(req)
           \/ job[c] # Idle /\ job[c].req.api = "Fetch" /\ FetchStep(job[c], job'[c])
<1>1. ASSUME NEW req \in Requests, job'[c] = Begun(req) PROVE req \in FetchRequests
  <2>1. job'[c].req = req
    BY <1>1 DEF Begun
  <2> QED BY <2>1, Kinds
<1>2. ASSUME (Handle(c) /\ ~Reply(c)) \/ ItemFails(c) \/ StoreFails(c)
      PROVE  job[c] # Idle /\ job[c].req.api = "Fetch"
  BY <1>2, ApiKept
<1>3. CASE Handle(c) /\ ~Reply(c)
  <2>1. job[c].phase \notin {"fence", "load", "put"}
    BY <1>2, <1>3, Busy, JobFields DEF Progress
  <2>2. ServeFetch(c)
    BY <1>2, <1>3, <2>1 DEF Handle, ServeListOffsets, CheckTopic, ServeProduce, ServeMetadata,
          ListTopics, LoadCounter, Fence, LoadForCommit, LoadForFetch, Put, Asking
  <2> QED BY <1>2, <1>3, <2>2, FetchServed
<1>4. CASE StoreFails(c)
  <2>1. job[c].phase \in {"load", "put"}
    BY <1>4 DEF StoreFails
  <2> QED BY <1>2, <1>4, <2>1, Busy, JobFields DEF Progress
<1>5. CASE ItemFails(c)
  BY <1>2, <1>5, FetchFailed
<1> QED BY <1>1, <1>3, <1>4, <1>5, JobSteps
\* While nothing is sent, every partition that was answered was at its end.
Serves(j) ==
    j.req.api = "Fetch" =>
        /\ \A i \in DOMAIN j.answers : j.answers[i].code # "none" => j.answers[i].batches = 0
        /\ (\A i \in DOMAIN j.answers : j.answers[i].batches = 0) => j.first
        /\ j.first => \A i \in DOMAIN j.answers :
               j.answers[i].code = "none" => j.req.items[i].from = j.answers[i].high

\* What is sent and what is left are the budget, or it is one large batch.
Budgeted(j) ==
    j.req.api = "Fetch" =>
        \/ /\ Bytes(j.answers) + j.left <= FetchBudget(j.req)
           /\ j.first => Bytes(j.answers) = 0 /\ Sent(j.answers) = 0
        \/ ~j.first /\ j.left = 0 /\ Sent(j.answers) = 1

FetchInv == \A c \in Conns : job[c] # Idle => Serves(job[c]) /\ Budgeted(job[c])

\* A fetch begins with its whole budget.
LEMMA FetchBegins ==
    ASSUME NEW req \in FetchRequests, NEW j, j = Begun(req)
    PROVE  Serves(j) /\ Budgeted(j)
<1>1. req.api = "Fetch"
  BY DEF FetchRequests
<1>2. j.req = req /\ j.answers = <<>> /\ j.first = TRUE /\ j.left = FetchBudget(req)
  BY <1>1 DEF Begun
<1>3. FetchBudget(req) \in Nat
  BY BudgetType, HandlersAssumption
<1>4. Serves(j)
  BY <1>2 DEF Serves
<1> QED BY <1>2, <1>3, <1>4, NothingSent DEF Budgeted

\* One more answer keeps what is said of empty responses.
LEMMA ServesKept ==
    ASSUME NEW j \in GoodJobs, NEW next, j.req.api = "Fetch", FetchStep(j, next), Serves(j)
    PROVE  Serves(next)
<1>1. PICK a \in FetchAnswers :
          /\ next.req = j.req /\ next.answers = Append(j.answers, a)
          /\ next.first = (j.first /\ a.batches = 0)
          /\ a.code # "none" => a.batches = 0
          /\ a.code = "none" /\ a.batches = 0 /\ j.first =>
                 j.req.items[Len(j.answers) + 1].from = a.high
  BY Zenon DEF FetchStep
<1>2. PICK n \in Nat : n = Len(j.answers)
  BY JobFields
<1>3. j.answers \in Seq(FetchAnswers)
  BY JobFields DEF Fits
<1>4. /\ DOMAIN j.answers = 1 .. n /\ DOMAIN next.answers = 1 .. n + 1 /\ next.answers[n + 1] = a
      /\ \A i \in 1 .. n : next.answers[i] = j.answers[i]
      /\ \A i \in 1 .. n + 1 : i \in 1 .. n \/ i = n + 1
      /\ \A i \in 1 .. n : i \in 1 .. n + 1
      /\ n + 1 \in 1 .. n + 1
  BY <1>1, <1>2, <1>3
<1>5. /\ \A i \in 1 .. n : j.answers[i].code # "none" => j.answers[i].batches = 0
      /\ (\A i \in 1 .. n : j.answers[i].batches = 0) => j.first
      /\ j.first => \A i \in 1 .. n :
             j.answers[i].code = "none" => j.req.items[i].from = j.answers[i].high
  BY <1>4 DEF Serves
<1>6. \A i \in 1 .. n + 1 : next.answers[i].code # "none" => next.answers[i].batches = 0
  BY ONLY <1>1, <1>4, <1>5
<1>7. ASSUME \A i \in 1 .. n + 1 : next.answers[i].batches = 0 PROVE next.first
  <2>1. a.batches = 0
    BY ONLY <1>4, <1>7
  <2>2. \A i \in 1 .. n : j.answers[i].batches = 0
    BY ONLY <1>4, <1>7
  <2>3. j.first
    BY ONLY <1>5, <2>2
  <2> QED BY ONLY <1>1, <2>1, <2>3
<1>8. ASSUME next.first, NEW i \in 1 .. n + 1, next.answers[i].code = "none"
      PROVE  j.req.items[i].from = next.answers[i].high
  BY ONLY <1>1, <1>2, <1>4, <1>5, <1>8
<1> QED BY <1>1, <1>4, <1>6, <1>7, <1>8 DEF Serves

\* One more answer keeps to the budget.
LEMMA BudgetKept ==
    ASSUME NEW j \in GoodJobs, NEW next, j.req.api = "Fetch", FetchStep(j, next), Budgeted(j)
    PROVE  Budgeted(next)
<1>1. PICK a \in FetchAnswers, limit \in Int :
          /\ next.req = j.req /\ next.answers = Append(j.answers, a)
          /\ next.left = Saturating(j.left - a.bytes) /\ next.first = (j.first /\ a.batches = 0)
          /\ limit <= j.left
          /\ a.batches = 0 => a.bytes = 0
          /\ a.batches # 0 => a.bytes > 0 /\ (a.bytes <= limit \/ (a.batches = 1 /\ j.first))
  BY Zenon DEF FetchStep
<1>2. j.answers \in Seq(FetchAnswers) /\ j.left \in Nat /\ j.first \in BOOLEAN
  BY JobFields, HandlersAssumption DEF Fits
<1>3. PICK b \in Nat : b = Bytes(j.answers)
  BY <1>2, SentSteps
<1>4. PICK s \in Nat : s = Sent(j.answers)
  BY <1>2, SentSteps
<1>5. Bytes(next.answers) = b + a.bytes /\ Sent(next.answers) = s + a.batches
  BY <1>1, <1>2, <1>3, <1>4, SentSteps
<1>6. a.bytes \in Nat /\ a.batches \in Nat
  BY DEF FetchAnswers
<1>7. PICK budget \in Nat : budget = FetchBudget(j.req)
  <2>1. j.req \in FetchRequests
    BY JobFields, Kinds
  <2> QED BY <2>1, BudgetType, HandlersAssumption
<1>8. PICK left \in Nat : left = j.left
  BY <1>2
<1>9. PICK x \in Nat : x = a.bytes
  BY <1>6
<1>10. PICK m \in Nat : m = a.batches
  BY <1>6
<1>11. PICK first \in BOOLEAN : first = j.first
  BY <1>2
<1>12. \/ b + left <= budget /\ (first => b = 0 /\ s = 0)
       \/ ~first /\ left = 0 /\ s = 1
  BY <1>3, <1>4, <1>7, <1>8, <1>11 DEF Budgeted
<1>13. /\ limit <= left /\ (m = 0 => x = 0)
       /\ m # 0 => x > 0 /\ (x <= limit \/ (m = 1 /\ first))
       /\ next.left = (IF left - x < 0 THEN 0 ELSE left - x) /\ next.first = (first /\ m = 0)
  BY <1>1, <1>8, <1>9, <1>10, <1>11 DEF Saturating
<1>14. \/ (b + x) + next.left <= budget /\ (next.first => b + x = 0 /\ s + m = 0)
       \/ ~next.first /\ next.left = 0 /\ s + m = 1
  <2>1. CASE m = 0
    <3>1. x = 0 /\ next.left = left /\ next.first = first
      BY <1>13, <2>1
    <3> QED BY ONLY <1>12, <2>1, <3>1, b \in Nat, s \in Nat, left \in Nat
  <2>2. CASE m # 0 /\ x <= left
    <3>1. next.left = left - x /\ ~next.first /\ x > 0
      <4>1. ~(left - x < 0) /\ x > 0 /\ ~(first /\ m = 0)
        BY ONLY <1>13, <2>2, left \in Nat, x \in Nat
      <4> QED BY ONLY <1>13, <4>1, Zenon
    <3> QED BY ONLY <1>12, <2>2, <3>1, b \in Nat, s \in Nat, left \in Nat, x \in Nat, m \in Nat,
                    budget \in Nat
  <2>3. CASE m # 0 /\ ~(x <= left)
    <3>1. m = 1 /\ first /\ next.left = 0 /\ ~next.first
      <4>1. left - x < 0 /\ ~(first /\ m = 0) /\ ~(x <= limit)
        BY ONLY <1>13, <2>3, left \in Nat, x \in Nat, limit \in Int
      <4> QED BY ONLY <1>13, <2>3, <4>1, Zenon
    <3> QED BY ONLY <1>12, <3>1, s \in Nat
  <2> QED BY <2>1, <2>2, <2>3
<1> QED BY <1>1, <1>5, <1>7, <1>9, <1>10, <1>14 DEF Budgeted

\* Every step keeps both for every fetch.
LEMMA NextFetches == BrokerInv /\ FetchInv /\ [Next]_vars => FetchInv'
<1> SUFFICES ASSUME BrokerInv, FetchInv, [Next]_vars, NEW c \in Conns, job'[c] # Idle
             PROVE  Serves(job'[c]) /\ Budgeted(job'[c])
  BY DEF FetchInv, Serves, Budgeted, FetchBudget
<1>1. CASE job'[c].req.api # "Fetch"
  BY <1>1 DEF Serves, Budgeted
<1>2. CASE job'[c] = job[c]
  BY <1>2 DEF FetchInv
<1>3. CASE \E req \in FetchRequests : job'[c] = Begun(req)
  BY <1>3, FetchBegins
<1>4. CASE job[c] # Idle /\ job[c].req.api = "Fetch" /\ FetchStep(job[c], job'[c])
  <2>1. PICK j \in GoodJobs : j = job[c]
    BY <1>4, Busy
  <2>2. PICK next : next = job'[c]
    OBVIOUS
  <2>3. Serves(j) /\ Budgeted(j) /\ FetchStep(j, next) /\ j.req.api = "Fetch"
    BY <1>4, <2>1, <2>2 DEF FetchInv
  <2>4. Serves(next) /\ Budgeted(next)
    BY ONLY <2>3, j \in GoodJobs, ServesKept, BudgetKept
  <2> QED BY <2>2, <2>4
<1> QED BY <1>1, <1>2, <1>3, <1>4, FetchSteps

(***************************************************************************)
(* FetchServes: while a fetch has sent nothing it may still send a batch   *)
(* of any size, so a partition with records would have been served.        *)
(***************************************************************************)
THEOREM FetchesServe == Spec => []FetchServes
<1>1. Init => FetchInv
  BY DEF Init, FetchInv
<1>2. BrokerInv /\ FetchInv /\ [Next]_vars => FetchInv'
  BY NextFetches
<1>3. FetchInv => FetchServes
  <2> SUFFICES ASSUME FetchInv, NEW c \in Conns, Asking(c, "Fetch", "reply"),
                      \A i \in DOMAIN job[c].answers :
                          job[c].answers[i].code = "none" => job[c].answers[i].batches = 0
               PROVE  \A i \in DOMAIN job[c].answers :
                          job[c].answers[i].code = "none" =>
                              job[c].req.items[i].from = job[c].answers[i].high
    BY DEF FetchServes
  <2> QED BY DEF FetchInv, Serves, Asking
<1> QED BY <1>1, <1>2, <1>3, HandlersInvariant, PTL DEF Spec

(***************************************************************************)
(* FetchWithinBudget: what is sent and what is left never exceed the       *)
(* budget, until a large first batch takes all that is left.               *)
(***************************************************************************)
THEOREM FetchesWithinBudget == Spec => []FetchWithinBudget
<1>1. Init => FetchInv
  BY DEF Init, FetchInv
<1>2. BrokerInv /\ FetchInv /\ [Next]_vars => FetchInv'
  BY NextFetches
<1>3. BrokerInv /\ FetchInv => FetchWithinBudget
  <2> SUFFICES ASSUME BrokerInv, FetchInv, NEW c \in Conns, Asking(c, "Fetch", "reply")
               PROVE  Bytes(job[c].answers) <= FetchBudget(job[c].req) \/ Sent(job[c].answers) = 1
    BY DEF FetchWithinBudget, Bytes, Sent
  <2>1. PICK j \in GoodJobs : j = job[c]
    BY Busy DEF Asking
  <2>2. j.req.api = "Fetch" /\ Budgeted(j)
    BY <2>1 DEF FetchInv, Asking
  <2>3. j.left \in Nat /\ Bytes(j.answers) \in Nat
    <3>1. j.answers \in Seq(FetchAnswers) /\ j.left \in Nat
      BY <2>2, JobFields, HandlersAssumption DEF Fits
    <3>2. NoRecords("none") \in FetchAnswers
      BY DEF NoRecords, FetchAnswers, Codes
    <3> QED BY <3>1, <3>2, SentSteps
  <2>4. PICK budget \in Nat : budget = FetchBudget(j.req)
    BY <2>2, JobFields, Kinds, BudgetType, HandlersAssumption
  <2> QED BY <2>1, <2>2, <2>3, <2>4 DEF Budgeted
<1> QED BY <1>1, <1>2, <1>3, HandlersInvariant, PTL DEF Spec

\* --------------------------------------------------- what consumers were given
\* Every retained record of a partition below an offset was given to a consumer.
Given(key, p) == key \in Keys => \A o \in logs[key].start .. p - 1 : <<key, o>> \in seen

\* The entries of a commit claim no record that was not given to a consumer.
Honest(entries) == \A n \in DOMAIN entries : Given(entries[n].key, entries[n].offset)

\* A request that a client which is no consumer may send.
Modest(req) ==
    req.api = "OffsetCommit" => \A n \in DOMAIN req.items : req.items[n].offset <= 0

\* A request that a consumer may send.
Prudent(req) ==
    /\ req.api \in {"OffsetFetch", "ListOffsets", "Fetch", "OffsetCommit"}
    /\ req.api = "ListOffsets" => \A n \in DOMAIN req.items : req.items[n].timestamp = -2
    /\ req.api = "Fetch" => \A n \in DOMAIN req.items : Given(req.items[n].key, req.items[n].from)

\* What a handler has been asked to commit, and has answered about positions.
Reliable(j) ==
    /\ j.req.api = "OffsetCommit" => Honest(j.req.items)
    /\ j.req.api = "ListOffsets" =>
           \A n \in DOMAIN j.answers :
               j.req.items[n].timestamp = -2 => Given(j.req.items[n].key, j.answers[n].offset)
    /\ j.req.api = "OffsetFetch" /\ j.phase = "reply" =>
           \A n \in DOMAIN j.answers : Given(j.req.items[n].key, j.answers[n].offset)

\* The offsets of a manifest.
StoreGiven ==
    \A key \in DOMAIN Loaded(offsets).offsets : Given(key, Loaded(offsets).offsets[key])

LateGiven == \A w \in late : w.object = "offsets" => Honest(w.commits)

\* The positions of a client, what it is waiting for and what it will send.
ClientGiven(k) ==
    /\ \A key \in DOMAIN client[k].pos : Given(key, client[k].pos[key])
    /\ client[k].keys # <<>> => client[k].script = <<>>
    /\ \A i \in DOMAIN client[k].script : Modest(client[k].script[i])
    /\ client[k].waiting =>
           IF client[k].keys = <<>> THEN Modest(job[client[k].at].req)
           ELSE Prudent(job[client[k].at].req)

DeliveryInv ==
    /\ StoreGiven /\ LateGiven
    /\ \A c \in Conns : job[c] # Idle => Reliable(job[c])
    /\ \A k \in Clients : ClientGiven(k)

\* Retention and appends only move the start of a log on; what was given stays so.
LEMMA LogsGoOn ==
    ASSUME BrokerInv, [Next]_vars, NEW key \in Keys
    PROVE  /\ logs[key].start \in Nat /\ logs'[key].start \in Nat
           /\ logs[key].start <= logs'[key].start
           /\ seen \subseteq seen'
<1>1. BrokerInv'
  BY NextType
<1>2. logs[key].start \in Nat /\ logs'[key].start \in Nat
  BY <1>1, Known DEF BrokerInv, StoreInv, Logs
<1>3. /\ DOMAIN logs = Keys
      /\ \A k \in Keys : \A bs : [logs[k] EXCEPT !.batches = bs].start = logs[k].start
  BY DEF BrokerInv, StoreInv, Logs
<1>4. ASSUME NEW item, Appends(item) PROVE logs'[key].start = logs[key].start
  <2>1. PICK bs : Appended(logs[item.key], Decoded(item.batches)) = [logs[item.key] EXCEPT !.batches = bs]
    BY Zenon DEF Appended
  <2>2. logs' = [logs EXCEPT ![item.key] = [logs[item.key] EXCEPT !.batches = bs]]
    BY <1>4, <2>1 DEF Appends
  <2> QED BY <1>3, <2>2
<1>5. ASSUME NEW c \in Conns, Handle(c)
      PROVE  logs'[key].start = logs[key].start /\ seen \subseteq seen'
  <2>1. CASE ServeProduce(c)
    <3>1. logs' = logs \/ Appends(At(c))
      BY <2>1 DEF ServeProduce, store
    <3> QED BY <1>4, <2>1, <3>1 DEF ServeProduce, Keep, history
  <2>2. CASE Put(c)
    BY <2>2 DEF Put, Lands, store, history
  <2>3. CASE Reply(c)
    BY <2>3 DEF Reply, store
  <2> QED BY <1>5, <2>1, <2>2, <2>3 DEF Handle, ServeFetch, ServeListOffsets, CheckTopic,
           ServeMetadata, ListTopics, LoadCounter, Fence, LoadForCommit, LoadForFetch, Creates, Keep,
           store, history
<1>6. ASSUME NEW c \in Conns, ItemFails(c) \/ StoreFails(c) \/ ListingFails(c)
      PROVE  logs'[key].start = logs[key].start /\ seen' = seen
  <2>1. CASE ItemFails(c)
    <3>1. logs' = logs \/ Appends(At(c))
      BY <2>1 DEF ItemFails, DoneBefore, Creates, store
    <3> QED BY <1>4, <2>1, <3>1 DEF ItemFails, history
  <2> QED BY <1>6, <2>1 DEF StoreFails, ListingFails, store, history
<1>7. ASSUME NEW k \in Clients, Send(k) \/ HangUp(k) PROVE logs' = logs /\ seen' = seen
  BY <1>7 DEF Send, HangUp, store, history
<1>8. ASSUME NEW b \in Brokers, Shutdown(b) PROVE logs' = logs /\ seen' = seen
  BY <1>8 DEF Shutdown, store, history
<1>9. ASSUME NEW k \in Keys, Trim(k)
      PROVE  logs[key].start <= logs'[key].start /\ seen' = seen
  <2>1. PICK n : n > logs[k].start /\ logs' = [logs EXCEPT ![k].start = n]
    BY <1>9 DEF Trim
  <2>2. \A m : [logs[k] EXCEPT !.start = m].start = m
    BY DEF BrokerInv, StoreInv, Logs
  <2>3. logs'[key].start = IF key = k THEN n ELSE logs[key].start
    BY <1>3, <2>1, <2>2
  <2> QED BY <1>2, <1>9, <2>1, <2>3 DEF Trim, history
<1>10. CASE LateWrite
  <2>1. PICK w : Lands(w) \/ UNCHANGED <<store, history>>
    BY <1>10 DEF LateWrite
  <2>2. logs' = logs /\ seen' = seen
    BY <2>1 DEF Lands, store, history
  <2> QED BY <1>2, <2>2
<1>11. CASE UNCHANGED vars
  BY <1>2, <1>11 DEF vars, store, history
<1> QED BY <1>2, <1>5, <1>6, <1>7, <1>8, <1>9, <1>10, <1>11 DEF Next

\* What was given stays so.
LEMMA GivenOn ==
    ASSUME BrokerInv, [Next]_vars, NEW key, NEW p \in Int, Given(key, p)
    PROVE  Given(key, p)'
<1> SUFFICES ASSUME key \in Keys, NEW o \in logs'[key].start .. p - 1 PROVE <<key, o>> \in seen'
  BY DEF Given
<1>1. o \in logs[key].start .. p - 1
  BY LogsGoOn
<1> QED BY <1>1, LogsGoOn DEF Given

\* Nothing lies below the first offset.
LEMMA FirstGiven ==
    ASSUME StoreInv, NEW key, NEW p \in Int, key \in Keys => p <= logs[key].start \/ p <= 0
    PROVE  Given(key, p)
<1> SUFFICES ASSUME key \in Keys PROVE \A o \in logs[key].start .. p - 1 : <<key, o>> \in seen
  BY DEF Given
<1>1. logs[key].start \in Nat
  BY Known
<1> QED BY <1>1

\* The entries of a commit stay honest.
LEMMA HonestOn ==
    ASSUME BrokerInv, [Next]_vars, NEW entries \in Seq(CommitEntries), Honest(entries)
    PROVE  Honest(entries)'
<1>1. ASSUME NEW n \in DOMAIN entries PROVE Given(entries[n].key, entries[n].offset)'
  <2>1. PICK e \in CommitEntries : e = entries[n]
    BY <1>1
  <2>2. e.offset \in Int /\ Given(e.key, e.offset)
    BY <2>1 DEF Honest, CommitEntries
  <2>3. Given(e.key, e.offset)'
    BY <2>2, GivenOn
  <2> QED BY <2>1, <2>3
<1> QED BY <1>1 DEF Honest

\* What a handler stores is among what it was asked to commit.
LEMMA CommitsHonest ==
    ASSUME BrokerInv, CommitsInv, NEW c \in Conns, job[c] # Idle, Reliable(job[c]),
           job[c].req.api = "OffsetCommit", job[c].phase \in {"load", "put"}
    PROVE  Honest(job[c].commits)
<1>1. PICK j \in GoodJobs : j = job[c]
  BY Busy
<1>2. PICK items \in Seq(CommitEntries) : items = j.req.items
  BY <1>1, JobFields, Kinds DEF CommitRequests
<1>3. PICK places : j.commits = Those(items, places)
  BY <1>1, <1>2 DEF CommitsInv, AnswersTrue, ValidCommits
<1>4. PICK s \in Seq(CommitEntries) : s = j.commits
  BY JobFields
<1>5. ASSUME NEW n \in DOMAIN s PROVE Given(s[n].key, s[n].offset)
  <2>1. n \in 1 .. Len(s)
    BY <1>5
  <2>2. PICK i \in 1 .. Len(items) : s[n] = items[i]
    BY <1>3, <1>4, <2>1, ThoseFacts
  <2>3. i \in DOMAIN items
    OBVIOUS
  <2> QED BY <1>1, <1>2, <2>2, <2>3 DEF Reliable, Honest
<1> QED BY <1>1, <1>4, <1>5 DEF Honest

\* What a handler that writes offsets sends to the store.
LEMMA WriteHonest ==
    ASSUME BrokerInv, CommitsInv, DeliveryInv, NEW c \in Conns, job[c] # Idle,
           job[c].phase = "put", Write(c).object = "offsets"
    PROVE  Honest(Write(c).commits)
<1>1. PICK j \in GoodJobs : j = job[c]
  BY Busy
<1>2. j.req.api \in {"InitProducerId", "OffsetCommit"}
  BY <1>1, JobFields DEF Progress
<1>3. j.req.api = "OffsetCommit" /\ Write(c).commits = j.commits
  BY <1>1, <1>2 DEF Write
<1> QED BY <1>1, <1>3, CommitsHonest DEF DeliveryInv

\* Writes under way came from handlers.
LEMMA LateSteps ==
    ASSUME BrokerInv, [Next]_vars, NEW w \in late'
    PROVE  w \in late \/ \E c \in Conns : job[c] # Idle /\ job[c].phase = "put" /\ w = Write(c)
<1>1. CASE late' \subseteq late
  BY <1>1
<1>2. ASSUME NEW c \in Conns, StoreFails(c), ~(late' \subseteq late)
      PROVE  job[c] # Idle /\ job[c].phase = "put" /\ late' = late \cup {Write(c)}
  BY <1>2 DEF StoreFails
<1>3. ASSUME NEW b \in Brokers, Shutdown(b)
      PROVE  w \in late \/ \E c \in Conns : job[c] # Idle /\ job[c].phase = "put" /\ w = Write(c)
  BY <1>3, Zenon DEF Shutdown
<1>4. ASSUME NEW c \in Conns, Handle(c) \/ ItemFails(c) \/ ListingFails(c) PROVE late' = late
  BY <1>4 DEF Handle, ServeFetch, ServeListOffsets, CheckTopic, ServeProduce, ServeMetadata,
              ListTopics, LoadCounter, Fence, LoadForCommit, LoadForFetch, Put, Reply, Keep,
              ItemFails, ListingFails
<1>5. ASSUME NEW k \in Clients, Send(k) \/ HangUp(k) PROVE late' = late
  BY <1>5 DEF Send, HangUp
<1>6. ASSUME (\E k \in Keys : Trim(k)) \/ LateWrite \/ UNCHANGED vars PROVE late' \subseteq late
  BY <1>6 DEF Trim, LateWrite, vars
<1> QED BY <1>1, <1>2, <1>3, <1>4, <1>5, <1>6 DEF Next

\* Writes under way stay honest.
LEMMA LateKept ==
    ASSUME BrokerInv, CommitsInv, DeliveryInv, [Next]_vars
    PROVE  LateGiven'
<1>1. ASSUME NEW w \in late', w.object = "offsets" PROVE Honest(w.commits)'
  <2>1. w \in GoodWrites
    BY NextType DEF BrokerInv, LateInv
  <2>2. PICK commits \in Seq(CommitEntries) : commits = w.commits
    BY <2>1 DEF GoodWrites
  <2>3. Honest(commits)
    BY <1>1, <2>2, LateSteps, WriteHonest DEF DeliveryInv, LateGiven
  <2>4. Honest(commits)'
    BY <2>3, HonestOn
  <2> QED BY <2>2, <2>4
<1> QED BY <1>1 DEF LateGiven

\* What is written to the manifest came from a handler, maybe late.
LEMMA WhoWrites ==
    ASSUME BrokerInv, [Next]_vars
    PROVE  \/ offsets' = offsets
           \/ \E w \in GoodWrites :
                  /\ Holds(w) /\ Lands(w)
                  /\ w \in late \/ \E c \in Conns : job[c] # Idle /\ job[c].phase = "put" /\ w = Write(c)
<1>1. ASSUME NEW c \in Conns, Put(c), offsets' # offsets
      PROVE  /\ job[c] # Idle /\ job[c].phase = "put" /\ Write(c) \in GoodWrites
             /\ Holds(Write(c)) /\ Lands(Write(c))
  BY <1>1, WriteType DEF Put, store
<1>2. ASSUME LateWrite, offsets' # offsets
      PROVE  \E w \in late : w \in GoodWrites /\ Holds(w) /\ Lands(w)
  BY <1>2 DEF LateWrite, store, BrokerInv, LateInv
<1>3. ASSUME NEW c \in Conns, Handle(c) /\ ~Put(c) PROVE offsets' = offsets
  BY <1>3 DEF Handle, ServeFetch, ServeListOffsets, CheckTopic, ServeProduce, ServeMetadata,
              ListTopics, LoadCounter, Fence, LoadForCommit, LoadForFetch, Reply, Appends, Creates,
              Keep, store
<1>4. ASSUME NEW c \in Conns, ItemFails(c) \/ StoreFails(c) \/ ListingFails(c)
      PROVE  offsets' = offsets
  BY <1>4 DEF ItemFails, StoreFails, ListingFails, DoneBefore, Appends, Creates, store
<1>5. ASSUME NEW k \in Clients, Send(k) \/ HangUp(k) PROVE offsets' = offsets
  BY <1>5 DEF Send, HangUp, store
<1>6. ASSUME (\E b \in Brokers : Shutdown(b)) \/ (\E k \in Keys : Trim(k)) \/ UNCHANGED vars
      PROVE  offsets' = offsets
  BY <1>6 DEF Shutdown, Trim, vars, store
<1> QED BY <1>1, <1>2, <1>3, <1>4, <1>5, <1>6 DEF Next

\* The manifest never claims more than was given.
LEMMA StoreKeptGiven ==
    ASSUME BrokerInv, CommitsInv, DeliveryInv, [Next]_vars
    PROVE  StoreGiven'
<1>1. PICK old : old = Loaded(offsets).offsets
  OBVIOUS
<1>2. ASSUME NEW key \in DOMAIN old PROVE Given(key, old[key])'
  <2>1. old[key] \in Int
    <3>1. Loaded(offsets) \in Manifests \/ Loaded(offsets) = EmptyManifest
      BY DEF BrokerInv, StoreInv, Loaded, ManifestObjects
    <3>2. CASE Loaded(offsets) \in Manifests
      BY <1>1, <1>2, <3>2 DEF Manifests
    <3>3. CASE Loaded(offsets) = EmptyManifest
      BY <1>1, <1>2, <3>3 DEF EmptyManifest
    <3> QED BY <3>1, <3>2, <3>3
  <2>2. PICK p \in Int : p = old[key]
    BY <2>1
  <2>3. Given(key, p)
    BY <1>1, <2>2 DEF DeliveryInv, StoreGiven
  <2>4. Given(key, p)'
    BY <2>3, GivenOn
  <2> QED BY <2>2, <2>4
<1>3. CASE offsets' = offsets
  <2>1. Loaded(offsets)' = Loaded(offsets)
    BY <1>3 DEF Loaded
  <2> QED BY <1>1, <1>2, <2>1 DEF StoreGiven
<1>4. CASE offsets' # offsets
  <2>1. PICK w \in GoodWrites :
            /\ Holds(w) /\ Lands(w)
            /\ w \in late \/ \E c \in Conns : job[c] # Idle /\ job[c].phase = "put" /\ w = Write(c)
    BY <1>4, WhoWrites
  <2>2. w.object # "counter"
    BY <1>4, <2>1 DEF Lands
  <2>3. w.object = "offsets" /\ w.base \in ManifestObjects /\ w.commits \in Seq(CommitEntries)
        /\ CommitFault(w.commits) = "none"
    BY <2>2 DEF GoodWrites
  <2>4. PICK commits \in Seq(CommitEntries) : commits = w.commits
    BY <2>3
  <2>5. Honest(commits)
    BY <2>1, <2>3, <2>4, WriteHonest DEF DeliveryInv, LateGiven
  <2>6. Honest(commits)'
    BY <2>5, HonestOn
  <2>7. offsets' = Revised(offsets, commits)
    BY <2>1, <2>2, <2>4 DEF Lands, Holds, Current
  <2>8. offsets' # Missing
    BY <2>3, <2>4, <2>7, RevisedFacts, GroupOffsetsAssumption DEF BrokerInv, StoreInv
  <2>9. PICK new : new = Overlaid(old, commits)
    OBVIOUS
  <2>10. Loaded(offsets').offsets = new
    BY <1>1, <2>7, <2>8, <2>9 DEF Loaded, Revised
  <2>11. ASSUME NEW key \in DOMAIN new PROVE Given(key, new[key])'
    <3>1. PICK named : named = {commits[i].key : i \in DOMAIN commits}
      OBVIOUS
    <3>2. new = [k \in DOMAIN old \cup named |->
                    IF k \in named
                    THEN commits[CHOOSE i \in DOMAIN commits : commits[i].key = k].offset
                    ELSE old[k]]
      BY <2>9, <3>1 DEF Overlaid
    <3>3. CASE key \in named
      <4>1. PICK i \in DOMAIN commits :
                commits[i].key = key /\ new[key] = commits[i].offset
        <5>1. \E i \in DOMAIN commits : commits[i].key = key
          BY <3>1, <3>3
        <5> DEFINE i == CHOOSE i \in DOMAIN commits : commits[i].key = key
        <5>2. i \in DOMAIN commits /\ commits[i].key = key
          BY <5>1, Zenon
        <5>3. new[key] = commits[i].offset
          BY <3>2, <3>3, Zenon
        <5> QED BY <5>2, <5>3
      <4> QED BY <2>6, <4>1 DEF Honest
    <3>4. CASE key \notin named
      BY <1>2, <2>11, <3>2, <3>4
    <3> QED BY <3>3, <3>4
  <2> QED BY <2>10, <2>11 DEF StoreGiven, Loaded
<1> QED BY <1>3, <1>4

\* Everybody sends only what claims nothing that was not given.
LEMMA SendableGiven ==
    ASSUME BrokerInv, DeliveryInv, NEW k \in Clients, NEW req \in Sendable(k)
    PROVE  /\ req \in Requests
           /\ req.api = "OffsetCommit" => Honest(req.items)
           /\ IF client[k].keys = <<>> THEN Modest(req) ELSE Prudent(req)
<1>1. PICK m \in GoodClients(k) : m = client[k]
  BY DEF BrokerInv, ClientsInv
<1>2. req \in Requests
  BY SendableType
<1>3. CASE m.script # <<>>
  <2>1. m.script \in Seq(Requests) /\ req = m.script[1] /\ 1 \in DOMAIN m.script
    BY <1>1, <1>3, ClientFields DEF Sendable
  <2>2. Modest(req) /\ m.keys = <<>>
    BY <1>1, <1>3, <2>1 DEF DeliveryInv, ClientGiven
  <2>3. ASSUME req.api = "OffsetCommit", NEW n \in DOMAIN req.items
        PROVE  Given(req.items[n].key, req.items[n].offset)
    <3>1. req.items \in Seq(CommitEntries)
      BY <1>2, <2>3, Kinds DEF CommitRequests
    <3>2. PICK e \in CommitEntries : e = req.items[n]
      BY <2>3, <3>1
    <3>3. e.offset \in Int /\ e.offset <= 0
      BY <2>2, <2>3, <3>2 DEF Modest, CommitEntries
    <3>4. Given(e.key, e.offset)
      BY <3>3, FirstGiven DEF BrokerInv
    <3> QED BY <3>2, <3>4
  <2> QED BY <1>1, <1>2, <2>2, <2>3 DEF Honest
<1>4. CASE m.script = <<>>
  <2>1. m.keys # <<>>
    BY <1>1, <1>4 DEF Sendable, Consumer
  <2>2. PICK keys \in Seq(Keys) : keys = m.keys
    BY ClientFields
  <2>3. PICK pos \in [Range(keys) -> Int] : pos = m.pos
    BY <2>2, ClientFields
  <2>4. \A n \in DOMAIN keys : keys[n] \in DOMAIN pos /\ Given(keys[n], pos[keys[n]])
    BY <1>1, <2>2, <2>3 DEF Range, DeliveryInv, ClientGiven
  <2>5. \/ \E ks : req = AskOffsets(ks) \/ req = AskEarliest(ks)
        \/ req = FetchAt(keys, pos) \/ req = CommitAt(keys, pos)
    BY <1>1, <1>4, <2>2, <2>3 DEF Sendable
  <2>6. CASE \E ks : req = AskOffsets(ks)
    BY <1>1, <1>2, <2>1, <2>6 DEF AskOffsets, Prudent
  <2>7. CASE \E ks : req = AskEarliest(ks)
    <3>1. PICK ks : req = AskEarliest(ks)
      BY <2>7
    <3>2. req.api = "ListOffsets" /\ \A n \in DOMAIN req.items : req.items[n].timestamp = -2
      BY <3>1 DEF AskEarliest
    <3> QED BY <1>1, <1>2, <2>1, <3>2 DEF Prudent
  <2>8. CASE req = FetchAt(keys, pos)
    <3>1. /\ req.api = "Fetch"
          /\ req.items = [i \in DOMAIN keys |->
                             [key |-> keys[i], from |-> pos[keys[i]], max |-> PartitionMax]]
      BY <2>8 DEF FetchAt
    <3>2. \A n \in DOMAIN req.items : Given(req.items[n].key, req.items[n].from)
      BY <2>4, <3>1
    <3> QED BY <1>1, <1>2, <2>1, <3>1, <3>2 DEF Prudent
  <2>9. CASE req = CommitAt(keys, pos)
    <3>1. /\ req.api = "OffsetCommit"
          /\ req.items = [i \in DOMAIN keys |-> [key |-> keys[i], offset |-> pos[keys[i]]]]
      BY <2>9 DEF CommitAt
    <3>2. Honest(req.items)
      BY <2>4, <3>1 DEF Honest
    <3> QED BY <1>1, <1>2, <2>1, <3>1, <3>2 DEF Prudent
  <2> QED BY <2>5, <2>6, <2>7, <2>8, <2>9
<1> QED BY <1>3, <1>4

\* A handler that begins has answered nothing yet.
LEMMA BegunReliable ==
    ASSUME NEW req \in Requests, req.api = "OffsetCommit" => Honest(req.items)
    PROVE  Reliable(Begun(req))
<1>1. PICK j : j = Begun(req)
  OBVIOUS
<1>2. j.req = req /\ (req.api # "OffsetCommit" => j.answers = <<>>)
  BY <1>1 DEF Begun
<1>3. CASE req.api = "OffsetCommit"
  BY <1>1, <1>2, <1>3 DEF Reliable
<1>4. CASE req.api # "OffsetCommit"
  BY <1>1, <1>2, <1>4 DEF Reliable
<1> QED BY <1>3, <1>4

\* A handler that waits stays reliable.
LEMMA ReliableOn ==
    ASSUME BrokerInv, [Next]_vars, NEW j \in GoodJobs, Reliable(j)
    PROVE  Reliable(j)'
<1>1. j.req \in Requests /\ Fits(j)
  BY JobFields
<1>2. CASE j.req.api = "OffsetCommit"
  <2>1. PICK items \in Seq(CommitEntries) : items = j.req.items
    BY <1>1, <1>2, Kinds DEF CommitRequests
  <2>2. Honest(items)'
    BY <1>2, <2>1, HonestOn DEF Reliable
  <2> QED BY <1>2, <2>1, <2>2 DEF Reliable
<1>3. CASE j.req.api = "ListOffsets"
  <2>1. ASSUME NEW n \in DOMAIN j.answers, j.req.items[n].timestamp = -2
        PROVE  Given(j.req.items[n].key, j.answers[n].offset)'
    <3>1. PICK answers \in Seq(OffsetsTold) : answers = j.answers
      BY <1>1, <1>3 DEF Fits
    <3>2. PICK a \in OffsetsTold : a = answers[n]
      BY <2>1, <3>1
    <3>3. PICK p \in Int : p = j.answers[n].offset
      BY <3>1, <3>2 DEF OffsetsTold
    <3>4. Given(j.req.items[n].key, p)
      BY <1>3, <2>1, <3>3 DEF Reliable
    <3> QED BY <3>3, <3>4, GivenOn
  <2> QED BY <1>3, <2>1 DEF Reliable
<1>4. CASE j.req.api = "OffsetFetch"
  <2>1. ASSUME NEW n \in DOMAIN j.answers, j.phase = "reply"
        PROVE  Given(j.req.items[n].key, j.answers[n].offset)'
    <3>1. PICK answers \in Seq(OffsetsTold) : answers = j.answers
      BY <1>1, <1>4, <2>1 DEF Fits
    <3>2. PICK a \in OffsetsTold : a = answers[n]
      BY <2>1, <3>1
    <3>3. PICK p \in Int : p = j.answers[n].offset
      BY <3>1, <3>2 DEF OffsetsTold
    <3>4. Given(j.req.items[n].key, p)
      BY <1>4, <2>1, <3>3 DEF Reliable
    <3> QED BY <3>3, <3>4, GivenOn
  <2> QED BY <1>4, <2>1 DEF Reliable
<1> QED BY <1>2, <1>3, <1>4 DEF Reliable

\* What an offset fetch is told was given, whatever it asked for.
LEMMA OffsetAnswersGiven ==
    ASSUME BrokerInv, DeliveryInv, NEW req \in Requests, NEW checks, NEW f,
           NEW n \in DOMAIN req.items
    PROVE  Given(req.items[n].key, OffsetAnswers(req, checks, offsets, f)[n].offset)
<1>1. PICK key : key = req.items[n].key
  OBVIOUS
<1>2. OffsetAnswers(req, checks, offsets, f)[n].offset \in {-1, Committed(offsets, key)}
  BY <1>1, Zenon DEF OffsetAnswers
<1>3. Given(key, -1)
  BY FirstGiven DEF BrokerInv
<1>4. Given(key, Committed(offsets, key))
  BY <1>3 DEF Committed, DeliveryInv, StoreGiven
<1> QED BY <1>1, <1>2, <1>3, <1>4

\* A handler that has its response is reliable, since the manifest is.
LEMMA FinishedReliable ==
    ASSUME BrokerInv, DeliveryInv, [Next]_vars, NEW c \in Conns, job[c] # Idle,
           job[c].req.api = "OffsetFetch", NEW f, job' = Finished(c, f), job'[c] \in GoodJobs
    PROVE  Reliable(job[c])'
<1>1. PICK j \in GoodJobs : j = job'[c]
  OBVIOUS
<1>2. job[c].req \in Requests
  BY Busy, JobFields
<1>3. /\ j.req = job[c].req /\ j.phase = "reply"
      /\ j.answers = OffsetAnswers(j.req, job[c].answers, offsets, f)
  BY <1>1, FinishedFields DEF Response
<1>4. DOMAIN j.answers = DOMAIN j.req.items
  BY <1>3 DEF OffsetAnswers
<1>5. \A n \in DOMAIN j.answers : Given(j.req.items[n].key, j.answers[n].offset)
  BY <1>2, <1>3, <1>4, OffsetAnswersGiven
<1>6. Reliable(j)
  BY <1>3, <1>5 DEF Reliable
<1>7. Reliable(j)'
  BY <1>6, ReliableOn
<1> QED BY <1>1, <1>7

\* The handler of a list of offsets tells where logs start.
LEMMA ListedReliable ==
    ASSUME BrokerInv, DeliveryInv, [Next]_vars, NEW c \in Conns,
           ServeListOffsets(c) \/ ItemFails(c), job[c].req.api = "ListOffsets",
           job'[c] \in GoodJobs
    PROVE  Reliable(job[c])'
<1>1. PICK j \in GoodJobs : j = job[c]
  BY Busy DEF ServeListOffsets, ItemFails, Asking
<1>2. j # Idle /\ j.phase = "items" /\ j.req \in ListRequests
  BY <1>1, JobFields, Kinds DEF ServeListOffsets, ItemFails, Asking
<1>3. PICK item : item = At(c)
  OBVIOUS
<1>4. PICK l \in Nat : l = Len(j.answers)
  BY JobFields
<1>5. item = j.req.items[l + 1]
  BY <1>1, <1>3, <1>4 DEF At
<1>6. item.key \in Names
  <2>1. l + 1 \in 1 .. Len(j.req.items)
    BY <1>2, <1>4, JobFields, ItemsAreSequences DEF Progress
  <2>2. PICK items \in Seq([key : Names, timestamp : Int]) : items = j.req.items
    BY <1>2 DEF ListRequests
  <2>3. item \in [key : Names, timestamp : Int]
    BY <1>5, <2>1, <2>2, ElementType
  <2> QED BY <2>3
<1>7. PICK a : /\ job' = [job EXCEPT ![c] = With(c, a)]
               /\ a = ListItem(j.req, item) \/ a.offset = -1
  <2>1. CASE ServeListOffsets(c)
    BY <1>1, <1>3, <2>1 DEF ServeListOffsets
  <2>2. CASE ItemFails(c)
    <3>1. FailedItem(job[c].req) = [code |-> LogErrorCode["ObjectStore"], offset |-> -1]
      BY DEF FailedItem
    <3>2. FailedItem(job[c].req).offset = -1
      BY <3>1
    <3> QED BY <2>2, <3>2 DEF ItemFails
  <2> QED BY <2>1, <2>2
<1>8. ASSUME item.timestamp = -2 PROVE Given(item.key, a.offset)
  <2>1. Given(item.key, -1)
    BY FirstGiven DEF BrokerInv
  <2>2. CASE Unreadable(item.key) = "none" /\ a = ListItem(j.req, item) /\ a.offset # -1
    <3>1. item.key \in Keys
      BY <1>6, <2>2, Unreadables DEF BrokerInv
    <3>2. logs[item.key].start \in Nat
      BY <3>1, Known DEF BrokerInv
    <3>3. a.offset = logs[item.key].start
      BY <1>8, <2>2 DEF ListItem
    <3>4. Given(item.key, logs[item.key].start)
      BY <3>2, FirstGiven DEF BrokerInv
    <3> QED BY <3>3, <3>4
  <2>3. CASE Unreadable(item.key) # "none" /\ a = ListItem(j.req, item)
    <3>1. a.offset = -1
      BY <2>3 DEF ListItem
    <3> QED BY <2>1, <3>1
  <2> QED BY <1>7, <2>1, <2>2, <2>3
<1>9. PICK next : next = With(c, a)
  OBVIOUS
<1>10. next = job'[c]
  BY <1>7, <1>9, Busy
<1>11. next.req = j.req /\ next.answers = Append(j.answers, a)
  BY <1>1, <1>2, <1>9, WithFields
<1>12. PICK old \in Seq(Answers) : old = j.answers
  BY JobFields
<1>13. ASSUME NEW n \in DOMAIN next.answers, next.req.items[n].timestamp = -2
       PROVE  Given(next.req.items[n].key, next.answers[n].offset)
  <2>1. n \in 1 .. l + 1 /\ next.answers[n] = IF n = l + 1 THEN a ELSE old[n]
    BY <1>4, <1>11, <1>12, <1>13
  <2>2. CASE n = l + 1
    BY <1>5, <1>8, <1>11, <1>13, <2>1, <2>2
  <2>3. CASE n # l + 1
    <3>1. n \in DOMAIN j.answers
      BY <1>4, <1>12, <2>1, <2>3
    <3>2. Reliable(j)
      BY <1>1, <1>2 DEF DeliveryInv
    <3> QED BY <1>2, <1>11, <1>12, <1>13, <2>1, <2>3, <3>1, <3>2 DEF Reliable, ListRequests
  <2> QED BY <2>2, <2>3
<1>14. Reliable(next)
  BY <1>2, <1>11, <1>13 DEF Reliable, ListRequests
<1>15. Reliable(next)'
  BY <1>10, <1>14, ReliableOn
<1> QED BY <1>10, <1>15

\* Every handler stays reliable.
LEMMA ReliableKept ==
    ASSUME BrokerInv, DeliveryInv, [Next]_vars, NEW c \in Conns, job'[c] # Idle
    PROVE  Reliable(job[c])'
<1>1. job'[c] \in GoodJobs
  BY NextType DEF BrokerInv, JobsInv
<1>2. PICK next \in GoodJobs : next = job'[c]
  BY <1>1
<1>3. CASE job'[c] = job[c]
  <2>1. Reliable(next)
    BY <1>2, <1>3 DEF DeliveryInv
  <2> QED BY <1>2, <2>1, ReliableOn
<1>4. ASSUME NEW req \in Requests, NEW k \in Clients, req \in Sendable(k), job'[c] = Begun(req)
      PROVE  Reliable(job[c])'
  <2>1. Reliable(next)
    BY <1>2, <1>4, SendableGiven, BegunReliable
  <2> QED BY <1>2, <2>1, ReliableOn
<1>5. ASSUME (Handle(c) /\ ~Reply(c)) \/ ItemFails(c) \/ StoreFails(c)
      PROVE  Reliable(job[c])'
  <2>1. job[c] # Idle /\ next.req.api = job[c].req.api
    BY <1>2, <1>5, ApiKept
  <2>2. PICK j \in GoodJobs : j = job[c]
    BY <2>1, Busy
  <2>3. Reliable(j)
    BY <2>1, <2>2 DEF DeliveryInv
  <2>4. CASE j.req.api = "OffsetCommit"
    <3>1. next.req = j.req
      BY <1>2, <1>5, <2>2, <2>4, ApiKept
    <3>2. Reliable(next)
      BY <2>3, <2>4, <3>1 DEF Reliable
    <3> QED BY <1>2, <3>2, ReliableOn
  <2>5. CASE j.req.api = "ListOffsets"
    <3>1. j.phase \in {"items", "reply"}
      BY <2>5, JobFields DEF Progress, Phases
    <3>2. ServeListOffsets(c) \/ ItemFails(c)
      BY <1>5, <2>2, <2>5, <3>1 DEF Handle, ServeFetch, CheckTopic, ServeProduce, ServeMetadata,
         ListTopics, LoadCounter, Fence, LoadForCommit, LoadForFetch, Put, Reply, StoreFails, Asking
    <3> QED BY <1>1, <2>2, <2>5, <3>2, ListedReliable
  <2>6. CASE j.req.api = "OffsetFetch"
    <3>1. j.phase # "put"
      BY <2>6, JobFields DEF Progress
    <3>2. CheckTopic(c) \/ ItemFails(c) \/ LoadForFetch(c) \/ StoreFails(c)
      BY <1>5, <2>2, <2>6, <3>1 DEF Handle, ServeFetch, ServeListOffsets, ServeProduce, ServeMetadata,
         ListTopics, LoadCounter, Fence, LoadForCommit, Put, Asking
    <3>3. CASE LoadForFetch(c) \/ StoreFails(c)
      <4>1. \E f : job' = Finished(c, f)
        BY <3>3 DEF LoadForFetch, StoreFails
      <4> QED BY <1>1, <2>1, <2>2, <2>6, <4>1, FinishedReliable
    <3>4. CASE CheckTopic(c) \/ ItemFails(c)
      <4>1. PICK a : job' = [job EXCEPT ![c] = With(c, a)]
        BY <3>4 DEF CheckTopic, ItemFails
      <4>2. next = With(c, a)
        BY <1>2, <4>1, Busy
      <4>3. next.phase = Following(j.req, Len(j.answers) + 1)
        BY <2>1, <2>2, <4>2, WithFields
      <4>4. next.phase # "reply"
        BY <2>6, <4>3 DEF Following
      <4>5. Reliable(next)
        BY <2>1, <2>2, <2>6, <4>4 DEF Reliable
      <4> QED BY <1>2, <4>5, ReliableOn
    <3> QED BY <3>2, <3>3, <3>4
  <2>7. CASE j.req.api \notin {"OffsetCommit", "ListOffsets", "OffsetFetch"}
    <3>1. Reliable(next)
      BY <2>1, <2>2, <2>7 DEF Reliable
    <3> QED BY <1>2, <3>1, ReliableOn
  <2> QED BY <2>4, <2>5, <2>6, <2>7
<1> QED BY <1>3, <1>4, <1>5, JobSteps

\* What may happen to a client.
LEMMA ClientSteps ==
    ASSUME BrokerInv, [Next]_vars, NEW k \in Clients
    PROVE  \/ client'[k] = client[k]
           \/ /\ client[k].waiting
              /\ \E d \in Dials[k], fresh \in BOOLEAN : client'[k] = Redialled(k, d, fresh)
           \/ Send(k)
           \/ client[k].waiting /\ Reply(client[k].at)
<1>1. DOMAIN client = Clients
  BY DEF BrokerInv, ClientsInv
<1>2. ASSUME NEW conns, Lose(conns)
      PROVE  \/ client'[k] = client[k]
             \/ /\ client[k].waiting
                /\ \E d \in Dials[k], fresh \in BOOLEAN : client'[k] = Redialled(k, d, fresh)
  <2>1. PICK dial \in [Clients -> Conns], fresh \in BOOLEAN :
            /\ \A l \in Clients : dial[l] \in Dials[l]
            /\ client' = [l \in Clients |->
                   IF client[l].waiting /\ client[l].at \in conns
                   THEN Redialled(l, dial[l], fresh) ELSE client[l]]
    BY <1>2 DEF Lose
  <2> QED BY <2>1
<1>3. ASSUME NEW c \in Conns, Reply(c), ~(client[k].waiting /\ Reply(client[k].at))
      PROVE  client'[k] = client[k]
  <2>1. k \notin Reader(c)
    BY <1>3 DEF Reader
  <2> QED BY <1>3, <2>1, Zenon DEF Reply
<1>4. ASSUME NEW c \in Conns, Handle(c) /\ ~Reply(c) PROVE client' = client
  BY <1>4 DEF Handle, ServeFetch, ServeListOffsets, CheckTopic, ServeProduce, ServeMetadata,
              ListTopics, LoadCounter, Fence, LoadForCommit, LoadForFetch, Put, Keep
<1>5. ASSUME NEW c \in Conns, ItemFails(c) \/ StoreFails(c) PROVE client' = client
  BY <1>5 DEF ItemFails, StoreFails
<1>6. ASSUME NEW l \in Clients, Send(l), l # k PROVE client'[k] = client[k]
  <2>1. \E m : client' = [client EXCEPT ![l] = m]
    BY <1>6, Zenon DEF Send
  <2> QED BY <1>1, <1>6, <2>1
<1>7. ASSUME NEW l \in Clients, HangUp(l)
      PROVE  \/ client'[k] = client[k]
             \/ /\ client[k].waiting
                /\ \E d \in Dials[k], fresh \in BOOLEAN : client'[k] = Redialled(k, d, fresh)
  <2>1. PICK d \in Dials[l], fresh \in BOOLEAN : client' = [client EXCEPT ![l] = Redialled(l, d, fresh)]
    BY <1>7 DEF HangUp
  <2>2. CASE l = k
    BY <1>1, <1>7, <2>1, <2>2 DEF HangUp
  <2>3. CASE l # k
    BY <1>1, <2>1, <2>3
  <2> QED BY <2>2, <2>3
<1>8. ASSUME NEW c \in Conns, ListingFails(c) PROVE Lose({c})
  BY <1>8 DEF ListingFails
<1>9. ASSUME NEW b \in Brokers, Shutdown(b)
      PROVE Lose({c \in Conns : BrokerOf[c] = b /\ job[c] # Idle})
  BY <1>9, Zenon DEF Shutdown
<1>10. CASE LateWrite \/ (\E key \in Keys : Trim(key)) \/ UNCHANGED vars
  BY <1>10 DEF LateWrite, Trim, vars
<1> QED BY <1>2, <1>3, <1>4, <1>5, <1>6, <1>7, <1>8, <1>9, <1>10 DEF Next

\* What a consumer asked stays prudent.
LEMMA PrudentOn ==
    ASSUME BrokerInv, [Next]_vars, NEW req \in Requests, Prudent(req)
    PROVE  Prudent(req)'
<1>1. ASSUME req.api = "Fetch", NEW n \in DOMAIN req.items
      PROVE  Given(req.items[n].key, req.items[n].from)'
  <2>1. PICK items \in Seq([key : Names, from : Int, max : Int]) : items = req.items
    BY <1>1, Kinds DEF FetchRequests
  <2>2. PICK item \in [key : Names, from : Int, max : Int] : item = items[n]
    <3>1. n \in 1 .. Len(items)
      BY <1>1, <2>1
    <3> QED BY <3>1, ElementType
  <2>3. item.from \in Int /\ Given(item.key, item.from)
    BY <1>1, <2>1, <2>2 DEF Prudent
  <2>4. Given(item.key, item.from)'
    BY <2>3, GivenOn
  <2> QED BY <2>1, <2>2, <2>4
<1> QED BY <1>1 DEF Prudent

\* The positions of a client stay given.
LEMMA PositionsOn ==
    ASSUME BrokerInv, DeliveryInv, [Next]_vars, NEW k \in Clients
    PROVE  \A key \in DOMAIN client[k].pos : \A p : p = client[k].pos[key] => Given(key, p)'
<1>1. ASSUME NEW key \in DOMAIN client[k].pos, NEW p, p = client[k].pos[key] PROVE Given(key, p)'
  <2>1. client[k].pos \in [Range(client[k].keys) -> Int]
    BY ClientFields DEF BrokerInv, ClientsInv
  <2>2. p \in Int /\ Given(key, p)
    BY <1>1, <2>1 DEF DeliveryInv, ClientGiven
  <2> QED BY <2>2, GivenOn
<1> QED BY <1>1

\* A client that nothing happens to.
LEMMA ClientWaits ==
    ASSUME BrokerInv, DeliveryInv, [Next]_vars, NEW k \in Clients, client'[k] = client[k]
    PROVE  ClientGiven(k)'
<1>1. PICK m \in GoodClients(k) : m = client[k]
  BY DEF BrokerInv, ClientsInv
<1>2. PICK c \in Conns : c = m.at
  BY ClientFields, BrokerAssumption
<1>3. \A key \in DOMAIN m.pos : Given(key, m.pos[key])'
  BY <1>1, PositionsOn
<1>4. /\ m.keys # <<>> => m.script = <<>>
      /\ \A i \in DOMAIN m.script : Modest(m.script[i])
  BY <1>1 DEF DeliveryInv, ClientGiven
<1>5. ASSUME m.waiting
      PROVE  IF m.keys = <<>> THEN Modest(job'[c].req) ELSE Prudent(job[c].req)'
  <2>1. job[c] # Idle /\ job'[c] # Idle
    BY <1>1, <1>2, <1>5, NextType DEF BrokerInv, ClientsInv
  <2>2. job[c] \in GoodJobs /\ job'[c] \in GoodJobs
    BY <2>1, NextType DEF BrokerInv, JobsInv
  <2>3. PICK req \in Requests : req = job[c].req
    BY <2>2, JobFields
  <2>4. PICK next \in Requests : next = job'[c].req
    BY <2>2, JobFields
  <2>5. IF m.keys = <<>> THEN Modest(req) ELSE Prudent(req)
    BY <1>1, <1>2, <1>5, <2>3 DEF DeliveryInv, ClientGiven
  <2>6. next.api = req.api /\ (req.api # "Metadata" => next = req)
    BY <2>1, <2>3, <2>4, JobSteps, ApiKept
  <2>7. CASE m.keys = <<>>
    BY <2>4, <2>5, <2>6, <2>7 DEF Modest
  <2>8. CASE m.keys # <<>>
    <3>1. Prudent(req) /\ next = req
      BY <2>5, <2>6, <2>8 DEF Prudent
    <3>2. Prudent(next)'
      BY <3>1, PrudentOn
    <3> QED BY <2>4, <2>8, <3>2
  <2> QED BY <2>7, <2>8
<1>6. client'[k] = m
  BY <1>1
<1> QED BY <1>2, <1>3, <1>4, <1>5, <1>6 DEF ClientGiven, Modest

\* A client that dials again.
LEMMA RedialledGiven ==
    ASSUME BrokerInv, DeliveryInv, [Next]_vars, NEW k \in Clients, client[k].waiting,
           NEW d \in Dials[k], NEW fresh \in BOOLEAN, client'[k] = Redialled(k, d, fresh)
    PROVE  ClientGiven(k)'
<1>1. PICK m \in GoodClients(k) : m = client[k]
  BY DEF BrokerInv, ClientsInv
<1>2. PICK n : n = client'[k]
  OBVIOUS
<1>3. PICK script : script = IF m.keys # <<>> THEN m.script ELSE <<job[m.at].req>> \o m.script
  OBVIOUS
<1>4. PICK pos : pos = IF fresh THEN [key \in DOMAIN m.pos |-> Unasked] ELSE m.pos
  OBVIOUS
<1>5. n = [m EXCEPT !.at = d, !.waiting = FALSE, !.script = script, !.pos = pos]
  BY <1>1, <1>2, <1>3, <1>4, ClientRecord DEF Redialled, Consumer
<1>6. n.waiting = FALSE /\ n.keys = m.keys /\ n.script = script /\ n.pos = pos
  <2>1. m = [at |-> m.at, waiting |-> m.waiting, script |-> m.script, commits |-> m.commits,
             keys |-> m.keys, pos |-> m.pos]
    BY ClientRecord
  <2> QED BY ONLY <1>5, <2>1
<1>7. ASSUME NEW key \in DOMAIN pos PROVE Given(key, pos[key])'
  <2>1. CASE fresh
    <3>1. pos[key] = Unasked /\ Unasked \in Int /\ Unasked <= 0
      BY <1>4, <1>7, <2>1 DEF Unasked
    <3>2. Given(key, Unasked)
      BY <3>1, FirstGiven DEF BrokerInv
    <3> QED BY <3>1, <3>2, GivenOn
  <2>2. CASE ~fresh
    BY <1>1, <1>4, <1>7, <2>2, PositionsOn
  <2> QED BY <2>1, <2>2
<1>8. /\ m.keys # <<>> => m.script = <<>>
      /\ \A i \in DOMAIN m.script : Modest(m.script[i])
  BY <1>1 DEF DeliveryInv, ClientGiven
<1>9. ASSUME NEW i \in DOMAIN script PROVE Modest(script[i])
  <2>1. CASE m.keys # <<>>
    BY <1>3, <1>8, <1>9, <2>1
  <2>2. CASE m.keys = <<>>
    <3>1. PICK req : req = job[m.at].req
      OBVIOUS
    <3>2. Modest(req)
      BY <1>1, <2>2, <3>1 DEF DeliveryInv, ClientGiven
    <3>3. PICK old \in Seq(Requests) : old = m.script
      BY ClientFields
    <3>4. script = <<req>> \o old
      BY <1>3, <2>2, <3>1, <3>3
    <3>5. script[i] = req \/ \E h \in DOMAIN old : script[i] = old[h]
      <4>1. PICK l \in Nat : l = Len(old) /\ DOMAIN old = 1 .. l
        BY <3>3
      <4>2. i \in 1 .. l + 1 /\ script[i] = IF i = 1 THEN req ELSE old[i - 1]
        BY <1>9, <3>4, <4>1
      <4>3. i # 1 => i - 1 \in 1 .. l
        BY <4>2
      <4> QED BY <4>1, <4>2, <4>3
    <3> QED BY <1>8, <3>2, <3>3, <3>5
  <2> QED BY <2>1, <2>2
<1> QED BY <1>2, <1>3, <1>6, <1>7, <1>8, <1>9 DEF ClientGiven, Modest

\* A client that sends a request.
LEMMA SendGiven ==
    ASSUME BrokerInv, DeliveryInv, [Next]_vars, NEW k \in Clients, Send(k)
    PROVE  ClientGiven(k)'
<1>1. PICK m \in GoodClients(k) : m = client[k]
  BY DEF BrokerInv, ClientsInv
<1>2. PICK c \in Conns : c = m.at
  BY ClientFields, BrokerAssumption
<1>3. PICK req \in Sendable(k) :
          /\ job' = IF Admission(req) = "handle" THEN [job EXCEPT ![c] = Begun(req)] ELSE job
          /\ client' = [client EXCEPT
                 ![k].waiting = Admission(req) = "handle" /\ ~Silent(req),
                 ![k].script = IF @ = <<>> THEN @ ELSE Tail(@),
                 ![k].commits = IF Consumer(k) /\ req.api = "OffsetCommit" THEN @ - 1 ELSE @]
  BY <1>1, <1>2, Zenon DEF Send
<1>4. PICK waiting \in BOOLEAN : waiting = (Admission(req) = "handle" /\ ~Silent(req))
  OBVIOUS
<1>5. PICK script : script = IF m.script = <<>> THEN m.script ELSE Tail(m.script)
  OBVIOUS
<1>6. PICK commits : commits = IF Consumer(k) /\ req.api = "OffsetCommit" THEN m.commits - 1 ELSE m.commits
  OBVIOUS
<1>7. PICK n : n = [m EXCEPT !.waiting = waiting, !.script = script, !.commits = commits]
  OBVIOUS
<1>8. m = [at |-> m.at, waiting |-> m.waiting, script |-> m.script, commits |-> m.commits,
           keys |-> m.keys, pos |-> m.pos]
  BY ClientRecord
<1>9. client' = [client EXCEPT ![k] = n]
  <2>1. DOMAIN client = Clients
    BY DEF BrokerInv, ClientsInv
  <2> QED BY <1>1, <1>3, <1>4, <1>5, <1>6, <1>7, <1>8, <2>1, Zenon
<1>10. /\ n.at = c /\ n.waiting = waiting /\ n.script = script /\ n.keys = m.keys /\ n.pos = m.pos
  BY ONLY <1>2, <1>7, <1>8
<1>11. client'[k] = n
  BY <1>9 DEF BrokerInv, ClientsInv
<1>12. \A key \in DOMAIN m.pos : Given(key, m.pos[key])'
  BY <1>1, PositionsOn
<1>13. /\ m.keys # <<>> => m.script = <<>>
       /\ \A i \in DOMAIN m.script : Modest(m.script[i])
  BY <1>1 DEF DeliveryInv, ClientGiven
<1>14. ASSUME NEW i \in DOMAIN script PROVE Modest(script[i])
  <2>1. CASE m.script = <<>>
    BY <1>5, <1>13, <1>14, <2>1
  <2>2. CASE m.script # <<>>
    <3>1. PICK old \in Seq(Requests) : old = m.script
      BY ClientFields
    <3>2. script = Tail(old) /\ old # <<>>
      BY <1>5, <2>2, <3>1
    <3>3. i + 1 \in DOMAIN old /\ script[i] = old[i + 1]
      BY <1>14, <3>2
    <3> QED BY <1>13, <3>1, <3>3
  <2> QED BY <2>1, <2>2
<1>15. m.keys # <<>> => script = <<>>
  BY <1>5, <1>13
<1>16. ASSUME waiting
       PROVE  IF m.keys = <<>> THEN Modest(job'[c].req) ELSE Prudent(job[c].req)'
  <2>1. job'[c] = Begun(req)
    BY <1>3, <1>4, <1>16, Busy
  <2>2. Begun(req).req = req
    BY DEF Begun
  <2>3. req \in Requests /\ IF m.keys = <<>> THEN Modest(req) ELSE Prudent(req)
    BY <1>1, SendableGiven
  <2>4. PICK next \in Requests : next = req
    BY <2>3
  <2>5. CASE m.keys = <<>>
    BY <2>1, <2>2, <2>3, <2>5
  <2>6. CASE m.keys # <<>>
    <3>1. Prudent(next)'
      BY <2>3, <2>4, <2>6, PrudentOn
    <3>2. job'[c].req = next
      BY <2>1, <2>2, <2>4
    <3> QED BY <2>6, <3>1, <3>2
  <2> QED BY <2>5, <2>6
<1> QED BY <1>10, <1>11, <1>12, <1>14, <1>15, <1>16 DEF ClientGiven, Modest

\* The position that a response gives to a consumer was given to it, or is before all.
LEMMA PositionGiven ==
    ASSUME BrokerInv, DeliveryInv, [Next]_vars, NEW j \in GoodJobs, j.phase = "reply",
           j.fault = "none", Reliable(j), Prudent(j.req),
           j.req.api = "Fetch" => Delivered(j.req, j.answers) \subseteq seen',
           NEW key, NEW pos \in Int, Given(key, pos)
    PROVE  Given(key, Position(j.req, j.answers, key, pos))'
<1>1. PICK n \in Nat : n = Len(j.req.items)
  BY JobFields, ItemsAreSequences
<1>2. DOMAIN j.req.items = 1 .. n
  BY <1>1, JobFields, ItemsAreSequences
<1>3. Progress(j) /\ Fits(j) /\ j.answers \in Seq(Answers) /\ j.req \in Requests
  BY JobFields
<1>4. Len(j.answers) = n /\ DOMAIN j.answers = 1 .. n
  BY <1>1, <1>3 DEF Progress
<1>5. Given(key, pos)'
  BY GivenOn
<1> DEFINE mine == {i \in DOMAIN j.req.items : j.req.items[i].key = key}
<1>6. CASE mine = {}
  BY <1>5, <1>6 DEF Position
<1>7. CASE mine # {}
  <2>1. PICK i : i = CHOOSE x \in mine : TRUE
    OBVIOUS
  <2>2. i \in mine
    BY <1>7, <2>1, Zenon
  <2>3. i \in 1 .. n /\ j.req.items[i].key = key
    BY <1>2, <2>2
  <2>4. PICK a : a = j.answers[i]
    OBVIOUS
  <2>5. PICK q : q = Position(j.req, j.answers, key, pos)
    OBVIOUS
  <2>6. q = CASE a.code = "OffsetOutOfRange" -> Nowhere
              [] a.code = "none" /\ j.req.api = "Fetch" -> a.until
              [] a.code = "none" /\ j.req.api \in {"OffsetFetch", "ListOffsets"} -> a.offset
              [] OTHER -> pos
    BY <1>7, <2>1, <2>4, <2>5 DEF Position
  <2>7. CASE q = Nowhere
    <3>1. Nowhere \in Int /\ Nowhere <= 0
      BY DEF Nowhere
    <3>2. Given(key, Nowhere)
      BY <3>1, FirstGiven DEF BrokerInv
    <3>3. Given(key, Nowhere)'
      BY <3>1, <3>2, GivenOn
    <3> QED BY <2>5, <2>7, <3>3
  <2>8. CASE q = a.until /\ j.req.api = "Fetch"
    <3>1. PICK answers \in Seq(FetchAnswers) : answers = j.answers
      BY <1>3, <2>8 DEF Fits
    <3>2. a \in FetchAnswers
      BY <1>4, <2>3, <2>4, <3>1, ElementType
    <3>3. q \in Int
      BY <2>8, <3>2 DEF FetchAnswers
    <3>4. PICK items \in Seq([key : Names, from : Int, max : Int]) : items = j.req.items
      BY <1>3, <2>8, Kinds DEF FetchRequests
    <3>5. PICK item \in [key : Names, from : Int, max : Int] : item = items[i]
      BY <1>1, <2>3, <3>4, ElementType
    <3>6. item.from \in Int /\ item.key = key /\ Given(key, item.from)
      BY <1>2, <2>3, <2>8, <3>4, <3>5 DEF Prudent
    <3>7. Given(key, item.from)'
      BY <3>6, GivenOn
    <3>8. \A o \in item.from .. q - 1 : <<key, o>> \in seen'
      <4>1. \A o \in item.from .. q - 1 : <<key, o>> \in Delivered(j.req, j.answers)
        BY <1>2, <2>3, <2>4, <2>8, <3>4, <3>5 DEF Delivered
      <4> QED BY <2>8, <4>1
    <3>9. ASSUME key \in Keys, NEW o \in logs'[key].start .. q - 1 PROVE <<key, o>> \in seen'
      <4>1. logs'[key].start \in Nat
        BY <3>9, LogsGoOn
      <4>2. CASE o < item.from
        <5>1. o \in logs'[key].start .. item.from - 1
          BY <3>6, <4>1, <4>2
        <5> QED BY <3>7, <3>9, <5>1 DEF Given
      <4>3. CASE ~(o < item.from)
        BY <3>3, <3>6, <3>8, <4>1, <4>3
      <4> QED BY <4>2, <4>3
    <3>10. Given(key, q)'
      BY <3>9 DEF Given
    <3> QED BY <2>5, <3>10
  <2>9. CASE q = a.offset /\ j.req.api \in {"OffsetFetch", "ListOffsets"}
    <3>1. PICK answers \in Seq(OffsetsTold) : answers = j.answers
      BY <1>3, <2>9 DEF Fits
    <3>2. a \in OffsetsTold
      BY <1>4, <2>3, <2>4, <3>1, ElementType
    <3>3. q \in Int
      BY <2>9, <3>2 DEF OffsetsTold
    <3>4. Given(key, q)
      BY <1>2, <1>4, <2>3, <2>4, <2>9 DEF Reliable, Prudent
    <3>5. Given(key, q)'
      BY <3>3, <3>4, GivenOn
    <3> QED BY <2>5, <3>5
  <2>10. CASE q = pos
    BY <1>5, <2>5, <2>10
  <2> QED BY <2>6, <2>7, <2>8, <2>9, <2>10
<1> QED BY <1>6, <1>7

\* A client that reads its response.
LEMMA ReplyGiven ==
    ASSUME BrokerInv, DeliveryInv, [Next]_vars, NEW k \in Clients, client[k].waiting,
           Reply(client[k].at)
    PROVE  ClientGiven(k)'
<1>1. PICK m \in GoodClients(k) : m = client[k]
  BY DEF BrokerInv, ClientsInv
<1>2. PICK c \in Conns : c = m.at
  BY ClientFields, BrokerAssumption
<1>3. job[c] # Idle /\ job[c].phase = "reply"
  BY <1>1, <1>2 DEF Reply
<1>4. PICK j \in GoodJobs : j = job[c]
  BY <1>3, Busy
<1>5. k \in Reader(c)
  BY <1>1, <1>2 DEF Reader
<1>6. PICK pos : pos = IF j.fault # "none" THEN m.pos
                       ELSE [key \in DOMAIN m.pos |-> Position(j.req, j.answers, key, m.pos[key])]
  OBVIOUS
<1>7. PICK n : n = [m EXCEPT !.waiting = FALSE, !.pos = pos]
  OBVIOUS
<1>8. client'[k] = n
  <2>1. client' = [l \in Clients |->
            IF l \notin Reader(c) THEN client[l]
            ELSE [client[l] EXCEPT !.waiting = FALSE,
                      !.pos = IF j.fault # "none" THEN @
                              ELSE [key \in DOMAIN @ |-> Position(j.req, j.answers, key, @[key])]]]
    BY <1>1, <1>2, <1>4 DEF Reply
  <2> QED BY <1>1, <1>5, <1>6, <1>7, <2>1
<1>9. /\ n.waiting = FALSE /\ n.script = m.script /\ n.keys = m.keys /\ n.pos = pos
  <2>1. m = [at |-> m.at, waiting |-> m.waiting, script |-> m.script, commits |-> m.commits,
             keys |-> m.keys, pos |-> m.pos]
    BY ClientRecord
  <2> QED BY ONLY <1>7, <2>1
<1>10. /\ m.keys # <<>> => m.script = <<>>
       /\ \A i \in DOMAIN m.script : Modest(m.script[i])
  BY <1>1 DEF DeliveryInv, ClientGiven
<1>11. ASSUME NEW key \in DOMAIN pos PROVE Given(key, pos[key])'
  <2>1. key \in DOMAIN m.pos /\ m.pos \in [Range(m.keys) -> Int]
    BY <1>6, <1>11, ClientFields
  <2>2. CASE j.fault # "none"
    BY <1>1, <1>6, <2>1, <2>2, PositionsOn
  <2>3. CASE j.fault = "none"
    <3>1. PICK p \in Int : p = m.pos[key]
      BY <2>1
    <3>2. Given(key, p)
      BY <1>1, <2>1, <3>1 DEF DeliveryInv, ClientGiven
    <3>3. m.keys # <<>>
      BY <2>1 DEF Range
    <3>4. Reliable(j) /\ Prudent(j.req)
      BY <1>1, <1>2, <1>3, <1>4, <3>3 DEF DeliveryInv, ClientGiven
    <3>5. j.req.api = "Fetch" => Delivered(j.req, j.answers) \subseteq seen'
      BY <1>1, <1>2, <1>4, <1>5 DEF Reply
    <3>6. Given(key, Position(j.req, j.answers, key, p))'
      BY <1>3, <1>4, <2>3, <3>1, <3>2, <3>4, <3>5, PositionGiven
    <3> QED BY <1>6, <1>11, <2>1, <2>3, <3>1, <3>6
  <2> QED BY <2>2, <2>3
<1> QED BY <1>8, <1>9, <1>10, <1>11 DEF ClientGiven, Modest

\* At first nobody claims anything.
LEMMA InitDelivery == Init => DeliveryInv
<1> SUFFICES ASSUME Init PROVE DeliveryInv
  OBVIOUS
<1>1. PICK w \in Workloads :
        /\ topics = w.topics /\ logs = w.logs
        /\ offsets = Missing /\ counter = Missing
        /\ job = [c \in Conns |-> Idle] /\ lock = [b \in Brokers |-> Nobody]
        /\ late = {}
        /\ client = [k \in Clients |->
               [at |-> First[k], waiting |-> FALSE, script |-> w.scripts[k],
                commits |-> w.commits[k],
                keys |-> w.subscribed[k],
                pos |-> [key \in Range(w.subscribed[k]) |-> Unasked]]]
  BY DEF Init
<1>2. StoreInv
  BY InitType DEF BrokerInv
<1>3. StoreGiven /\ LateGiven /\ \A c \in Conns : job[c] = Idle
  BY <1>1 DEF StoreGiven, LateGiven, Loaded, EmptyManifest
<1>4. ASSUME NEW k \in Clients PROVE ClientGiven(k)
  <2>1. \A key : Given(key, Unasked)
    BY <1>2, FirstGiven DEF Unasked
  <2>2. PICK script : script = w.scripts[k]
    OBVIOUS
  <2>3. PICK keys : keys = w.subscribed[k]
    OBVIOUS
  <2>4. keys # <<>> => script = <<>>
    BY <2>2, <2>3, ScriptsAssumption
  <2>5. \A i \in DOMAIN script : Modest(script[i])
    BY <2>2, ScriptsAssumption DEF Modest
  <2>6. /\ client[k].waiting = FALSE /\ client[k].script = script /\ client[k].keys = keys
        /\ client[k].pos = [key \in Range(keys) |-> Unasked]
    BY <1>1, <2>2, <2>3
  <2> QED BY <2>1, <2>4, <2>5, <2>6 DEF ClientGiven
<1> QED BY <1>3, <1>4 DEF DeliveryInv

\* Every step keeps what is claimed behind what was given.
LEMMA NextDelivery == BrokerInv /\ CommitsInv /\ DeliveryInv /\ [Next]_vars => DeliveryInv'
<1> SUFFICES ASSUME BrokerInv, CommitsInv, DeliveryInv, [Next]_vars PROVE DeliveryInv'
  OBVIOUS
<1>1. StoreGiven' /\ LateGiven'
  BY StoreKeptGiven, LateKept
<1>2. ASSUME NEW c \in Conns, job'[c] # Idle PROVE Reliable(job[c])'
  BY <1>2, ReliableKept
<1>3. ASSUME NEW k \in Clients PROVE ClientGiven(k)'
  BY <1>3, ClientSteps, ClientWaits, RedialledGiven, SendGiven, ReplyGiven
<1> QED BY <1>1, <1>2, <1>3 DEF DeliveryInv

(***************************************************************************)
(* CommittedWasDelivered: a committed offset is past no retained record    *)
(* that was not delivered, although consumers are replaced, requests are   *)
(* abandoned, writes arrive late and the log is trimmed.  A consumer knows *)
(* its positions only from what was delivered, from what was committed     *)
(* before, or from the start of the log.                                   *)
(***************************************************************************)
THEOREM CommitsDelivered == Spec => []CommittedWasDelivered
<1>1. Init => DeliveryInv /\ CommitsInv
  <2>1. Init => CommitsInv
    BY DEF Init, CommitsInv
  <2> QED BY <2>1, InitDelivery
<1>2. BrokerInv /\ CommitsInv /\ DeliveryInv /\ [Next]_vars => DeliveryInv' /\ CommitsInv'
  BY NextDelivery, NextCommits
<1>3. BrokerInv /\ OffsetsInv /\ DeliveryInv => CommittedWasDelivered
  <2> SUFFICES ASSUME BrokerInv, OffsetsInv, DeliveryInv,
                      NEW k \in DOMAIN Loaded(offsets).offsets
               PROVE  \A o \in logs[k].start .. Committed(offsets, k) - 1 : <<k, o>> \in seen
    BY DEF CommittedWasDelivered
  <2>1. k \in Keys
    <3>1. Readable(offsets)
      BY DEF OffsetsInv, ManifestReadable
    <3> QED BY <3>1 DEF Readable, Loaded, EmptyManifest
  <2>2. Committed(offsets, k) = Loaded(offsets).offsets[k]
    BY DEF Committed
  <2> QED BY <2>1, <2>2 DEF DeliveryInv, StoreGiven, Given
<1>4. Init => OffsetsInv
  BY InitOffsets
<1>5. BrokerInv /\ OffsetsInv /\ [Next]_vars => OffsetsInv'
  BY NextOffsets
<1> QED BY <1>1, <1>2, <1>3, <1>4, <1>5, HandlersInvariant, PTL DEF Spec
=============================================================================
