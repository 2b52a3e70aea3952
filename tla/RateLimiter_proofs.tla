------------------------- MODULE RateLimiter_proofs -------------------------
(***************************************************************************)
(* The rate limiter, for every burst, rate and cost, any store caps, idle  *)
(* TTLs and sweep intervals, and every sequence of clock readings.         *)
(*                                                                         *)
(* A call consults an axis once or not at all, and an axis does not read   *)
(* another.  So the invariant is one per axis: of what the axis keeps (its *)
(* view) and of what the history records of its keys.                      *)
(***************************************************************************)
EXTENDS RateLimiter, FiniteSetTheorems, TLAPS

---------------------------------------------------------------------------
\* Multiplication distributes.
LEMMA Distribute ==
    ASSUME NEW a \in Int, NEW b \in Int, NEW c \in Int
    PROVE  a * (b + c) = a * b + a * c
    OBVIOUS

\* A product of naturals is a natural.
LEMMA ProductNat ==
    ASSUME NEW a \in Nat, NEW b \in Nat
    PROVE  a * b \in Nat
    OBVIOUS

\* A larger factor, a larger product.
LEMMA ProductGrows ==
    ASSUME NEW a \in Nat, NEW b \in Int, NEW c \in Int, b <= c
    PROVE  a * b \in Int /\ a * c \in Int /\ a * b <= a * c
    <1>1. a * (c - b) \in Nat
        <2>1. c - b \in Nat
            OBVIOUS
        <2> QED BY <2>1, ProductNat
    <1>2. a * c = a * b + a * (c - b)
        <2>1. c = b + (c - b) /\ c - b \in Int
            OBVIOUS
        <2> QED BY <2>1, Distribute
    <1>3. a * b \in Int /\ a * c \in Int
        OBVIOUS
    <1> QED BY <1>1, <1>2, <1>3

\* The interval up to a natural is finite, and has that many members.
LEMMA FromOne ==
    ASSUME NEW n \in Nat
    PROVE  IsFiniteSet(1..n) /\ Cardinality(1..n) = n
    <1>1. 1 \in Int /\ n \in Int
        OBVIOUS
    <1>2. IsFiniteSet(1..n) /\ Cardinality(1..n) = IF 1 > n THEN 0 ELSE n - 1 + 1
        BY <1>1, FS_Interval
    <1> QED BY <1>2

---------------------------------------------------------------------------
(***************************************************************************)
(* Ordered dicts.                                                          *)
(***************************************************************************)
ItemsOf(od) == {od[i] : i \in DOMAIN od}
Unique(od) == \A i, j \in DOMAIN od : od[i].key = od[j].key => i = j

\* Entries keeps the entries at the positions S, each once.
LEMMA EntriesFacts ==
    ASSUME NEW T, NEW od \in Seq(T), NEW S \in SUBSET DOMAIN od
    PROVE  /\ Entries(od, S) \in Seq(T)
           /\ Len(Entries(od, S)) = Cardinality(S)
           /\ Cardinality(S) \in Nat /\ Cardinality(S) <= Len(od)
           /\ Cardinality(S) = Len(od) => S = DOMAIN od
           /\ ItemsOf(Entries(od, S)) = {od[i] : i \in S}
           /\ Unique(od) => Unique(Entries(od, S))
    <1> DEFINE C == Cardinality(S)
               Upto(i) == {j \in S : j <= i}
               count == [i \in S |-> Cardinality(Upto(i))]
               nth == [n \in 1..C |-> CHOOSE i \in S : Cardinality(Upto(i)) = n]
    <1>1. Len(od) \in Nat /\ DOMAIN od = 1..Len(od)
        OBVIOUS
    <1>2. IsFiniteSet(S) /\ C \in Nat /\ C <= Len(od) /\ (C = Len(od) => S = DOMAIN od)
        <2>1. PICK L : L = Len(od)
            OBVIOUS
        <2>2. L \in Nat /\ DOMAIN od = 1..L
            BY <1>1, <2>1
        <2>3. IsFiniteSet(1..L) /\ Cardinality(1..L) = L
            BY <2>2, FromOne
        <2>4. S \in SUBSET (1..L)
            BY <2>2
        <2>5. Cardinality(S) \in Nat /\ IsFiniteSet(S) /\ C <= L /\ (C = L => S = 1..L)
            BY <2>3, <2>4, FS_Subset, FS_CardinalityType
        <2> QED BY <2>1, <2>2, <2>5
    <1>3. \A i \in S : i \in Nat
        BY <1>1
    <1>4. \A i \in S : Upto(i) \in SUBSET S /\ i \in Upto(i)
        BY <1>3
    <1>5. \A i \in S : /\ IsFiniteSet(Upto(i)) /\ Cardinality(Upto(i)) \in 1..C
        <2> TAKE i \in S
        <2>1. IsFiniteSet(Upto(i)) /\ Cardinality(Upto(i)) \in Nat /\ Cardinality(Upto(i)) <= C
            BY <1>2, <1>4, FS_Subset, FS_CardinalityType
        <2>2. Cardinality(Upto(i)) # 0
            BY <1>4, <2>1, FS_EmptySet
        <2> QED BY <1>2, <2>1, <2>2
    <1>6. ASSUME NEW i \in S, NEW k \in S, i < k
          PROVE  Cardinality(Upto(i)) # Cardinality(Upto(k))
        <2>1. Upto(i) \in SUBSET Upto(k)
            BY <1>3, <1>6
        <2>2. k \in Upto(k) /\ k \notin Upto(i)
            BY <1>3, <1>6
        <2>3. IsFiniteSet(Upto(k))
            BY <1>5
        <2> HIDE DEF Upto
        <2>4. Cardinality(Upto(k)) = Cardinality(Upto(i)) => Upto(k) = Upto(i)
            BY <2>1, <2>3, FS_Subset
        <2> QED BY <2>2, <2>4
    <1>7. \A i, k \in S : Cardinality(Upto(i)) = Cardinality(Upto(k)) => i = k
        <2> SUFFICES ASSUME NEW i \in S, NEW k \in S, Cardinality(Upto(i)) = Cardinality(Upto(k)), i # k
                     PROVE  FALSE
            OBVIOUS
        <2>1. i < k \/ k < i
            BY <1>3
        <2> HIDE DEF Upto
        <2> QED BY <1>6, <2>1
    <1> HIDE DEF Upto
    <1>8. count \in [S -> 1..C] /\ \A i, k \in S : count[i] = count[k] => i = k
        BY <1>5, <1>7
    <1>9. \A n \in 1..C : \E i \in S : Cardinality(Upto(i)) = n
        <2>1. count \in Injection(S, 1..C)
            <3> HIDE DEF count
            <3> DOMAIN count = S
                BY <1>8
            <3> QED BY <1>8 DEF Injection, IsInjective
        <2>2. IsFiniteSet(1..C) /\ Cardinality(1..C) = C
            BY <1>2, FromOne
        <2>3. count \in Surjection(S, 1..C)
            <3> HIDE DEF count
            <3> QED BY <2>1, <2>2, FS_Injection
        <2>4. \A n \in 1..C : \E i \in S : count[i] = n
            <3> HIDE DEF count
            <3> QED BY <2>3 DEF Surjection
        <2> QED BY <2>4
    <1>10. nth \in [1..C -> S] /\ \A n \in 1..C : Cardinality(Upto(nth[n])) = n
        <2>1. \A n \in 1..C : nth[n] \in S /\ Cardinality(Upto(nth[n])) = n
            BY <1>9
        <2> QED BY <2>1
    <1>11. Entries(od, S) = [n \in 1..C |-> od[nth[n]]]
        BY DEF Entries, Upto
    <1> HIDE DEF nth
    <1>12. \A i \in S : nth[Cardinality(Upto(i))] = i
        BY <1>5, <1>7, <1>10
    <1> DEFINE new == Entries(od, S)
    <1>13. /\ DOMAIN new = 1..C
           /\ \A n \in 1..C : new[n] = od[nth[n]] /\ nth[n] \in S
        BY <1>10, <1>11
    <1>14. new \in Seq(T) /\ Len(new) = C
        <2>1. \A n \in 1..C : new[n] \in T
            BY <1>13
        <2>2. new = [n \in 1..C |-> new[n]]
            BY <1>11
        <2>3. new \in [1..C -> T]
            <3> HIDE DEF new
            <3> QED BY <2>1, <2>2
        <2> HIDE DEF new
        <2> QED BY <1>2, <2>3
    <1> HIDE DEF new
    <1>15. ItemsOf(new) = {od[i] : i \in S}
        <2>1. ASSUME NEW i \in S
              PROVE  \E n \in 1..C : new[n] = od[i]
            BY <1>5, <1>12, <1>13
        <2> QED BY <2>1, <1>13 DEF ItemsOf
    <1>16. Unique(od) => Unique(new)
        <2> SUFFICES ASSUME Unique(od), NEW m \in 1..C, NEW n \in 1..C, new[m].key = new[n].key
                     PROVE  m = n
            BY <1>13 DEF Unique
        <2>1. nth[m] = nth[n]
            BY <1>13 DEF Unique
        <2> QED BY <1>10, <2>1
    <1> QED BY <1>2, <1>14, <1>15, <1>16 DEF new

\* Appending an item.
LEMMA AppendFacts ==
    ASSUME NEW T, NEW s \in Seq(T), NEW x \in T
    PROVE  /\ Append(s, x) \in Seq(T)
           /\ Len(Append(s, x)) = Len(s) + 1
           /\ DOMAIN Append(s, x) = 1..(Len(s) + 1)
           /\ Append(s, x)[Len(s) + 1] = x
           /\ \A n \in 1..Len(s) : Append(s, x)[n] = s[n]
    OBVIOUS

\* What a key is mapped to.
LEMMA ValueAtFacts ==
    ASSUME NEW od, NEW k
    PROVE  /\ HasKey(od, k) => \E x \in ItemsOf(od) : x.key = k /\ x.value = ValueAt(od, k)
           /\ ~HasKey(od, k) => \A x \in ItemsOf(od) : x.key # k
    <1>1. HasKey(od, k) => \E i \in DOMAIN od : od[i].key = k /\ od[i].value = ValueAt(od, k)
        BY DEF HasKey, ValueAt
    <1> QED BY <1>1 DEF HasKey, ItemsOf

\* PutLast replaces the entry of the key.
LEMMA PutLastFacts ==
    ASSUME NEW T, NEW od \in Seq(T), Unique(od), NEW k, NEW v, NEW stamp,
           [key |-> k, value |-> v, stamp |-> stamp] \in T
    PROVE  LET new == PutLast(od, k, v, stamp)
           IN  /\ new \in Seq(T)
               /\ Unique(new)
               /\ ItemsOf(new) = {x \in ItemsOf(od) : x.key # k}
                                    \cup {[key |-> k, value |-> v, stamp |-> stamp]}
               /\ HasKey(od, k) => Len(new) <= Len(od)
    <1> DEFINE S == {i \in DOMAIN od : od[i].key # k}
    <1>1. PICK rest : rest = Entries(od, S)
        OBVIOUS
    <1>2. /\ rest \in Seq(T) /\ Len(rest) = Cardinality(S) /\ Len(rest) \in Nat
          /\ Len(rest) <= Len(od) /\ (Len(rest) = Len(od) => S = DOMAIN od)
          /\ ItemsOf(rest) = {od[i] : i \in S} /\ Unique(rest)
        <2>1. S \in SUBSET DOMAIN od
            OBVIOUS
        <2> HIDE DEF S
        <2> QED BY <1>1, <2>1, EntriesFacts
    <1>3. \A n \in DOMAIN rest : rest[n].key # k
        BY <1>2 DEF ItemsOf
    <1>4. PICK it : it = [key |-> k, value |-> v, stamp |-> stamp]
        OBVIOUS
    <1>5. PICK new : new = Append(rest, it)
        OBVIOUS
    <1>6. it.key = k /\ it \in T
        BY <1>4
    <1>7. PICK L : L = Len(rest)
        OBVIOUS
    <1>8. L \in Nat /\ DOMAIN rest = 1..L
        BY <1>2, <1>7
    <1>9. /\ new \in Seq(T) /\ Len(new) = L + 1 /\ DOMAIN new = 1..(L + 1)
          /\ new[L + 1] = it
          /\ \A n \in 1..L : new[n] = rest[n]
        <2>1. it \in T
            BY <1>6
        <2>2. rest \in Seq(T)
            BY <1>2
        <2>3. /\ Append(rest, it) \in Seq(T) /\ Len(Append(rest, it)) = Len(rest) + 1
              /\ DOMAIN Append(rest, it) = 1..(Len(rest) + 1)
              /\ Append(rest, it)[Len(rest) + 1] = it
              /\ \A n \in 1..Len(rest) : Append(rest, it)[n] = rest[n]
            BY <2>1, <2>2, AppendFacts
        <2> QED BY <1>5, <1>7, <2>3
    <1>10. Unique(new)
        <2> SUFFICES ASSUME NEW m \in 1..(L + 1), NEW n \in 1..(L + 1), new[m].key = new[n].key
                     PROVE  m = n
            BY <1>9 DEF Unique
        <2>1. CASE m \in 1..L /\ n \in 1..L
            BY <1>2, <1>8, <1>9, <2>1 DEF Unique
        <2>2. CASE m \in 1..L /\ n = L + 1
            BY <1>3, <1>6, <1>8, <1>9, <2>2
        <2>3. CASE m = L + 1 /\ n \in 1..L
            BY <1>3, <1>6, <1>8, <1>9, <2>3
        <2> QED BY <1>8, <2>1, <2>2, <2>3
    <1>11. ItemsOf(new) = ItemsOf(rest) \cup {it}
        <2>1. 1..(L + 1) = 1..L \cup {L + 1}
            BY <1>8
        <2> QED BY <1>8, <1>9, <2>1 DEF ItemsOf
    <1>12. ItemsOf(rest) = {x \in ItemsOf(od) : x.key # k}
        BY <1>2 DEF ItemsOf
    <1>13. HasKey(od, k) => Len(new) <= Len(od)
        <2>1. HasKey(od, k) => S # DOMAIN od
            BY DEF HasKey
        <2>2. Len(od) \in Nat
            OBVIOUS
        <2> QED BY <1>2, <1>7, <1>9, <2>1, <2>2
    <1>14. new = PutLast(od, k, v, stamp)
        BY <1>1, <1>4, <1>5 DEF PutLast
    <1> QED BY <1>4, <1>9, <1>10, <1>11, <1>12, <1>13, <1>14

\* A sweep drops what is older than the cutoff, and nothing else.
LEMMA AccessedFacts ==
    ASSUME NEW T, NEW store, store.od \in Seq(T), Unique(store.od), store.count \in Nat,
           NEW ttl, NEW now
    PROVE  LET a == Accessed(store, ttl, now)
           IN  /\ a.count \in 0..(SweepEvery - 1)
               /\ a.od \in Seq(T)
               /\ Unique(a.od)
               /\ Len(a.od) <= Len(store.od)
               /\ ItemsOf(a.od) \subseteq ItemsOf(store.od)
               /\ \A x \in ItemsOf(store.od) :
                     x \notin ItemsOf(a.od) => ttl # 0 /\ ~(x.stamp >= now - ttl)
    <1> DEFINE count == (store.count + 1) % SweepEvery
               od    == store.od
               S     == {i \in DOMAIN od : od[i].stamp >= now - ttl}
    <1>1. count \in 0..(SweepEvery - 1)
        BY RateLimiterAssumption, SMTT(60)
    <1>2. Len(od) \in Nat
        OBVIOUS
    <1>3. /\ Entries(od, S) \in Seq(T) /\ Unique(Entries(od, S))
          /\ Len(Entries(od, S)) <= Len(od)
          /\ ItemsOf(Entries(od, S)) = {od[i] : i \in S}
        <2>1. S \in SUBSET DOMAIN od
            OBVIOUS
        <2> HIDE DEF S
        <2> QED BY <2>1, EntriesFacts
    <1>4. \A x \in ItemsOf(od) : x \notin ItemsOf(Entries(od, S)) => ~(x.stamp >= now - ttl)
        BY <1>3 DEF ItemsOf
    <1>5. ItemsOf(Entries(od, S)) \subseteq ItemsOf(od)
        BY <1>3 DEF ItemsOf
    <1>6. SweepExpired(od, ttl, now) = IF ttl = 0 THEN od ELSE Entries(od, S)
        BY DEF SweepExpired
    <1>7. Accessed(store, ttl, now).count = count
        BY DEF Accessed
    <1>8. Accessed(store, ttl, now).od = IF count = 0 THEN SweepExpired(od, ttl, now) ELSE od
        BY DEF Accessed
    <1> HIDE DEF S, count
    <1>9. CASE count = 0 /\ ttl # 0
        BY <1>1, <1>3, <1>4, <1>5, <1>6, <1>7, <1>8, <1>9
    <1>10. CASE ~(count = 0 /\ ttl # 0)
        BY <1>1, <1>2, <1>6, <1>7, <1>8, <1>10
    <1> QED BY <1>9, <1>10

\* Eviction meets the cap, and does nothing below it.
LEMMA EvictFacts ==
    ASSUME NEW T, NEW od \in Seq(T), Unique(od), NEW cap \in Nat
    PROVE  LET new == EvictIfOverCap(od, cap)
           IN  /\ new \in Seq(T)
               /\ Unique(new)
               /\ Len(new) <= cap
               /\ ItemsOf(new) \subseteq ItemsOf(od)
               /\ Len(od) <= cap => new = od
    <1>1. CASE Len(od) <= cap
        BY <1>1 DEF EvictIfOverCap
    <1>2. CASE ~(Len(od) <= cap)
        <2>1. PICK L : L = Len(od)
            OBVIOUS
        <2>2. L \in Nat /\ DOMAIN od = 1..L /\ cap < L
            BY <1>2, <2>1
        <2> DEFINE first == L - cap + 1
        <2>3. PICK new : new = SubSeq(od, first, L)
            OBVIOUS
        <2>4. new = [n \in 1..cap |-> od[first + n - 1]]
            <3>1. (1 + L) - first = cap
                BY <2>2
            <3> QED BY <2>2, <2>3, <3>1
        <2>5. \A n \in 1..cap : first + n - 1 \in 1..L
            BY <2>2
        <2>6. /\ DOMAIN new = 1..cap
              /\ \A n \in 1..cap : new[n] = od[first + n - 1]
            BY <2>4
        <2>7. new \in [1..cap -> T]
            <3>1. \A n \in 1..cap : new[n] \in T
                BY <2>1, <2>2, <2>5, <2>6
            <3> QED BY <2>4, <3>1
        <2>8. new \in Seq(T) /\ Len(new) = cap
            BY <2>6, <2>7
        <2>9. Unique(new)
            <3> SUFFICES ASSUME NEW m \in 1..cap, NEW n \in 1..cap, new[m].key = new[n].key
                         PROVE  m = n
                BY <2>6 DEF Unique
            <3>1. first + m - 1 = first + n - 1
                BY <2>2, <2>5, <2>6, SMTT(60) DEF Unique
            <3> QED BY <2>2, <3>1
        <2>10. ItemsOf(new) \subseteq ItemsOf(od)
            BY <2>2, <2>5, <2>6 DEF ItemsOf
        <2>11. new = EvictIfOverCap(od, cap)
            BY <1>2, <2>1, <2>3 DEF EvictIfOverCap
        <2> QED BY <1>2, <2>8, <2>9, <2>10, <2>11
    <1> QED BY <1>1, <1>2

\* One entry per key: no more entries than keys.
LEMMA NoMoreThanKeys ==
    ASSUME NEW T, NEW od \in Seq(T), Unique(od), NEW K, IsFiniteSet(K),
           \A x \in ItemsOf(od) : x.key \in K
    PROVE  Len(od) <= Cardinality(K)
    <1>1. PICK L : L = Len(od)
        OBVIOUS
    <1>2. L \in Nat /\ DOMAIN od = 1..L
        BY <1>1
    <1> DEFINE f == [n \in 1..L |-> od[n].key]
    <1>3. f \in Injection(1..L, K)
        <2>1. f \in [1..L -> K]
            BY <1>2 DEF ItemsOf
        <2>2. \A m, n \in 1..L : f[m] = f[n] => m = n
            BY <1>2 DEF Unique
        <2>3. DOMAIN f = 1..L
            OBVIOUS
        <2> HIDE DEF f
        <2> QED BY <2>1, <2>2, <2>3 DEF Injection, IsInjective
    <1>4. IsFiniteSet(1..L) /\ Cardinality(1..L) = L
        BY <1>2, FromOne
    <1>5. Cardinality(1..L) <= Cardinality(K)
        <2> HIDE DEF f
        <2> QED BY <1>3, FS_Injection
    <1> QED BY <1>1, <1>4, <1>5


\* An access to a store that writes an entry: what the store then holds.
LEMMA StoreWritten ==
    ASSUME NEW T, NEW store, store.od \in Seq(T), Unique(store.od), store.count \in Nat,
           NEW ttl, NEW now, NEW k, NEW v, NEW stamp, NEW cap \in Nat,
           [key |-> k, value |-> v, stamp |-> stamp] \in T
    PROVE  LET it  == [key |-> k, value |-> v, stamp |-> stamp]
               new == EvictIfOverCap(PutLast(Accessed(store, ttl, now).od, k, v, stamp), cap)
           IN  /\ new \in Seq(T)
               /\ Unique(new)
               /\ Len(new) <= cap
               /\ ItemsOf(new) \subseteq {x \in ItemsOf(store.od) : x.key # k} \cup {it}
    <1>1. PICK od : od = Accessed(store, ttl, now).od
        OBVIOUS
    <1>2. od \in Seq(T) /\ Unique(od) /\ ItemsOf(od) \subseteq ItemsOf(store.od)
        BY <1>1, AccessedFacts
    <1>3. PICK put : put = PutLast(od, k, v, stamp)
        OBVIOUS
    <1>4. /\ put \in Seq(T) /\ Unique(put)
          /\ ItemsOf(put) = {x \in ItemsOf(od) : x.key # k}
                              \cup {[key |-> k, value |-> v, stamp |-> stamp]}
        BY <1>2, <1>3, PutLastFacts
    <1>5. PICK new : new = EvictIfOverCap(put, cap)
        OBVIOUS
    <1>6. new \in Seq(T) /\ Unique(new) /\ Len(new) <= cap /\ ItemsOf(new) \subseteq ItemsOf(put)
        BY <1>4, <1>5, EvictFacts
    <1>7. \A x \in ItemsOf(new) : \/ x = [key |-> k, value |-> v, stamp |-> stamp]
                                  \/ (x \in ItemsOf(store.od) /\ x.key # k)
        <2> TAKE x \in ItemsOf(new)
        <2>1. x \in ItemsOf(put)
            BY <1>6
        <2>2. \/ x = [key |-> k, value |-> v, stamp |-> stamp]
              \/ (x \in ItemsOf(od) /\ x.key # k)
            BY <1>4, <2>1
        <2>3. x \in ItemsOf(od) => x \in ItemsOf(store.od)
            BY <1>2
        <2> QED BY <2>2, <2>3
    <1> QED BY <1>1, <1>3, <1>5, <1>6, <1>7

\* ... and that only a sweep drops another key's entry, if the store has room
\* for all keys.
LEMMA StoreKept ==
    ASSUME NEW T, NEW store, store.od \in Seq(T), Unique(store.od), store.count \in Nat,
           NEW ttl, NEW now, NEW k, NEW v, NEW stamp, NEW cap \in Nat,
           [key |-> k, value |-> v, stamp |-> stamp] \in T,
           NEW K, IsFiniteSet(K), Cardinality(K) <= cap, k \in K,
           \A x \in ItemsOf(store.od) : x.key \in K
    PROVE  LET it  == [key |-> k, value |-> v, stamp |-> stamp]
               new == EvictIfOverCap(PutLast(Accessed(store, ttl, now).od, k, v, stamp), cap)
           IN  /\ it \in ItemsOf(new)
               /\ \A x \in ItemsOf(store.od) :
                     x.key # k /\ x \notin ItemsOf(new) => ttl # 0 /\ ~(x.stamp >= now - ttl)
    <1>1. PICK od : od = Accessed(store, ttl, now).od
        OBVIOUS
    <1>2. /\ od \in Seq(T) /\ Unique(od) /\ ItemsOf(od) \subseteq ItemsOf(store.od)
          /\ \A x \in ItemsOf(store.od) : x \notin ItemsOf(od) => ttl # 0 /\ ~(x.stamp >= now - ttl)
        BY <1>1, AccessedFacts
    <1>3. PICK put : put = PutLast(od, k, v, stamp)
        OBVIOUS
    <1>4. /\ put \in Seq(T) /\ Unique(put)
          /\ ItemsOf(put) = {x \in ItemsOf(od) : x.key # k}
                              \cup {[key |-> k, value |-> v, stamp |-> stamp]}
        BY <1>2, <1>3, PutLastFacts
    <1>5. \A x \in ItemsOf(put) : x.key \in K
        BY <1>2, <1>4
    <1>6. Len(put) <= cap
        <2>1. Len(put) <= Cardinality(K)
            BY <1>4, <1>5, NoMoreThanKeys
        <2>2. Len(put) \in Nat /\ Cardinality(K) \in Nat
            BY <1>4, FS_CardinalityType
        <2> QED BY <2>1, <2>2
    <1>7. PICK new : new = EvictIfOverCap(put, cap)
        OBVIOUS
    <1>8. new = put
        BY <1>4, <1>6, <1>7, EvictFacts
    <1> QED BY <1>1, <1>2, <1>3, <1>4, <1>7, <1>8

---------------------------------------------------------------------------
(***************************************************************************)
(* Token buckets.  That a key was granted no more than a burst and what    *)
(* the rate adds up to is not inductive: it says nothing of what the       *)
(* bucket still holds.  The books balance: what was granted and what is    *)
(* left in the bucket are together no more than the burst and what was     *)
(* refilled up to last_refill.                                             *)
(***************************************************************************)
IsBucket(axis, b, t) == b \in [tokens : 0..Burst[axis], last_refill : 0..t]

IsEntry(e) == e.since \in Nat /\ e.granted \in Nat

\* The bucket b of a key agrees with its entry e in the history.
Balanced(axis, b, e) ==
    e.granted * Cost + b.tokens <= Burst[axis] + Rate[axis] * (b.last_refill - e.since)

\* What is left to say of a key whose bucket the sweep dropped: a fresh bucket
\* will agree with its entry, from any reading on.
Forgotten(axis, e, t) == e.granted * Cost <= Rate[axis] * (t - ClockSkew - e.since)

\* What a denied call was told holds of the bucket it found.
Promises(b, e) ==
    e.promise # Null =>
        /\ b.last_refill = e.promise.at
        /\ e.promise.deficit \in Nat \ {0}
        /\ b.tokens = Cost - e.promise.deficit

Outcome(e, r, now) ==
    IF r.allowed THEN [since |-> e.since, granted |-> e.granted + 1, promise |-> Null]
    ELSE [since |-> e.since, granted |-> e.granted, promise |-> [at |-> now, deficit |-> r.deficit]]

\* The constants of an axis are naturals.
LEMMA AxisConstants ==
    ASSUME NEW axis \in Axis
    PROVE  /\ Burst[axis] \in Nat /\ Rate[axis] \in Nat /\ Cost \in Nat /\ Cost > 0
           /\ IpStoreCap \in Nat /\ IdleTtl \in Nat /\ ClockSkew \in Nat
    BY RateLimiterAssumption

\* A fresh bucket is full.
LEMMA FreshFacts ==
    ASSUME NEW axis \in Axis, NEW t \in Nat, NEW now \in 0..t
    PROVE  /\ IsBucket(axis, Fresh(axis, now), t)
           /\ Fresh(axis, now).tokens = Burst[axis]
           /\ Fresh(axis, now).last_refill = now
    BY AxisConstants DEF IsBucket, Fresh

\* The parts of a bucket.
LEMMA BucketFacts ==
    ASSUME NEW axis \in Axis, NEW t \in Nat, NEW b, IsBucket(axis, b, t)
    PROVE  /\ b.tokens \in Nat /\ b.tokens <= Burst[axis]
           /\ b.last_refill \in Nat /\ b.last_refill <= t
    BY AxisConstants DEF IsBucket

\* A refilled bucket: full, or richer by what the rate adds up to.
LEMMA RefillFacts ==
    ASSUME NEW axis \in Axis, NEW t \in Nat, NEW now \in 0..t, NEW b, IsBucket(axis, b, t)
    PROVE  LET f == Refill(axis, b, now)
               gain == Rate[axis] * (now - b.last_refill)
           IN  /\ IsBucket(axis, f, t)
               /\ now <= b.last_refill => f = b
               /\ b.last_refill <= now =>
                     /\ f.last_refill = now
                     /\ f.tokens = Burst[axis] \/ f.tokens = b.tokens + gain
                     /\ f.tokens <= b.tokens + gain
                     /\ gain \in Nat
    <1> DEFINE gap  == now - b.last_refill
               gain == Rate[axis] * gap
               left == IF b.tokens + gap * Rate[axis] > Burst[axis] THEN Burst[axis]
                       ELSE b.tokens + gap * Rate[axis]
    <1>1. /\ b.tokens \in Nat /\ b.tokens <= Burst[axis]
          /\ b.last_refill \in Nat /\ b.last_refill <= t
        BY BucketFacts
    <1>2. Burst[axis] \in Nat /\ Rate[axis] \in Nat
        BY AxisConstants
    <1>3. CASE now < b.last_refill
        BY <1>1, <1>3 DEF Refill
    <1>4. CASE now = b.last_refill
        <2>1. Refill(axis, b, now) = b
            BY <1>1, <1>4 DEF Refill
        <2>2. gain = 0
            <3>1. gap = 0
                BY <1>1, <1>4
            <3> QED BY <1>2, <3>1
        <2> HIDE DEF gain
        <2> QED BY <1>1, <1>4, <2>1, <2>2 DEF gain
    <1>5. CASE now > b.last_refill
        <2>1. Refill(axis, b, now) = [tokens |-> left, last_refill |-> now]
            BY <1>1, <1>5 DEF Refill
        <2>2. gap \in Nat
            BY <1>1, <1>5
        <2>3. gain \in Nat /\ gap * Rate[axis] = gain
            <3> HIDE DEF gap
            <3> QED BY <1>2, <2>2, ProductNat
        <2>4. left \in 0..Burst[axis] /\ left <= b.tokens + gain
              /\ (left = Burst[axis] \/ left = b.tokens + gain)
            <3> HIDE DEF gap, gain
            <3> QED BY <1>1, <1>2, <2>3
        <2> HIDE DEF left, gain
        <2>5. IsBucket(axis, [tokens |-> left, last_refill |-> now], t)
            BY <2>4 DEF IsBucket
        <2> QED BY <1>1, <1>5, <2>1, <2>3, <2>4, <2>5 DEF gain
    <1> QED BY <1>1, <1>3, <1>4, <1>5

\* Refilling keeps the books balanced, whether the reading went forward or back.
LEMMA RefillBalanced ==
    ASSUME NEW axis \in Axis, NEW t \in Nat, NEW now \in 0..t, NEW b, IsBucket(axis, b, t),
           NEW e, IsEntry(e), Balanced(axis, b, e)
    PROVE  Balanced(axis, Refill(axis, b, now), e)
    <1>1. PICK f : f = Refill(axis, b, now)
        OBVIOUS
    <1>2. PICK gain : gain = Rate[axis] * (now - b.last_refill)
        OBVIOUS
    <1>3. b.last_refill \in Nat /\ b.tokens \in Nat /\ e.since \in Nat
        BY BucketFacts DEF IsEntry
    <1>4. CASE now <= b.last_refill
        BY <1>4, RefillFacts
    <1>5. CASE ~(now <= b.last_refill)
        <2>1. IsBucket(axis, f, t) /\ f.last_refill = now /\ f.tokens <= b.tokens + gain /\ gain \in Nat
            BY <1>1, <1>2, <1>3, <1>5, RefillFacts
        <2>2. f.tokens \in Nat
            BY <2>1, BucketFacts
        <2>3. PICK before : before = Rate[axis] * (b.last_refill - e.since)
            OBVIOUS
        <2>4. Rate[axis] * (now - e.since) = before + gain /\ before \in Int
            <3>1. now - e.since = (b.last_refill - e.since) + (now - b.last_refill)
                BY <1>3
            <3>2. b.last_refill - e.since \in Int /\ now - b.last_refill \in Int /\ Rate[axis] \in Int
                BY <1>3, AxisConstants
            <3> QED BY <1>2, <2>3, <3>1, <3>2, Distribute
        <2>5. PICK spent : spent = e.granted * Cost
            OBVIOUS
        <2>6. spent \in Nat
            BY <2>5, AxisConstants, ProductNat DEF IsEntry
        <2>7. spent + b.tokens <= Burst[axis] + before
            BY <2>3, <2>5 DEF Balanced
        <2>8. spent + f.tokens <= Burst[axis] + (before + gain)
            <3>1. Burst[axis] \in Nat
                BY AxisConstants
            <3> QED BY <1>3, <2>1, <2>2, <2>4, <2>6, <2>7, <3>1
        <2> QED BY <1>1, <2>1, <2>4, <2>5, <2>8 DEF Balanced
    <1> QED BY <1>4, <1>5

\* A call that is granted takes from the bucket what the history adds; one that
\* is denied leaves both, and is told what the bucket lacked.
LEMMA ConsumeFacts ==
    ASSUME NEW axis \in Axis, NEW t \in Nat, NEW now \in 0..t, NEW b, IsBucket(axis, b, t)
    PROVE  LET f == Refill(axis, b, now)
               r == Consume(axis, b, now)
           IN  /\ IsBucket(axis, r.bucket, t)
               /\ r.allowed <=> f.tokens >= Cost
               /\ r.deficit = Cost - f.tokens
               /\ r.allowed => r.bucket.tokens = f.tokens - Cost /\ r.bucket.last_refill = f.last_refill
               /\ ~r.allowed => r.bucket = f
    <1>1. PICK f : f = Refill(axis, b, now)
        OBVIOUS
    <1>2. IsBucket(axis, f, t) /\ f.tokens \in Nat /\ f.tokens <= Burst[axis]
          /\ f.last_refill \in Nat /\ f.last_refill <= t
        BY <1>1, RefillFacts, BucketFacts
    <1>3. Cost \in Nat /\ Cost > 0 /\ Burst[axis] \in Nat
        BY AxisConstants
    <1>4. PICK r : r = Consume(axis, b, now)
        OBVIOUS
    <1>5. /\ r.allowed <=> f.tokens >= Cost
          /\ r.deficit = Cost - f.tokens
          /\ r.bucket = IF f.tokens >= Cost THEN [tokens |-> f.tokens - Cost, last_refill |-> f.last_refill]
                        ELSE f
        BY <1>1, <1>4 DEF Consume
    <1>6. f.tokens >= Cost =>
             IsBucket(axis, [tokens |-> f.tokens - Cost, last_refill |-> f.last_refill], t)
        BY <1>2, <1>3 DEF IsBucket
    <1>7. /\ IsBucket(axis, r.bucket, t)
          /\ r.allowed => r.bucket.tokens = f.tokens - Cost /\ r.bucket.last_refill = f.last_refill
          /\ ~r.allowed => r.bucket = f
        BY <1>2, <1>5, <1>6
    <1> QED BY <1>1, <1>4, <1>5, <1>7

\* A consultation, granted or denied, keeps the books balanced.
LEMMA ConsumeBalanced ==
    ASSUME NEW axis \in Axis, NEW t \in Nat, NEW now \in 0..t, NEW b, IsBucket(axis, b, t),
           NEW e, IsEntry(e), Balanced(axis, b, e), NEW r, r = Consume(axis, b, now)
    PROVE  IsEntry(Outcome(e, r, now)) /\ Balanced(axis, r.bucket, Outcome(e, r, now))
    <1>1. PICK f : f = Refill(axis, b, now)
        OBVIOUS
    <1>2. IsBucket(axis, f, t) /\ Balanced(axis, f, e)
        BY <1>1, RefillFacts, RefillBalanced
    <1>3. f.tokens \in Nat /\ f.last_refill \in Nat
        BY <1>2, BucketFacts
    <1>4. Cost \in Nat /\ e.granted \in Nat /\ e.since \in Nat
        BY AxisConstants DEF IsEntry
    <1>5. CASE r.allowed
        <2>1. r.bucket.tokens = f.tokens - Cost /\ r.bucket.last_refill = f.last_refill
            BY <1>1, <1>5, ConsumeFacts
        <2>2. (e.granted + 1) * Cost = e.granted * Cost + Cost
            BY <1>4
        <2>3. e.granted * Cost \in Nat
            BY <1>4, ProductNat
        <2>4. (e.granted + 1) * Cost + (f.tokens - Cost) = e.granted * Cost + f.tokens
            BY <1>3, <1>4, <2>2, <2>3
        <2>5. Outcome(e, r, now) = [since |-> e.since, granted |-> e.granted + 1, promise |-> Null]
            BY <1>5 DEF Outcome
        <2> QED BY <1>2, <1>4, <2>1, <2>4, <2>5 DEF Balanced, IsEntry
    <1>6. CASE ~r.allowed
        <2>1. r.bucket = f
            BY <1>1, <1>6, ConsumeFacts
        <2>2. Outcome(e, r, now).since = e.since /\ Outcome(e, r, now).granted = e.granted
            BY <1>6 DEF Outcome
        <2> QED BY <1>2, <1>4, <2>1, <2>2 DEF Balanced, IsEntry
    <1> QED BY <1>5, <1>6

---------------------------------------------------------------------------
(***************************************************************************)
(* What an axis keeps, and what a consultation does to it.                 *)
(***************************************************************************)
Item == [key : Ip, value : [tokens : Nat, last_refill : Nat], stamp : Nat]

SessionShape(s, t) ==
    /\ s \in [DOMAIN s -> [tokens : 0..Burst["session"], last_refill : 0..t]]
    /\ DOMAIN s \subseteq Session

StoreShape(axis, store, t) ==
    /\ store.od \in Seq(Item) /\ Unique(store.od) /\ Len(store.od) <= IpStoreCap
    /\ store.count \in 0..(SweepEvery - 1)
    /\ \A x \in ItemsOf(store.od) : IsBucket(axis, x.value, t) /\ x.stamp = x.value.last_refill

View(lim, axis) == IF axis = "session" THEN lim.session ELSE lim.store[axis]
Shape(axis, v, t) == IF axis = "session" THEN SessionShape(v, t) ELSE StoreShape(axis, v, t)

\* The bucket b is kept for the key k.
Holds(axis, v, k, b) ==
    IF axis = "session" THEN k \in DOMAIN v /\ b = v[k]
    ELSE \E x \in ItemsOf(v.od) : x.key = k /\ x.value = b

\* A sweep at now may drop the bucket b.
Stale(axis, b, now) == axis # "session" /\ b.last_refill < now - IdleTtl

\* No bucket of the keys K need be evicted.
RoomFor(axis, K) == axis # "session" => IsFiniteSet(K) /\ Cardinality(K) <= IpStoreCap

\* A consultation for key that finds the bucket b0, or starts with it, turns
\* what the axis keeps from v into w.
Effect(axis, v, w, key, b0, now, t) ==
    LET b1 == Consume(axis, b0, now).bucket
    IN  /\ IsBucket(axis, b0, t)
        /\ \/ Holds(axis, v, key, b0)
           \/ b0 = Fresh(axis, now) /\ \A b : Holds(axis, v, key, b) => Stale(axis, b, now)
        /\ \A k, b : Holds(axis, w, k, b) =>
              IF k = key THEN b = b1 ELSE Holds(axis, v, k, b)
        /\ \A K : RoomFor(axis, K) /\ key \in K /\ (\A k, b : Holds(axis, v, k, b) => k \in K) =>
              /\ Holds(axis, w, key, b1)
              /\ \A k, b : k # key /\ Holds(axis, v, k, b) =>
                    Holds(axis, w, k, b) \/ Stale(axis, b, now)

\* A bucket is a member of the record set that items draw their values from.
LEMMA BucketTyped ==
    ASSUME NEW axis \in Axis, NEW t \in Nat, NEW b, IsBucket(axis, b, t)
    PROVE  b \in [tokens : Nat, last_refill : Nat]
    <1>1. Burst[axis] \in Nat
        BY AxisConstants
    <1> QED BY <1>1 DEF IsBucket

\* try_consume on the plain dict of the sessions.
LEMMA SessionEffect ==
    ASSUME NEW lim, NEW t \in Nat, SessionShape(lim.session, t), NEW key \in Session,
           NEW now \in 0..t
    PROVE  LET r == TryConsumeSession(lim, key, now)
           IN  /\ r.lim.store = lim.store
               /\ SessionShape(r.lim.session, t)
               /\ \E b0 : /\ r.allowed = Consume("session", b0, now).allowed
                          /\ r.deficit = Consume("session", b0, now).deficit
                          /\ Effect("session", lim.session, r.lim.session, key, b0, now, t)
    <1> DEFINE R == [tokens : 0..Burst["session"], last_refill : 0..t]
    <1>1. "session" \in Axis
        BY DEF Axis
    <1>2. PICK s : s = lim.session
        OBVIOUS
    <1>3. DOMAIN s \subseteq Session /\ s \in [DOMAIN s -> R]
        BY <1>2 DEF SessionShape
    <1> HIDE DEF R
    <1>4. PICK b0 : b0 = IF key \in DOMAIN s THEN s[key] ELSE Fresh("session", now)
        OBVIOUS
    <1>5. IsBucket("session", b0, t)
        <2>1. key \in DOMAIN s => s[key] \in R
            BY <1>3
        <2>2. IsBucket("session", Fresh("session", now), t)
            BY <1>1, FreshFacts
        <2> QED BY <1>4, <2>1, <2>2 DEF IsBucket, R
    <1>6. PICK c : c = Consume("session", b0, now)
        OBVIOUS
    <1>7. c.bucket \in R
        BY <1>1, <1>5, <1>6, ConsumeFacts DEF IsBucket, R
    <1>8. PICK w : w = With(s, key, c.bucket)
        OBVIOUS
    <1>9. PICK r : r = TryConsumeSession(lim, key, now)
        OBVIOUS
    <1>10. /\ r.lim.session = w /\ r.lim.store = lim.store
           /\ r.allowed = c.allowed /\ r.deficit = c.deficit
        BY <1>2, <1>4, <1>6, <1>8, <1>9 DEF TryConsumeSession
    <1>11. /\ DOMAIN w = DOMAIN s \cup {key}
           /\ w[key] = c.bucket
           /\ \A x \in DOMAIN s : x # key => w[x] = s[x]
           /\ w \in [DOMAIN w -> R]
        <2>1. w = [x \in DOMAIN s \cup {key} |-> IF x = key THEN c.bucket ELSE s[x]]
            BY <1>8 DEF With
        <2>2. \A x \in DOMAIN s \cup {key} : (IF x = key THEN c.bucket ELSE s[x]) \in R
            BY <1>3, <1>7
        <2> QED BY <2>1, <2>2
    <1>12. SessionShape(w, t)
        BY <1>3, <1>11 DEF SessionShape, R
    <1>13. Effect("session", s, w, key, b0, now, t)
        <2>1. \/ Holds("session", s, key, b0)
              \/ b0 = Fresh("session", now)
                 /\ \A b : Holds("session", s, key, b) => Stale("session", b, now)
            BY <1>4 DEF Holds
        <2>2. \A k, b : Holds("session", w, k, b) =>
                 IF k = key THEN b = c.bucket ELSE Holds("session", s, k, b)
            BY <1>11 DEF Holds
        <2>3. /\ Holds("session", w, key, c.bucket)
              /\ \A k, b : k # key /\ Holds("session", s, k, b) => Holds("session", w, k, b)
            BY <1>11 DEF Holds
        <2> QED BY <1>5, <1>6, <2>1, <2>2, <2>3 DEF Effect
    <1> QED BY <1>2, <1>6, <1>9, <1>10, <1>12, <1>13

\* try_consume on an LRU store.
LEMMA IpEffect ==
    ASSUME NEW axis \in IpAxis, NEW lim, DOMAIN lim.store = IpAxis,
           NEW t \in Nat, StoreShape(axis, lim.store[axis], t), NEW key \in Ip, NEW now \in 0..t
    PROVE  LET r == TryConsumeIp(lim, axis, key, now)
           IN  /\ r.lim.session = lim.session
               /\ DOMAIN r.lim.store = IpAxis
               /\ \A other \in IpAxis : other # axis => r.lim.store[other] = lim.store[other]
               /\ StoreShape(axis, r.lim.store[axis], t)
               /\ \E b0 : /\ r.allowed = Consume(axis, b0, now).allowed
                          /\ r.deficit = Consume(axis, b0, now).deficit
                          /\ Effect(axis, lim.store[axis], r.lim.store[axis], key, b0, now, t)
    <1>1. axis \in Axis /\ axis # "session"
        BY DEF Axis, IpAxis
    <1>2. PICK v : v = lim.store[axis]
        OBVIOUS
    <1>3. /\ v.od \in Seq(Item) /\ Unique(v.od) /\ Len(v.od) <= IpStoreCap
          /\ v.count \in 0..(SweepEvery - 1)
          /\ \A x \in ItemsOf(v.od) : IsBucket(axis, x.value, t) /\ x.stamp = x.value.last_refill
        BY <1>2 DEF StoreShape
    <1>4. v.count \in Nat /\ IpStoreCap \in Nat /\ IdleTtl \in Nat
        BY <1>1, <1>3, AxisConstants, RateLimiterAssumption
    <1>5. PICK a : a = Accessed(v, IdleTtl, now)
        OBVIOUS
    <1>6. /\ a.count \in 0..(SweepEvery - 1) /\ a.od \in Seq(Item) /\ Unique(a.od)
          /\ ItemsOf(a.od) \subseteq ItemsOf(v.od)
          /\ \A x \in ItemsOf(v.od) : x \notin ItemsOf(a.od) => ~(x.stamp >= now - IdleTtl)
        BY <1>3, <1>4, <1>5, AccessedFacts
    <1>7. PICK b0 : b0 = IF HasKey(a.od, key) THEN ValueAt(a.od, key) ELSE Fresh(axis, now)
        OBVIOUS
    <1>8. /\ HasKey(a.od, key) => \E x \in ItemsOf(a.od) : x.key = key /\ x.value = b0
          /\ ~HasKey(a.od, key) => \A x \in ItemsOf(a.od) : x.key # key
        BY <1>7, ValueAtFacts
    <1>9. IsBucket(axis, b0, t)
        <2>1. CASE HasKey(a.od, key)
            BY <1>3, <1>6, <1>8, <2>1
        <2>2. CASE ~HasKey(a.od, key)
            BY <1>1, <1>7, <2>2, FreshFacts
        <2> QED BY <2>1, <2>2
    <1>10. PICK c : c = Consume(axis, b0, now)
        OBVIOUS
    <1>11. IsBucket(axis, c.bucket, t)
        BY <1>1, <1>9, <1>10, ConsumeFacts
    <1>12. PICK it : it = [key |-> key, value |-> c.bucket, stamp |-> c.bucket.last_refill]
        OBVIOUS
    <1>13. it \in Item
        <2>1. c.bucket \in [tokens : Nat, last_refill : Nat]
            BY <1>1, <1>11, BucketTyped
        <2>2. c.bucket.last_refill \in Nat
            BY <1>1, <1>11, BucketFacts
        <2> QED BY <1>12, <2>1, <2>2 DEF Item
    <1>14. PICK od : od = EvictIfOverCap(PutLast(a.od, key, c.bucket, c.bucket.last_refill), IpStoreCap)
        OBVIOUS
    <1>15. /\ od \in Seq(Item) /\ Unique(od) /\ Len(od) <= IpStoreCap
           /\ \A x \in ItemsOf(od) : x = it \/ (x \in ItemsOf(v.od) /\ x.key # key)
        <2>1. [key |-> key, value |-> c.bucket, stamp |-> c.bucket.last_refill] \in Item
            BY <1>12, <1>13
        <2>2. v.od \in Seq(Item) /\ Unique(v.od)
            BY <1>3
        <2>3. od \in Seq(Item) /\ Unique(od)
            BY <1>4, <1>5, <1>14, <2>1, <2>2, StoreWritten
        <2>4. Len(od) <= IpStoreCap
            BY <1>4, <1>5, <1>14, <2>1, <2>2, StoreWritten
        <2>5. ItemsOf(od) \subseteq {x \in ItemsOf(v.od) : x.key # key}
                 \cup {[key |-> key, value |-> c.bucket, stamp |-> c.bucket.last_refill]}
            BY <1>4, <1>5, <1>14, <2>1, <2>2, StoreWritten, ZenonT(60)
        <2> QED BY <1>12, <2>3, <2>4, <2>5
    <1>16. ASSUME NEW K, IsFiniteSet(K), Cardinality(K) <= IpStoreCap, key \in K,
                  \A x \in ItemsOf(v.od) : x.key \in K
           PROVE  /\ it \in ItemsOf(od)
                  /\ \A x \in ItemsOf(v.od) :
                        x.key # key /\ x \notin ItemsOf(od) => ~(x.stamp >= now - IdleTtl)
        BY <1>3, <1>4, <1>5, <1>12, <1>13, <1>14, <1>16, StoreKept
    <1>17. it.key = key /\ it.value = c.bucket /\ it.stamp = c.bucket.last_refill
        BY <1>12
    <1>18. PICK w : w = [od |-> od, count |-> a.count]
        OBVIOUS
    <1>19. w.od = od /\ w.count = a.count
        BY <1>18
    <1>20. StoreShape(axis, w, t)
        BY <1>3, <1>6, <1>11, <1>15, <1>17, <1>19 DEF StoreShape
    <1>21. \A x \in ItemsOf(v.od) : ~(x.stamp >= now - IdleTtl) => Stale(axis, x.value, now)
        <2> TAKE x \in ItemsOf(v.od)
        <2>1. x.value.last_refill \in Nat /\ x.stamp = x.value.last_refill
            BY <1>1, <1>3, BucketFacts
        <2> QED BY <1>1, <1>4, <2>1 DEF Stale
    <1>22. Effect(axis, v, w, key, b0, now, t)
        <2>1. \A k, b : Holds(axis, v, k, b) <=> \E x \in ItemsOf(v.od) : x.key = k /\ x.value = b
            BY <1>1 DEF Holds
        <2>2. \A k, b : Holds(axis, w, k, b) <=> \E x \in ItemsOf(od) : x.key = k /\ x.value = b
            BY <1>1, <1>19 DEF Holds
        <2>3. \/ Holds(axis, v, key, b0)
              \/ b0 = Fresh(axis, now) /\ \A b : Holds(axis, v, key, b) => Stale(axis, b, now)
            <3>1. CASE HasKey(a.od, key)
                BY <1>6, <1>8, <2>1, <3>1
            <3>2. CASE ~HasKey(a.od, key)
                BY <1>6, <1>7, <1>8, <1>21, <2>1, <3>2
            <3> QED BY <3>1, <3>2
        <2>4. \A k, b : Holds(axis, w, k, b) =>
                 IF k = key THEN b = c.bucket ELSE Holds(axis, v, k, b)
            BY <1>15, <1>17, <2>1, <2>2
        <2>5. ASSUME NEW K, RoomFor(axis, K), key \in K, \A k, b : Holds(axis, v, k, b) => k \in K
              PROVE  /\ Holds(axis, w, key, c.bucket)
                     /\ \A k, b : k # key /\ Holds(axis, v, k, b) =>
                           Holds(axis, w, k, b) \/ Stale(axis, b, now)
            <3>1. IsFiniteSet(K) /\ Cardinality(K) <= IpStoreCap
                BY <1>1, <2>5 DEF RoomFor
            <3>2. \A x \in ItemsOf(v.od) : x.key \in K
                BY <2>1, <2>5
            <3>3. /\ it \in ItemsOf(od)
                  /\ \A x \in ItemsOf(v.od) :
                        x.key # key /\ x \notin ItemsOf(od) => ~(x.stamp >= now - IdleTtl)
                BY <1>16, <2>5, <3>1, <3>2
            <3> QED BY <1>17, <1>21, <2>1, <2>2, <3>3
        <2> QED BY <1>9, <1>10, <2>3, <2>4, <2>5 DEF Effect
    <1>23. PICK r : r = TryConsumeIp(lim, axis, key, now)
        OBVIOUS
    <1>24. /\ r.allowed = c.allowed /\ r.deficit = c.deficit /\ r.lim.session = lim.session
           /\ r.lim.store = [lim.store EXCEPT ![axis] = w]
        BY <1>2, <1>5, <1>7, <1>10, <1>14, <1>18, <1>23 DEF TryConsumeIp
    <1>25. /\ DOMAIN r.lim.store = IpAxis
           /\ r.lim.store[axis] = w
           /\ \A other \in IpAxis : other # axis => r.lim.store[other] = lim.store[other]
        BY <1>24
    <1> QED BY <1>2, <1>10, <1>20, <1>22, <1>23, <1>24, <1>25

\* Only buckets are kept.
LEMMA HeldAreBuckets ==
    ASSUME NEW axis \in Axis, NEW t \in Nat, NEW v, Shape(axis, v, t), NEW k, NEW b,
           Holds(axis, v, k, b)
    PROVE  IsBucket(axis, b, t) /\ k \in KeyOf(axis)
    <1>1. CASE axis = "session"
        BY <1>1 DEF Shape, SessionShape, Holds, IsBucket, KeyOf
    <1>2. CASE axis # "session"
        <2>1. v.od \in Seq(Item) /\ \A x \in ItemsOf(v.od) : IsBucket(axis, x.value, t)
            BY <1>2 DEF Shape, StoreShape
        <2>2. PICK x \in ItemsOf(v.od) : x.key = k /\ x.value = b
            BY <1>2 DEF Holds
        <2>3. x \in Item
            BY <2>1 DEF ItemsOf
        <2> QED BY <1>2, <2>1, <2>2, <2>3 DEF Item, KeyOf
    <1> QED BY <1>1, <1>2

---------------------------------------------------------------------------
(***************************************************************************)
(* The books of an axis: what it keeps, v, agrees with the history of its  *)
(* keys, h.  An IP axis keeps balanced books while no bucket need be       *)
(* evicted and an idle bucket would be full when the sweep drops it.       *)
(***************************************************************************)
Roomy(axis, K) ==
    axis # "session" =>
        /\ (IdleTtl - ClockSkew) * Rate[axis] >= Burst[axis]
        /\ IsFiniteSet(K)
        /\ Cardinality(K) <= IpStoreCap

BooksBalance(axis, v, h, t) ==
    \A k \in DOMAIN h :
        /\ \A b : Holds(axis, v, k, b) => Balanced(axis, b, h[k])
        /\ (\A b : ~Holds(axis, v, k, b)) => axis # "session" /\ Forgotten(axis, h[k], t)

Books(axis, v, h, t) ==
    /\ \A k \in DOMAIN h : IsEntry(h[k])
    /\ \A k, b : Holds(axis, v, k, b) => k \in DOMAIN h
    /\ Roomy(axis, DOMAIN h) => BooksBalance(axis, v, h, t)
    /\ ClockSkew = 0 /\ Burst[axis] >= Cost =>
          \A k, b : Holds(axis, v, k, b) => Promises(b, h[k])

\* A bucket that the sweep drops would have been full.
LEMMA StaleForgotten ==
    ASSUME NEW axis \in Axis, (IdleTtl - ClockSkew) * Rate[axis] >= Burst[axis],
           NEW t \in Nat, NEW now \in 0..t, NEW b, IsBucket(axis, b, t), Stale(axis, b, now),
           NEW e, IsEntry(e), Balanced(axis, b, e)
    PROVE  Forgotten(axis, e, t)
    <1>1. PICK R : R = Rate[axis]
        OBVIOUS
    <1>2. R \in Nat /\ Burst[axis] \in Nat /\ Cost \in Nat /\ IdleTtl \in Nat /\ ClockSkew \in Nat
        BY <1>1, AxisConstants
    <1>3. b.last_refill \in Nat /\ b.tokens \in Nat /\ e.since \in Nat /\ e.granted \in Nat
        BY BucketFacts DEF IsEntry
    <1>4. PICK u : u = IdleTtl - ClockSkew
        OBVIOUS
    <1>5. PICK d : d = b.last_refill - e.since
        OBVIOUS
    <1>6. u \in Int /\ d \in Int /\ u * R >= Burst[axis]
        BY <1>1, <1>2, <1>3, <1>4, <1>5
    <1>7. PICK spent : spent = e.granted * Cost
        OBVIOUS
    <1>8. spent \in Nat
        BY <1>2, <1>3, <1>7, ProductNat
    <1>9. spent + b.tokens <= Burst[axis] + R * d
        BY <1>1, <1>5, <1>7 DEF Balanced
    <1>10. R * (d + u) = R * d + R * u /\ R * u = u * R
        BY <1>2, <1>6, Distribute
    <1>11. d + u <= t - ClockSkew - e.since
        BY <1>2, <1>3, <1>4, <1>5 DEF Stale
    <1>12. R * (d + u) <= R * (t - ClockSkew - e.since)
        <2>1. d + u \in Int /\ t - ClockSkew - e.since \in Int
            BY <1>2, <1>3, <1>6
        <2> QED BY <1>2, <1>11, <2>1, ProductGrows
    <1>13. PICK x, y, z : x = R * d /\ y = R * u /\ z = R * (t - ClockSkew - e.since)
        OBVIOUS
    <1>14. x \in Int /\ y \in Int /\ z \in Int
        BY <1>2, <1>3, <1>6, <1>13
    <1>15. y >= Burst[axis] /\ x + y <= z /\ spent + b.tokens <= Burst[axis] + x
        BY <1>6, <1>9, <1>10, <1>12, <1>13
    <1>16. spent <= z
        BY <1>2, <1>3, <1>8, <1>14, <1>15
    <1> QED BY <1>1, <1>7, <1>13, <1>16 DEF Forgotten

\* A key whose bucket was dropped may start with a fresh one.
LEMMA ForgottenFresh ==
    ASSUME NEW axis \in Axis, NEW t \in Nat, NEW now \in 0..t, t <= now + ClockSkew,
           NEW e, IsEntry(e), Forgotten(axis, e, t)
    PROVE  Balanced(axis, Fresh(axis, now), e)
    <1>1. PICK R : R = Rate[axis]
        OBVIOUS
    <1>2. R \in Nat /\ Burst[axis] \in Nat /\ Cost \in Nat /\ ClockSkew \in Nat
        BY <1>1, AxisConstants
    <1>3. e.since \in Nat /\ e.granted \in Nat
        BY DEF IsEntry
    <1>4. /\ R * (t - ClockSkew - e.since) \in Int /\ R * (now - e.since) \in Int
          /\ R * (t - ClockSkew - e.since) <= R * (now - e.since)
        <2>1. /\ t - ClockSkew - e.since \in Int /\ now - e.since \in Int
              /\ t - ClockSkew - e.since <= now - e.since
            BY <1>2, <1>3
        <2> QED BY <1>2, <2>1, ProductGrows
    <1>5. PICK x, y, spent : /\ x = R * (t - ClockSkew - e.since) /\ y = R * (now - e.since)
                             /\ spent = e.granted * Cost
        OBVIOUS
    <1>6. spent \in Nat /\ x \in Int /\ y \in Int /\ x <= y /\ spent <= x
        <2>1. spent \in Nat
            BY <1>2, <1>3, <1>5, ProductNat
        <2>2. spent <= x
            BY <1>1, <1>5 DEF Forgotten
        <2> QED BY <1>4, <1>5, <2>1, <2>2
    <1>7. spent + Burst[axis] <= Burst[axis] + y
        BY <1>2, <1>6
    <1>8. Fresh(axis, now).tokens = Burst[axis] /\ Fresh(axis, now).last_refill = now
        BY FreshFacts
    <1> QED BY <1>1, <1>5, <1>7, <1>8 DEF Balanced

\* A fresh bucket agrees with a new entry.
LEMMA NewFresh ==
    ASSUME NEW axis \in Axis, NEW t \in Nat, NEW now \in 0..t, NEW e, e.since = now, e.granted = 0
    PROVE  Balanced(axis, Fresh(axis, now), e)
    <1>1. Fresh(axis, now).tokens = Burst[axis] /\ Fresh(axis, now).last_refill = now
        BY FreshFacts
    <1>2. Burst[axis] \in Nat /\ Rate[axis] \in Nat /\ Cost \in Nat
        BY AxisConstants
    <1>3. Rate[axis] * (now - now) = 0 /\ 0 * Cost = 0
        <2>1. now - now = 0
            OBVIOUS
        <2> QED BY <1>2, <2>1
    <1> QED BY <1>1, <1>2, <1>3 DEF Balanced

\* Fewer keys need less room.
LEMMA RoomyShrinks ==
    ASSUME NEW axis \in Axis, NEW K, NEW J, J \subseteq K, Roomy(axis, K)
    PROVE  Roomy(axis, J)
    <1>1. CASE axis = "session"
        BY <1>1 DEF Roomy
    <1>2. CASE axis # "session"
        <2>1. IsFiniteSet(K) /\ Cardinality(K) <= IpStoreCap
            BY <1>2 DEF Roomy
        <2>2. J \in SUBSET K
            OBVIOUS
        <2>3. IsFiniteSet(J) /\ Cardinality(J) <= Cardinality(K)
            BY <2>1, <2>2, FS_Subset
        <2>4. Cardinality(J) \in Nat /\ Cardinality(K) \in Nat /\ IpStoreCap \in Nat
            BY <2>1, <2>3, FS_CardinalityType, AxisConstants
        <2> QED BY <2>1, <2>3, <2>4 DEF Roomy
    <1> QED BY <1>1, <1>2

\* What the history records of a consultation.
LEMMA RecordedOutcome ==
    ASSUME NEW h, NEW key, NEW r, NEW now
    PROVE  Recorded(h, key, r, now) = With(h, key, Outcome(Entry(h, key, now), r, now))
    BY DEF Recorded, Outcome

\* A denied call is promised what the bucket it leaves lacks.
LEMMA ConsumePromises ==
    ASSUME NEW axis \in Axis, NEW t \in Nat, NEW now \in 0..t, now = t,
           NEW b, IsBucket(axis, b, t), NEW e, NEW r, NEW b1,
           b1 = Consume(axis, b, now).bucket,
           r.allowed = Consume(axis, b, now).allowed, r.deficit = Consume(axis, b, now).deficit
    PROVE  Promises(b1, Outcome(e, r, now))
    <1>1. PICK f : f = Refill(axis, b, now)
        OBVIOUS
    <1>2. IsBucket(axis, f, t) /\ f.last_refill = now
        <2>1. b.last_refill \in Nat /\ b.last_refill <= now
            BY BucketFacts
        <2> QED BY <1>1, <2>1, RefillFacts
    <1>3. f.tokens \in Nat /\ Cost \in Nat
        BY <1>2, BucketFacts, AxisConstants
    <1>4. /\ r.allowed <=> f.tokens >= Cost
          /\ r.deficit = Cost - f.tokens
          /\ ~r.allowed => b1 = f
        BY <1>1, ConsumeFacts
    <1>5. CASE r.allowed
        BY <1>5 DEF Outcome, Promises
    <1>6. CASE ~r.allowed
        <2>1. Outcome(e, r, now).promise = [at |-> now, deficit |-> r.deficit]
            BY <1>6 DEF Outcome
        <2>2. r.deficit \in Nat \ {0} /\ f.tokens = Cost - r.deficit
            BY <1>3, <1>4, <1>6
        <2>3. b1 = f
            BY <1>4, <1>6
        <2> QED BY <1>2, <2>1, <2>2, <2>3 DEF Promises
    <1> QED BY <1>5, <1>6

\* A consultation keeps the books of its axis.
LEMMA EffectKeepsBooks ==
    ASSUME NEW axis \in Axis, NEW t \in Nat, NEW now \in 0..t, t <= now + ClockSkew,
           NEW v, NEW w, NEW key, NEW b0, Effect(axis, v, w, key, b0, now, t),
           \A k, b : Holds(axis, v, k, b) => IsBucket(axis, b, t),
           NEW h, IsFiniteSet(DOMAIN h), Books(axis, v, h, t),
           NEW r, r.allowed = Consume(axis, b0, now).allowed,
           r.deficit = Consume(axis, b0, now).deficit
    PROVE  Books(axis, w, Recorded(h, key, r, now), t)
    <1>1. PICK g, e0, c, b1 : /\ g = Recorded(h, key, r, now)
                              /\ e0 = Entry(h, key, now)
                              /\ c = Consume(axis, b0, now)
                              /\ b1 = c.bucket
        OBVIOUS
    <1>2. /\ DOMAIN g = DOMAIN h \cup {key}
          /\ g[key] = Outcome(e0, r, now)
          /\ \A k \in DOMAIN h : k # key => g[k] = h[k]
        <2>1. PICK e1 : e1 = Outcome(e0, r, now)
            OBVIOUS
        <2>2. g = With(h, key, e1)
            BY <1>1, <2>1, RecordedOutcome
        <2>3. With(h, key, e1) = [x \in DOMAIN h \cup {key} |-> IF x = key THEN e1 ELSE h[x]]
            BY DEF With
        <2> QED BY <2>1, <2>2, <2>3
    <1>3. Outcome(e0, r, now) = Outcome(e0, c, now)
        BY <1>1 DEF Outcome
    <1>4. \/ key \in DOMAIN h /\ e0 = h[key]
          \/ key \notin DOMAIN h /\ e0.since = now /\ e0.granted = 0
        BY <1>1 DEF Entry
    <1>5. IsEntry(e0)
        BY <1>4 DEF Books, IsEntry
    <1>6. IsEntry(g[key])
        BY <1>2, <1>5 DEF Outcome, IsEntry
    <1>7. IsBucket(axis, b0, t)
        BY DEF Effect
    <1>8. /\ \/ Holds(axis, v, key, b0)
             \/ b0 = Fresh(axis, now) /\ \A b : Holds(axis, v, key, b) => Stale(axis, b, now)
          /\ \A k, b : Holds(axis, w, k, b) =>
                IF k = key THEN b = b1 ELSE Holds(axis, v, k, b)
        BY <1>1 DEF Effect
    <1>9. \A k, b : Holds(axis, v, k, b) => k \in DOMAIN h
        BY DEF Books
    <1>10. \A k \in DOMAIN g : IsEntry(g[k])
        BY <1>2, <1>6 DEF Books
    <1>11. \A k, b : Holds(axis, w, k, b) => k \in DOMAIN g
        BY <1>2, <1>8, <1>9
    <1>12. ASSUME Roomy(axis, DOMAIN g)
           PROVE  BooksBalance(axis, w, g, t)
        <2>1. Roomy(axis, DOMAIN h)
            <3>1. DOMAIN h \subseteq DOMAIN g
                BY <1>2
            <3> QED BY <1>12, <3>1, RoomyShrinks
        <2>2. BooksBalance(axis, v, h, t)
            BY <2>1 DEF Books
        <2>3. ASSUME NEW k \in DOMAIN h, NEW b, Holds(axis, v, k, b), Stale(axis, b, now)
              PROVE  axis # "session" /\ Forgotten(axis, h[k], t)
            <3>1. axis # "session"
                BY <2>3 DEF Stale
            <3>2. (IdleTtl - ClockSkew) * Rate[axis] >= Burst[axis]
                BY <2>1, <3>1 DEF Roomy
            <3>3. IsBucket(axis, b, t) /\ IsEntry(h[k]) /\ Balanced(axis, b, h[k])
                BY <2>2, <2>3 DEF Books, BooksBalance
            <3> QED BY <2>3, <3>1, <3>2, <3>3, StaleForgotten
        <2>4. Balanced(axis, b0, e0)
            <3>1. CASE Holds(axis, v, key, b0)
                BY <1>4, <1>9, <2>2, <3>1 DEF BooksBalance
            <3>2. CASE /\ key \notin DOMAIN h
                       /\ b0 = Fresh(axis, now)
                BY <1>4, <3>2, NewFresh
            <3>3. CASE /\ key \in DOMAIN h
                       /\ b0 = Fresh(axis, now)
                       /\ \A b : Holds(axis, v, key, b) => Stale(axis, b, now)
                <4>1. Forgotten(axis, h[key], t)
                    <5>1. CASE \E b : Holds(axis, v, key, b)
                        BY <2>3, <3>3, <5>1
                    <5>2. CASE \A b : ~Holds(axis, v, key, b)
                        BY <2>2, <3>3, <5>2 DEF BooksBalance
                    <5> QED BY <5>1, <5>2
                <4> QED BY <1>4, <1>5, <3>3, <4>1, ForgottenFresh
            <3> QED BY <1>8, <3>1, <3>2, <3>3
        <2>5. Balanced(axis, b1, g[key])
            BY <1>1, <1>2, <1>3, <1>5, <1>7, <2>4, ConsumeBalanced
        <2>6. /\ Holds(axis, w, key, b1)
              /\ \A k, b : k # key /\ Holds(axis, v, k, b) =>
                    Holds(axis, w, k, b) \/ Stale(axis, b, now)
            <3>1. RoomFor(axis, DOMAIN g)
                BY <1>12 DEF Roomy, RoomFor
            <3>2. key \in DOMAIN g /\ \A k, b : Holds(axis, v, k, b) => k \in DOMAIN g
                BY <1>2, <1>9
            <3> QED BY <1>1, <3>1, <3>2 DEF Effect
        <2>7. ASSUME NEW k \in DOMAIN g
              PROVE  /\ \A b : Holds(axis, w, k, b) => Balanced(axis, b, g[k])
                     /\ (\A b : ~Holds(axis, w, k, b)) => axis # "session" /\ Forgotten(axis, g[k], t)
            <3>1. CASE k = key
                BY <1>8, <2>5, <2>6, <3>1
            <3>2. CASE k # key
                <4>1. k \in DOMAIN h /\ g[k] = h[k]
                    BY <1>2, <3>2
                <4>2. \A b : Holds(axis, w, k, b) => Balanced(axis, b, h[k])
                    BY <1>8, <2>2, <3>2, <4>1 DEF BooksBalance
                <4>3. ASSUME \A b : ~Holds(axis, w, k, b)
                      PROVE  axis # "session" /\ Forgotten(axis, h[k], t)
                    <5>1. CASE \A b : ~Holds(axis, v, k, b)
                        BY <2>2, <4>1, <5>1 DEF BooksBalance
                    <5>2. CASE \E b : Holds(axis, v, k, b)
                        BY <2>3, <2>6, <3>2, <4>1, <4>3, <5>2
                    <5> QED BY <5>1, <5>2
                <4> QED BY <4>1, <4>2, <4>3
            <3> QED BY <3>1, <3>2
        <2> QED BY <2>7 DEF BooksBalance
    <1>13. ASSUME ClockSkew = 0, Burst[axis] >= Cost, NEW k, NEW b, Holds(axis, w, k, b)
           PROVE  Promises(b, g[k])
        <2>1. CASE k = key
            <3>1. now = t /\ b = b1
                BY <1>8, <1>13, <2>1
            <3> QED BY <1>1, <1>2, <1>7, <2>1, <3>1, ConsumePromises
        <2>2. CASE k # key
            <3>1. Holds(axis, v, k, b) /\ k \in DOMAIN h /\ g[k] = h[k]
                BY <1>2, <1>8, <1>9, <1>13, <2>2
            <3> QED BY <1>13, <3>1 DEF Books
        <2> QED BY <2>1, <2>2
    <1>14. Books(axis, w, g, t)
        BY <1>10, <1>11, <1>12, <1>13 DEF Books
    <1> QED BY <1>1, <1>14

\* A second denial in a row comes before the first one's promise is due.
LEMMA EffectKeepsPromise ==
    ASSUME NEW axis \in Axis, NEW t \in Nat, ClockSkew = 0, Burst[axis] >= Cost,
           NEW v, NEW w, NEW key, NEW b0, Effect(axis, v, w, key, b0, t, t),
           NEW h, Books(axis, v, h, t), key \in DOMAIN h, h[key].promise # Null,
           NEW r, r.allowed = Consume(axis, b0, t).allowed,
           Recorded(h, key, r, t)[key].promise # Null
    PROVE  (t - h[key].promise.at) * Rate[axis] < h[key].promise.deficit
    <1>1. PICK p, f : p = h[key].promise /\ f = Refill(axis, b0, t)
        OBVIOUS
    <1>2. IsBucket(axis, b0, t) /\ t \in 0..t
        BY DEF Effect
    <1>3. Recorded(h, key, r, t)[key] = Outcome(h[key], r, t)
        <2>1. h[key] = Entry(h, key, t)
            BY DEF Entry
        <2>2. Recorded(h, key, r, t) = With(h, key, Outcome(h[key], r, t))
            BY <2>1, RecordedOutcome
        <2>3. With(h, key, Outcome(h[key], r, t))[key] = Outcome(h[key], r, t)
            BY DEF With
        <2> QED BY <2>2, <2>3
    <1>4. ~r.allowed
        BY <1>3 DEF Outcome
    <1>5. ~(f.tokens >= Cost)
        BY <1>1, <1>2, <1>4, ConsumeFacts
    <1>6. f.tokens \in Nat /\ Cost \in Nat /\ Burst[axis] \in Nat
        BY <1>1, <1>2, RefillFacts, BucketFacts, AxisConstants
    <1>7. Holds(axis, v, key, b0)
        <2>1. CASE b0 = Fresh(axis, t)
            <3>1. b0.tokens = Burst[axis] /\ b0.last_refill = t
                BY <1>2, <2>1, FreshFacts
            <3>2. f = b0
                BY <1>1, <1>2, <3>1, RefillFacts
            <3> QED BY <1>5, <1>6, <3>1, <3>2
        <2> QED BY <2>1 DEF Effect
    <1>8. Promises(b0, h[key])
        BY <1>7 DEF Books
    <1>9. p.at = b0.last_refill /\ b0.tokens = Cost - p.deficit /\ p.deficit \in Nat \ {0}
        BY <1>1, <1>8 DEF Promises
    <1>10. b0.last_refill \in Nat /\ b0.last_refill <= t
        BY <1>2, BucketFacts
    <1>11. PICK gain : gain = Rate[axis] * (t - b0.last_refill)
        OBVIOUS
    <1>12. /\ f.tokens = Burst[axis] \/ f.tokens = b0.tokens + gain
           /\ gain \in Nat
        BY <1>1, <1>2, <1>10, <1>11, RefillFacts
    <1>13. gain < p.deficit
        BY <1>5, <1>6, <1>9, <1>12
    <1>14. (t - p.at) * Rate[axis] = gain
        <2>1. t - b0.last_refill \in Int /\ Rate[axis] \in Int
            BY <1>10, AxisConstants
        <2> QED BY <1>9, <1>11, <2>1
    <1> QED BY <1>1, <1>13, <1>14

\* Books that balance bound what was granted.
LEMMA BooksBound ==
    ASSUME NEW axis \in Axis, NEW t \in Nat, NEW v, Shape(axis, v, t), NEW h, Books(axis, v, h, t),
           Roomy(axis, DOMAIN h), NEW k \in DOMAIN h
    PROVE  h[k].granted * Cost <= Burst[axis] + Rate[axis] * (t - h[k].since)
    <1>1. PICK e, R : e = h[k] /\ R = Rate[axis]
        OBVIOUS
    <1>2. R \in Nat /\ Burst[axis] \in Nat /\ Cost \in Nat /\ ClockSkew \in Nat
        BY <1>1, AxisConstants
    <1>3. e.since \in Nat /\ e.granted \in Nat
        BY <1>1 DEF Books, IsEntry
    <1>4. PICK spent, now : spent = e.granted * Cost /\ now = R * (t - e.since)
        OBVIOUS
    <1>5. spent \in Nat /\ now \in Int
        BY <1>2, <1>3, <1>4, ProductNat
    <1>6. CASE \E b : Holds(axis, v, k, b)
        <2>1. PICK b : Holds(axis, v, k, b)
            BY <1>6
        <2>2. IsBucket(axis, b, t) /\ Balanced(axis, b, e)
            BY <1>1, <2>1, HeldAreBuckets DEF Books, BooksBalance
        <2>3. b.tokens \in Nat /\ b.last_refill \in Nat /\ b.last_refill <= t
            BY <2>2, BucketFacts
        <2>4. PICK x : x = R * (b.last_refill - e.since)
            OBVIOUS
        <2>5. x \in Int /\ x <= now
            <3>1. /\ b.last_refill - e.since \in Int /\ t - e.since \in Int
                  /\ b.last_refill - e.since <= t - e.since
                BY <1>3, <2>3
            <3> QED BY <1>2, <1>4, <2>4, <3>1, ProductGrows
        <2>6. spent + b.tokens <= Burst[axis] + x
            BY <1>1, <1>4, <2>2, <2>4 DEF Balanced
        <2>7. spent <= Burst[axis] + now
            BY <1>2, <1>5, <2>3, <2>5, <2>6
        <2> QED BY <1>1, <1>4, <2>7
    <1>7. CASE \A b : ~Holds(axis, v, k, b)
        <2>1. Forgotten(axis, e, t)
            BY <1>1, <1>7 DEF Books, BooksBalance
        <2>2. PICK x : x = R * (t - ClockSkew - e.since)
            OBVIOUS
        <2>3. x \in Int /\ x <= now
            <3>1. /\ t - ClockSkew - e.since \in Int /\ t - e.since \in Int
                  /\ t - ClockSkew - e.since <= t - e.since
                BY <1>2, <1>3
            <3> QED BY <1>2, <1>4, <2>2, <3>1, ProductGrows
        <2>4. spent <= x
            BY <1>1, <1>4, <2>1, <2>2 DEF Forgotten
        <2>5. spent <= Burst[axis] + now
            BY <1>2, <1>5, <2>3, <2>4
        <2> QED BY <1>1, <1>4, <2>5
    <1> QED BY <1>6, <1>7

\* Time passing keeps the books.
LEMMA BooksLater ==
    ASSUME NEW axis \in Axis, NEW t \in Nat, NEW v, NEW h, Books(axis, v, h, t)
    PROVE  Books(axis, v, h, t + 1)
    <1> DEFINE u == t + 1
    <1> u \in Nat /\ t <= u
        OBVIOUS
    <1> HIDE DEF u
    <1>1. ASSUME NEW e, IsEntry(e), Forgotten(axis, e, t)
          PROVE  Forgotten(axis, e, u)
        <2>1. Rate[axis] \in Nat /\ Cost \in Nat /\ ClockSkew \in Nat /\ e.since \in Nat /\ e.granted \in Nat
            BY <1>1, AxisConstants DEF IsEntry
        <2>2. PICK x, y, spent : /\ x = Rate[axis] * (t - ClockSkew - e.since)
                                 /\ y = Rate[axis] * (u - ClockSkew - e.since)
                                 /\ spent = e.granted * Cost
            OBVIOUS
        <2>3. x \in Int /\ y \in Int /\ x <= y
            <3>1. /\ t - ClockSkew - e.since \in Int /\ u - ClockSkew - e.since \in Int
                  /\ t - ClockSkew - e.since <= u - ClockSkew - e.since
                BY <2>1
            <3> QED BY <2>1, <2>2, <3>1, ProductGrows
        <2>4. spent \in Nat
            BY <2>1, <2>2, ProductNat
        <2>5. spent <= x
            BY <1>1, <2>2 DEF Forgotten
        <2>6. spent <= y
            BY <2>3, <2>4, <2>5
        <2> QED BY <2>2, <2>6 DEF Forgotten
    <1>2. BooksBalance(axis, v, h, t) => BooksBalance(axis, v, h, u)
        BY <1>1 DEF Books, BooksBalance
    <1> QED BY <1>2 DEF Books, u

---------------------------------------------------------------------------
(***************************************************************************)
(* The limiter: each axis by itself.                                       *)
(***************************************************************************)
Ledger(led, axis) == [k \in {x \in KeyOf(axis) : <<axis, x>> \in DOMAIN led} |-> led[<<axis, k>>]]

AxisInv(axis, lim, led, t) ==
    /\ Shape(axis, View(lim, axis), t)
    /\ IsFiniteSet(DOMAIN Ledger(led, axis))
    /\ Books(axis, View(lim, axis), Ledger(led, axis), t)

LimiterInv(lim, led, t) ==
    /\ DOMAIN lim.store = IpAxis
    /\ \A axis \in Axis : AxisInv(axis, lim, led, t)

\* A consultation of an axis has its effect on that axis and on no other.
LEMMA TryConsumeEffect ==
    ASSUME NEW lim, NEW led, NEW t \in Nat, LimiterInv(lim, led, t), NEW axis \in Axis,
           NEW key \in KeyOf(axis), NEW now \in 0..t, NEW r, r = TryConsume(lim, axis, key, now)
    PROVE  /\ DOMAIN r.lim.store = IpAxis
           /\ Shape(axis, View(r.lim, axis), t)
           /\ \A other \in Axis : other # axis => View(r.lim, other) = View(lim, other)
           /\ \E b0 : /\ r.allowed = Consume(axis, b0, now).allowed
                      /\ r.deficit = Consume(axis, b0, now).deficit
                      /\ Effect(axis, View(lim, axis), View(r.lim, axis), key, b0, now, t)
    <1>1. DOMAIN lim.store = IpAxis /\ Shape(axis, View(lim, axis), t)
        BY DEF LimiterInv, AxisInv
    <1>2. CASE axis = "session"
        <2>1. r = TryConsumeSession(lim, key, now) /\ key \in Session
            BY <1>2 DEF TryConsume, KeyOf
        <2>2. SessionShape(lim.session, t) /\ View(lim, axis) = lim.session
            BY <1>1, <1>2 DEF Shape, View
        <2>3. /\ r.lim.store = lim.store
              /\ SessionShape(r.lim.session, t)
              /\ \E b0 : /\ r.allowed = Consume("session", b0, now).allowed
                         /\ r.deficit = Consume("session", b0, now).deficit
                         /\ Effect("session", lim.session, r.lim.session, key, b0, now, t)
            BY <2>1, <2>2, SessionEffect
        <2>4. View(r.lim, axis) = r.lim.session /\ Shape(axis, r.lim.session, t)
            BY <1>2, <2>3 DEF View, Shape
        <2>5. \A other \in Axis : other # axis => View(r.lim, other) = View(lim, other)
            BY <1>2, <2>3 DEF View
        <2> QED BY <1>1, <1>2, <2>2, <2>3, <2>4, <2>5
    <1>3. CASE axis # "session"
        <2>1. r = TryConsumeIp(lim, axis, key, now) /\ key \in Ip /\ axis \in IpAxis
            BY <1>3 DEF TryConsume, KeyOf, Axis
        <2>2. StoreShape(axis, lim.store[axis], t) /\ View(lim, axis) = lim.store[axis]
            BY <1>1, <1>3 DEF Shape, View
        <2>3. /\ r.lim.session = lim.session
              /\ DOMAIN r.lim.store = IpAxis
              /\ \A other \in IpAxis : other # axis => r.lim.store[other] = lim.store[other]
              /\ StoreShape(axis, r.lim.store[axis], t)
              /\ \E b0 : /\ r.allowed = Consume(axis, b0, now).allowed
                         /\ r.deficit = Consume(axis, b0, now).deficit
                         /\ Effect(axis, lim.store[axis], r.lim.store[axis], key, b0, now, t)
            BY <1>1, <2>1, <2>2, IpEffect
        <2>4. View(r.lim, axis) = r.lim.store[axis] /\ Shape(axis, r.lim.store[axis], t)
            BY <1>3, <2>3 DEF View, Shape
        <2>5. \A other \in Axis : other # axis => View(r.lim, other) = View(lim, other)
            BY <2>3 DEF View, Axis
        <2> QED BY <2>2, <2>3, <2>4, <2>5
    <1> QED BY <1>2, <1>3

\* The history of a consultation, axis by axis.
LEMMA LedgerRecorded ==
    ASSUME NEW led, NEW axis \in Axis, NEW key \in KeyOf(axis), NEW r, NEW now,
           NEW led1, led1 = Recorded(led, <<axis, key>>, r, now)
    PROVE  /\ Ledger(led1, axis) = Recorded(Ledger(led, axis), key, r, now)
           /\ \A other \in Axis : other # axis => Ledger(led1, other) = Ledger(led, other)
    <1>1. PICK e, h : e = Outcome(Entry(led, <<axis, key>>, now), r, now) /\ h = Ledger(led, axis)
        OBVIOUS
    <1>2. led1 = [x \in DOMAIN led \cup {<<axis, key>>} |-> IF x = <<axis, key>> THEN e ELSE led[x]]
        <2>1. led1 = With(led, <<axis, key>>, e)
            BY <1>1, RecordedOutcome
        <2> QED BY <2>1 DEF With
    <1>3. h = [k \in {x \in KeyOf(axis) : <<axis, x>> \in DOMAIN led} |-> led[<<axis, k>>]]
        BY <1>1 DEF Ledger
    <1>4. Entry(h, key, now) = Entry(led, <<axis, key>>, now)
        BY <1>3 DEF Entry
    <1>5. Recorded(h, key, r, now) = [x \in DOMAIN h \cup {key} |-> IF x = key THEN e ELSE h[x]]
        <2>1. Recorded(h, key, r, now) = With(h, key, e)
            BY <1>1, <1>4, RecordedOutcome
        <2> QED BY <2>1 DEF With
    <1>6. Ledger(led1, axis) = Recorded(h, key, r, now)
        <2>1. Ledger(led1, axis) =
                 [k \in {x \in KeyOf(axis) : <<axis, x>> \in DOMAIN led1} |-> led1[<<axis, k>>]]
            BY DEF Ledger
        <2>2. {x \in KeyOf(axis) : <<axis, x>> \in DOMAIN led1} = DOMAIN h \cup {key}
            BY <1>2, <1>3
        <2>3. \A x \in DOMAIN h \cup {key} : led1[<<axis, x>>] = IF x = key THEN e ELSE h[x]
            <3> TAKE x \in DOMAIN h \cup {key}
            <3>1. CASE x = key
                BY <1>2, <3>1
            <3>2. CASE x # key
                <4>1. <<axis, x>> \in DOMAIN led /\ h[x] = led[<<axis, x>>]
                    BY <1>3, <3>2
                <4>2. <<axis, x>> # <<axis, key>>
                    BY <3>2
                <4> QED BY <1>2, <3>2, <4>1, <4>2
            <3> QED BY <3>1, <3>2
        <2> QED BY <1>5, <2>1, <2>2, <2>3
    <1>7. ASSUME NEW other \in Axis, other # axis
          PROVE  Ledger(led1, other) = Ledger(led, other)
        <2>1. \A x : <<other, x>> # <<axis, key>>
            BY <1>7
        <2>2. \A x : /\ <<other, x>> \in DOMAIN led1 <=> <<other, x>> \in DOMAIN led
                     /\ <<other, x>> \in DOMAIN led => led1[<<other, x>>] = led[<<other, x>>]
            BY <1>2, <2>1
        <2>3. {x \in KeyOf(other) : <<other, x>> \in DOMAIN led1} =
                 {x \in KeyOf(other) : <<other, x>> \in DOMAIN led}
            BY <2>2
        <2> QED BY <2>2, <2>3 DEF Ledger
    <1> QED BY <1>1, <1>6, <1>7

\* A consultation that is skipped changes nothing, one that is made has its
\* effect on its axis.
LEMMA ConsultEffect ==
    ASSUME NEW c, NEW t \in Nat, LimiterInv(c.lim, c.ledger, t), NEW axis \in Axis,
           NEW key \in KeyOf(axis) \cup {Null}, NEW now \in 0..t,
           NEW d, d = Consult(c, axis, key, now)
    PROVE  \/ d = c
           \/ /\ DOMAIN d.lim.store = IpAxis
              /\ Shape(axis, View(d.lim, axis), t)
              /\ \A other \in Axis : other # axis =>
                    /\ View(d.lim, other) = View(c.lim, other)
                    /\ Ledger(d.ledger, other) = Ledger(c.ledger, other)
              /\ key \in KeyOf(axis)
              /\ \E b0, r : /\ r.allowed = Consume(axis, b0, now).allowed
                            /\ r.deficit = Consume(axis, b0, now).deficit
                            /\ Effect(axis, View(c.lim, axis), View(d.lim, axis), key, b0, now, t)
                            /\ Ledger(d.ledger, axis) = Recorded(Ledger(c.ledger, axis), key, r, now)
    <1>1. CASE key = Null \/ c.denied # Null
        BY <1>1 DEF Consult
    <1>2. CASE ~(key = Null \/ c.denied # Null)
        <2>1. PICK r : r = TryConsume(c.lim, axis, key, now)
            OBVIOUS
        <2>2. d.lim = r.lim /\ d.ledger = Recorded(c.ledger, <<axis, key>>, r, now)
            BY <1>2, <2>1 DEF Consult
        <2>3. key \in KeyOf(axis)
            BY <1>2
        <2>4. /\ DOMAIN r.lim.store = IpAxis
              /\ Shape(axis, View(r.lim, axis), t)
              /\ \A other \in Axis : other # axis => View(r.lim, other) = View(c.lim, other)
              /\ \E b0 : /\ r.allowed = Consume(axis, b0, now).allowed
                         /\ r.deficit = Consume(axis, b0, now).deficit
                         /\ Effect(axis, View(c.lim, axis), View(r.lim, axis), key, b0, now, t)
            BY <2>1, <2>3, TryConsumeEffect
        <2>5. /\ Ledger(d.ledger, axis) = Recorded(Ledger(c.ledger, axis), key, r, now)
              /\ \A other \in Axis : other # axis => Ledger(d.ledger, other) = Ledger(c.ledger, other)
            BY <2>2, <2>3, LedgerRecorded
        <2> QED BY <2>2, <2>3, <2>4, <2>5
    <1> QED BY <1>1, <1>2

\* A consultation keeps the invariant of every axis.
LEMMA ConsultKeeps ==
    ASSUME NEW c, NEW t \in Nat, LimiterInv(c.lim, c.ledger, t), NEW axis \in Axis,
           NEW key \in KeyOf(axis) \cup {Null}, NEW now \in 0..t, t <= now + ClockSkew,
           NEW d, d = Consult(c, axis, key, now)
    PROVE  LimiterInv(d.lim, d.ledger, t)
    <1>1. CASE d = c
        BY <1>1
    <1>2. CASE d # c
        <2>1. /\ DOMAIN d.lim.store = IpAxis
              /\ Shape(axis, View(d.lim, axis), t)
              /\ \A other \in Axis : other # axis =>
                    /\ View(d.lim, other) = View(c.lim, other)
                    /\ Ledger(d.ledger, other) = Ledger(c.ledger, other)
            BY <1>2, ConsultEffect
        <2>2. PICK b0, r : /\ r.allowed = Consume(axis, b0, now).allowed
                           /\ r.deficit = Consume(axis, b0, now).deficit
                           /\ Effect(axis, View(c.lim, axis), View(d.lim, axis), key, b0, now, t)
                           /\ Ledger(d.ledger, axis) = Recorded(Ledger(c.ledger, axis), key, r, now)
            BY <1>2, ConsultEffect
        <2>3. PICK v, h, g : v = View(c.lim, axis) /\ h = Ledger(c.ledger, axis) /\ g = Ledger(d.ledger, axis)
            OBVIOUS
        <2>4. Shape(axis, v, t) /\ IsFiniteSet(DOMAIN h) /\ Books(axis, v, h, t)
            BY <2>3 DEF LimiterInv, AxisInv
        <2>5. \A k, b : Holds(axis, v, k, b) => IsBucket(axis, b, t)
            BY <2>4, HeldAreBuckets
        <2>6. Books(axis, View(d.lim, axis), g, t)
            BY <2>2, <2>3, <2>4, <2>5, EffectKeepsBooks
        <2>7. IsFiniteSet(DOMAIN g)
            <3>1. DOMAIN g = DOMAIN h \cup {key}
                <4>1. g = With(h, key, Outcome(Entry(h, key, now), r, now))
                    BY <2>2, <2>3, RecordedOutcome
                <4> QED BY <4>1 DEF With
            <3> QED BY <2>4, <3>1, FS_AddElement
        <2>8. AxisInv(axis, d.lim, d.ledger, t)
            BY <2>1, <2>3, <2>6, <2>7 DEF AxisInv
        <2>9. \A other \in Axis : other # axis => AxisInv(other, d.lim, d.ledger, t)
            BY <2>1 DEF LimiterInv, AxisInv
        <2> QED BY <2>1, <2>8, <2>9 DEF LimiterInv
    <1> QED BY <1>1, <1>2

---------------------------------------------------------------------------
(***************************************************************************)
(* The deny log: the dedupe cache agrees with the lines it let through,    *)
(* and what it no longer knows of was written longer ago than its TTL, as  *)
(* long as it has room for every pair.                                     *)
(***************************************************************************)
LogPair == Axis \X (Session \cup Ip \cup {Null})
LogItem == [key : LogPair, value : Nat, stamp : Nat]

LogInv(log, em, t) ==
    /\ log.od \in Seq(LogItem) /\ Unique(log.od) /\ Len(log.od) <= DedupeCap
    /\ log.count \in 0..(SweepEvery - 1)
    /\ IsFiniteSet(DOMAIN em)
    /\ \A p \in DOMAIN em : em[p] \in 0..t
    /\ \A x \in ItemsOf(log.od) : x.key \in DOMAIN em /\ x.value = em[x.key] /\ x.stamp = em[x.key]
    /\ Cardinality(DOMAIN em) <= DedupeCap =>
          \A p \in DOMAIN em :
             (\A x \in ItemsOf(log.od) : x.key # p) => em[p] + DedupeTtl < t

\* What should_emit does, as one access to the store: log and em become log2
\* and em2.
EmitEffect(log, em, pair, now, t, log2, em2) ==
    /\ log2.count \in 0..(SweepEvery - 1)
    /\ log2.od = EvictIfOverCap(PutLast(Accessed(log, DedupeTtl, now).od, pair, em2[pair], em2[pair]),
                                DedupeCap)
    /\ DOMAIN em2 = DOMAIN em \cup {pair}
    /\ em2[pair] \in 0..t
    /\ \A p \in DOMAIN em : p # pair => em2[p] = em[p]
    /\ pair \in DOMAIN em /\ em2[pair] # em[pair] =>
          /\ em2[pair] = now
          /\ \/ now - em[pair] >= DedupeWindow
             \/ \A x \in ItemsOf(Accessed(log, DedupeTtl, now).od) : x.key # pair

\* Muted or not, should_emit has that effect.
LEMMA ShouldEmitEffect ==
    ASSUME NEW log, NEW em, NEW t \in Nat, LogInv(log, em, t), NEW pair \in LogPair,
           NEW now \in 0..t, NEW e, e = ShouldEmit(log, pair, now),
           NEW em2, em2 = IF e.emit THEN With(em, pair, now) ELSE em
    PROVE  EmitEffect(log, em, pair, now, t, e.log, em2)
    <1>1. PICK a : a = Accessed(log, DedupeTtl, now)
        OBVIOUS
    <1>2. /\ a.count \in 0..(SweepEvery - 1) /\ a.od \in Seq(LogItem) /\ Unique(a.od)
          /\ Len(a.od) <= Len(log.od) /\ ItemsOf(a.od) \subseteq ItemsOf(log.od)
        <2>1. log.od \in Seq(LogItem) /\ Unique(log.od) /\ log.count \in Nat
            BY RateLimiterAssumption DEF LogInv
        <2> QED BY <1>1, <2>1, AccessedFacts
    <1>3. Len(a.od) <= DedupeCap
        <2>1. log.od \in Seq(LogItem) /\ Len(log.od) <= DedupeCap
            BY DEF LogInv
        <2>2. Len(log.od) \in Nat /\ Len(a.od) \in Nat /\ DedupeCap \in Nat
            BY <1>2, <2>1, RateLimiterAssumption, SMTT(60)
        <2> QED BY <1>2, <2>1, <2>2
    <1>4. PICK last : last = ValueAt(a.od, pair)
        OBVIOUS
    <1>5. /\ HasKey(a.od, pair) => pair \in DOMAIN em /\ last = em[pair]
          /\ ~HasKey(a.od, pair) => \A x \in ItemsOf(a.od) : x.key # pair
        <2>1. HasKey(a.od, pair) => \E x \in ItemsOf(a.od) : x.key = pair /\ x.value = last
            BY <1>4, ValueAtFacts
        <2>2. \A x \in ItemsOf(a.od) : x.key \in DOMAIN em /\ x.value = em[x.key]
            BY <1>2 DEF LogInv
        <2>3. ~HasKey(a.od, pair) => \A x \in ItemsOf(a.od) : x.key # pair
            BY ValueAtFacts
        <2> QED BY <2>1, <2>2, <2>3
    <1>6. CASE HasKey(a.od, pair) /\ now - last < DedupeWindow
        <2>1. PICK od : od = PutLast(a.od, pair, last, last)
            OBVIOUS
        <2>2. ~e.emit /\ e.log.od = od /\ e.log.count = a.count
            BY <1>1, <1>4, <1>6, <2>1 DEF ShouldEmit, Accessed
        <2>3. em2 = em /\ pair \in DOMAIN em /\ em2[pair] = last /\ last \in 0..t
            BY <1>5, <1>6, <2>2 DEF LogInv
        <2>4. od \in Seq(LogItem) /\ Len(od) <= Len(a.od)
            <3>1. [key |-> pair, value |-> last, stamp |-> last] \in LogItem
                BY <2>3 DEF LogItem
            <3> QED BY <1>2, <1>6, <2>1, <3>1, PutLastFacts
        <2>5. Len(od) <= DedupeCap
            <3>1. Len(od) \in Nat /\ Len(a.od) \in Nat /\ DedupeCap \in Nat
                BY <1>2, <2>4, RateLimiterAssumption, SMTT(60)
            <3> QED BY <1>3, <2>4, <3>1
        <2>6. EvictIfOverCap(od, DedupeCap) = od
            BY <2>5 DEF EvictIfOverCap
        <2>7. e.log.od = EvictIfOverCap(PutLast(Accessed(log, DedupeTtl, now).od, pair, em2[pair], em2[pair]),
                                        DedupeCap)
            BY <1>1, <2>1, <2>2, <2>3, <2>6
        <2> QED BY <1>2, <2>2, <2>3, <2>7 DEF EmitEffect
    <1>7. CASE ~(HasKey(a.od, pair) /\ now - last < DedupeWindow)
        <2>1. PICK od : od = EvictIfOverCap(PutLast(a.od, pair, now, now), DedupeCap)
            OBVIOUS
        <2>2. e.emit /\ e.log.od = od /\ e.log.count = a.count
            BY <1>1, <1>4, <1>7, <2>1 DEF ShouldEmit, Accessed
        <2>3. em2 = [x \in DOMAIN em \cup {pair} |-> IF x = pair THEN now ELSE em[x]]
            BY <2>2 DEF With
        <2>4. /\ DOMAIN em2 = DOMAIN em \cup {pair} /\ em2[pair] = now
              /\ \A p \in DOMAIN em : p # pair => em2[p] = em[p]
            BY <2>3
        <2>5. e.log.od = EvictIfOverCap(PutLast(Accessed(log, DedupeTtl, now).od, pair, em2[pair], em2[pair]),
                                        DedupeCap)
            BY <1>1, <2>1, <2>2, <2>4
        <2>6. \/ ~(pair \in DOMAIN em)
              \/ now - em[pair] >= DedupeWindow
              \/ \A x \in ItemsOf(Accessed(log, DedupeTtl, now).od) : x.key # pair
            <3>1. CASE HasKey(a.od, pair)
                <4>1. em[pair] \in Nat /\ last = em[pair] /\ ~(now - last < DedupeWindow)
                    BY <1>5, <1>7, <3>1 DEF LogInv
                <4>2. DedupeWindow \in Nat
                    BY RateLimiterAssumption
                <4> QED BY <4>1, <4>2
            <3>2. CASE ~HasKey(a.od, pair)
                BY <1>1, <1>5, <3>2
            <3> QED BY <3>1, <3>2
        <2> QED BY <1>2, <2>2, <2>4, <2>5, <2>6 DEF EmitEffect
    <1> QED BY <1>6, <1>7

\* A line written or suppressed keeps the invariant of the log.
LEMMA EmitKeeps ==
    ASSUME NEW log, NEW em, NEW t \in Nat, LogInv(log, em, t), NEW pair \in LogPair,
           NEW now \in 0..t, NEW log2, NEW em2, EmitEffect(log, em, pair, now, t, log2, em2)
    PROVE  LogInv(log2, em2, t)
    <1>1. PICK v, od : v = em2[pair] /\ od = log2.od
        OBVIOUS
    <1>2. /\ log2.count \in 0..(SweepEvery - 1)
          /\ DOMAIN em2 = DOMAIN em \cup {pair}
          /\ v \in 0..t
          /\ \A p \in DOMAIN em : p # pair => em2[p] = em[p]
          /\ od = EvictIfOverCap(PutLast(Accessed(log, DedupeTtl, now).od, pair, v, v), DedupeCap)
        BY <1>1 DEF EmitEffect
    <1>3. /\ log.od \in Seq(LogItem) /\ Unique(log.od) /\ log.count \in Nat
          /\ DedupeCap \in Nat /\ DedupeTtl \in Nat
        BY RateLimiterAssumption DEF LogInv
    <1>4. PICK it : it = [key |-> pair, value |-> v, stamp |-> v]
        OBVIOUS
    <1>5. it \in LogItem /\ it.key = pair /\ it.value = v /\ it.stamp = v
        BY <1>2, <1>4 DEF LogItem
    <1>6. od \in Seq(LogItem) /\ Unique(od) /\ Len(od) <= DedupeCap
          /\ ItemsOf(od) \subseteq {x \in ItemsOf(log.od) : x.key # pair} \cup {it}
        BY <1>2, <1>3, <1>4, <1>5, StoreWritten
    <1>7. \A x \in ItemsOf(log.od) : x.key \in DOMAIN em /\ x.value = em[x.key] /\ x.stamp = em[x.key]
        BY DEF LogInv
    <1>8. \A x \in ItemsOf(od) : x.key \in DOMAIN em2 /\ x.value = em2[x.key] /\ x.stamp = em2[x.key]
        <2> TAKE x \in ItemsOf(od)
        <2>1. CASE x = it
            BY <1>1, <1>2, <1>5, <2>1
        <2>2. CASE x \in ItemsOf(log.od) /\ x.key # pair
            BY <1>2, <1>7, <2>2
        <2> QED BY <1>6, <2>1, <2>2
    <1>9. IsFiniteSet(DOMAIN em) /\ IsFiniteSet(DOMAIN em2)
          /\ Cardinality(DOMAIN em) <= Cardinality(DOMAIN em2)
        <2>1. IsFiniteSet(DOMAIN em)
            BY DEF LogInv
        <2>2. IsFiniteSet(DOMAIN em2)
            BY <1>2, <2>1, FS_AddElement
        <2>3. DOMAIN em \in SUBSET DOMAIN em2
            BY <1>2
        <2> QED BY <2>1, <2>2, <2>3, FS_Subset
    <1>10. \A p \in DOMAIN em2 : em2[p] \in 0..t
        BY <1>1, <1>2 DEF LogInv
    <1>11. ASSUME Cardinality(DOMAIN em2) <= DedupeCap, NEW p \in DOMAIN em2,
                  \A x \in ItemsOf(od) : x.key # p
           PROVE  em2[p] + DedupeTtl < t
        <2>1. /\ it \in ItemsOf(od)
              /\ \A x \in ItemsOf(log.od) :
                    x.key # pair /\ x \notin ItemsOf(od) => ~(x.stamp >= now - DedupeTtl)
            <3>1. pair \in DOMAIN em2 /\ \A x \in ItemsOf(log.od) : x.key \in DOMAIN em2
                BY <1>2, <1>7
            <3> QED BY <1>2, <1>3, <1>4, <1>5, <1>9, <1>11, <3>1, StoreKept
        <2>2. p # pair
            BY <1>5, <1>11, <2>1
        <2>3. p \in DOMAIN em /\ em2[p] = em[p] /\ em[p] \in Nat
            BY <1>2, <2>2 DEF LogInv
        <2>4. CASE \A x \in ItemsOf(log.od) : x.key # p
            <3>1. Cardinality(DOMAIN em) <= DedupeCap
                <4>1. Cardinality(DOMAIN em) \in Nat /\ Cardinality(DOMAIN em2) \in Nat
                    BY <1>9, FS_CardinalityType
                <4> QED BY <1>3, <1>9, <1>11, <4>1
            <3> QED BY <2>3, <2>4, <3>1 DEF LogInv
        <2>5. CASE \E x \in ItemsOf(log.od) : x.key = p
            <3>1. PICK x \in ItemsOf(log.od) : x.key = p
                BY <2>5
            <3>2. x.stamp = em[p] /\ x \notin ItemsOf(od)
                BY <1>7, <1>11, <3>1
            <3>3. ~(em[p] >= now - DedupeTtl)
                BY <2>1, <2>2, <3>1, <3>2
            <3> QED BY <1>3, <2>3, <3>3
        <2> QED BY <2>4, <2>5
    <1>12. LogInv(log2, em2, t)
        BY <1>1, <1>2, <1>6, <1>8, <1>9, <1>10, <1>11 DEF LogInv
    <1> QED BY <1>12

\* Two lines for one pair are a window apart.
LEMMA EmitSpaced ==
    ASSUME NEW log, NEW em, NEW t \in Nat, LogInv(log, em, t), NEW pair \in LogPair,
           NEW now \in 0..t, t <= now + ClockSkew,
           NEW log2, NEW em2, EmitEffect(log, em, pair, now, t, log2, em2),
           DedupeCap >= Cardinality(DOMAIN em2), DedupeTtl >= DedupeWindow + ClockSkew,
           NEW p \in DOMAIN em, em2[p] # em[p]
    PROVE  em2[p] - em[p] >= DedupeWindow
    <1>1. PICK a : a = Accessed(log, DedupeTtl, now)
        OBVIOUS
    <1>2. /\ DOMAIN em2 = DOMAIN em \cup {pair}
          /\ \A q \in DOMAIN em : q # pair => em2[q] = em[q]
        BY DEF EmitEffect
    <1>3. p = pair
        BY <1>2
    <1>4. /\ em2[p] = now
          /\ \/ now - em[p] >= DedupeWindow
             \/ \A x \in ItemsOf(a.od) : x.key # p
        BY <1>1, <1>3 DEF EmitEffect
    <1>5. DedupeWindow \in Nat /\ DedupeTtl \in Nat /\ DedupeCap \in Nat /\ ClockSkew \in Nat /\ em[p] \in Nat
        BY RateLimiterAssumption DEF LogInv
    <1>6. CASE \A x \in ItemsOf(a.od) : x.key # p
        <2>1. \A x \in ItemsOf(log.od) : x \notin ItemsOf(a.od) => ~(x.stamp >= now - DedupeTtl)
            <3>1. log.od \in Seq(LogItem) /\ Unique(log.od) /\ log.count \in Nat
                BY RateLimiterAssumption DEF LogInv
            <3> QED BY <1>1, <3>1, AccessedFacts
        <2>2. CASE \E x \in ItemsOf(log.od) : x.key = p
            <3>1. PICK x \in ItemsOf(log.od) : x.key = p
                BY <2>2
            <3>2. x.stamp = em[p] /\ ~(x.stamp >= now - DedupeTtl)
                BY <1>6, <2>1, <3>1 DEF LogInv
            <3> QED BY <1>4, <1>5, <3>2
        <2>3. CASE \A x \in ItemsOf(log.od) : x.key # p
            <3>1. Cardinality(DOMAIN em) <= DedupeCap
                <4>1. DOMAIN em2 = DOMAIN em
                    BY <1>2, <1>3
                <4>2. Cardinality(DOMAIN em) \in Nat
                    BY FS_CardinalityType DEF LogInv
                <4> QED BY <1>5, <4>1, <4>2
            <3>2. em[p] + DedupeTtl < t
                BY <2>3, <3>1 DEF LogInv
            <3> QED BY <1>4, <1>5, <3>2
        <2> QED BY <2>2, <2>3
    <1> QED BY <1>4, <1>6

---------------------------------------------------------------------------
(***************************************************************************)
(* The invariant.                                                          *)
(***************************************************************************)
IInv ==
    /\ clock \in Nat
    /\ LimiterInv(limiter, ledger, clock)
    /\ LogInv(denyLog, emitted, clock)

\* The states between the three consultations of a call.
Consults(start, sid, ip, now, c0, c1, c2, c3) ==
    /\ c0 = [lim |-> limiter, ledger |-> ledger, denied |-> Null]
    /\ c1 = Consult(c0, "ip_session_create", IF start THEN ip ELSE Null, now)
    /\ c2 = Consult(c1, "session", sid, now)
    /\ c3 = Consult(c2, "ip", ip, now)

\* A call consults ip_session_create, then session, then ip.
LEMMA CallToolConsults ==
    ASSUME NEW start \in BOOLEAN, NEW sid \in Session \cup {Null}, NEW ip \in Ip \cup {Null},
           NEW now \in 0..clock, CallTool(start, sid, ip, now)
    PROVE  \E c0, c1, c2, c3 :
              /\ Consults(start, sid, ip, now, c0, c1, c2, c3)
              /\ limiter' = c3.lim /\ ledger' = c3.ledger
              /\ c3.denied \in Axis \cup {Null}
              /\ IF c3.denied = Null THEN UNCHANGED <<denyLog, emitted>>
                 ELSE EmitDenyWarn(<<c3.denied, IF c3.denied = "session" THEN sid ELSE ip>>, now)
    <1>1. PICK c0, c1, c2, c3 : Consults(start, sid, ip, now, c0, c1, c2, c3)
        BY DEF Consults
    <1>2. OnCallTool(start, sid, ip, now) = c3
        BY <1>1 DEF OnCallTool, Consults
    <1>3. ASSUME NEW c, c.denied \in Axis \cup {Null}, NEW axis \in Axis, NEW key
          PROVE  Consult(c, axis, key, now).denied \in Axis \cup {Null}
        BY <1>3 DEF Consult
    <1>4. c0.denied \in Axis \cup {Null}
        BY <1>1 DEF Consults
    <1>5. c1.denied \in Axis \cup {Null}
        BY <1>1, <1>3, <1>4 DEF Consults, Axis, IpAxis
    <1>6. c2.denied \in Axis \cup {Null}
        BY <1>1, <1>3, <1>5 DEF Consults, Axis, IpAxis
    <1>7. c3.denied \in Axis \cup {Null}
        BY <1>1, <1>3, <1>6 DEF Consults, Axis, IpAxis
    <1> QED BY <1>1, <1>2, <1>7 DEF CallTool

\* Each of them keeps the invariant of every axis.
LEMMA ConsultsKeep ==
    ASSUME IInv, NEW start \in BOOLEAN, NEW sid \in Session \cup {Null}, NEW ip \in Ip \cup {Null},
           NEW now \in 0..clock, clock <= now + ClockSkew,
           NEW c0, NEW c1, NEW c2, NEW c3, Consults(start, sid, ip, now, c0, c1, c2, c3)
    PROVE  /\ LimiterInv(c0.lim, c0.ledger, clock)
           /\ LimiterInv(c1.lim, c1.ledger, clock)
           /\ LimiterInv(c2.lim, c2.ledger, clock)
           /\ LimiterInv(c3.lim, c3.ledger, clock)
    <1>1. PICK t : t = clock
        OBVIOUS
    <1>2. t \in Nat /\ now \in 0..t /\ t <= now + ClockSkew
        BY <1>1 DEF IInv
    <1>3. /\ {"ip_session_create", "session", "ip"} \subseteq Axis
          /\ (IF start THEN ip ELSE Null) \in KeyOf("ip_session_create") \cup {Null}
          /\ sid \in KeyOf("session") \cup {Null}
          /\ ip \in KeyOf("ip") \cup {Null}
        BY DEF Axis, IpAxis, KeyOf
    <1>4. LimiterInv(c0.lim, c0.ledger, t)
        BY <1>1 DEF IInv, Consults
    <1>5. LimiterInv(c1.lim, c1.ledger, t)
        BY <1>2, <1>3, <1>4, ConsultKeeps DEF Consults
    <1>6. LimiterInv(c2.lim, c2.ledger, t)
        BY <1>2, <1>3, <1>5, ConsultKeeps DEF Consults
    <1>7. LimiterInv(c3.lim, c3.ledger, t)
        BY <1>2, <1>3, <1>6, ConsultKeeps DEF Consults
    <1> QED BY <1>1, <1>4, <1>5, <1>6, <1>7

\* Nothing is kept, recorded or written at first.
LEMMA InitIInv == Init => IInv
    <1> SUFFICES ASSUME Init PROVE IInv
        OBVIOUS
    <1>1. clock = 0 /\ clock \in Nat
        BY DEF Init
    <1>2. \A T : <<>> \in Seq(T) /\ ItemsOf(<<>>) = {} /\ Unique(<<>>) /\ Len(<<>>) = 0
        BY DEF ItemsOf, Unique
    <1>3. 0 \in 0..(SweepEvery - 1) /\ IpStoreCap \in Nat /\ DedupeCap \in Nat
        BY RateLimiterAssumption
    <1>4. DOMAIN limiter.store = IpAxis
        BY DEF Init
    <1>5. ASSUME NEW axis \in Axis
          PROVE  AxisInv(axis, limiter, ledger, clock)
        <2>1. PICK v, h : v = View(limiter, axis) /\ h = Ledger(ledger, axis)
            OBVIOUS
        <2>2. DOMAIN h = {}
            BY <2>1 DEF Ledger, Init
        <2>3. Shape(axis, v, clock) /\ \A k, b : ~Holds(axis, v, k, b)
            <3>1. CASE axis = "session"
                <4>1. v = <<>>
                    BY <2>1, <3>1 DEF View, Init
                <4>2. DOMAIN v = {} /\ v = [x \in {} |-> x]
                    BY <4>1
                <4> QED BY <3>1, <4>2 DEF Shape, SessionShape, Holds
            <3>2. CASE axis # "session"
                <4>1. v.od = <<>> /\ v.count = 0
                    BY <2>1, <3>2 DEF View, Init, EmptyStore, Axis
                <4> QED BY <1>2, <1>3, <3>2, <4>1 DEF Shape, StoreShape, Holds
            <3> QED BY <3>1, <3>2
        <2>4. Books(axis, v, h, clock)
            BY <2>2, <2>3 DEF Books, BooksBalance
        <2>5. IsFiniteSet(DOMAIN h)
            BY <2>2, FS_EmptySet
        <2> QED BY <2>1, <2>3, <2>4, <2>5 DEF AxisInv
    <1>6. LogInv(denyLog, emitted, clock)
        <2>1. denyLog.od = <<>> /\ denyLog.count = 0 /\ DOMAIN emitted = {}
            BY DEF Init, EmptyStore
        <2>2. IsFiniteSet(DOMAIN emitted)
            BY <2>1, FS_EmptySet
        <2> QED BY <1>2, <1>3, <2>1, <2>2 DEF LogInv
    <1> QED BY <1>1, <1>4, <1>5, <1>6 DEF IInv, LimiterInv

\* Time passing keeps it.
LEMMA TickIInv ==
    ASSUME IInv, Tick
    PROVE  IInv'
    <1>1. PICK t : t = clock
        OBVIOUS
    <1> DEFINE u == t + 1
    <1>2. t \in Nat /\ u \in Nat /\ clock' = u /\ t <= u
        BY <1>1 DEF IInv, Tick
    <1>3. UNCHANGED <<limiter, denyLog, ledger, emitted>>
        BY DEF Tick
    <1>4. \A x : x \in 0..t => x \in 0..u
        BY <1>2
    <1>5. ASSUME NEW axis \in Axis
          PROVE  AxisInv(axis, limiter, ledger, u)
        <2>1. PICK v, h : v = View(limiter, axis) /\ h = Ledger(ledger, axis)
            OBVIOUS
        <2>2. Shape(axis, v, t) /\ IsFiniteSet(DOMAIN h) /\ Books(axis, v, h, t)
            BY <1>1, <2>1 DEF IInv, LimiterInv, AxisInv
        <2>3. Books(axis, v, h, u)
            BY <1>2, <2>2, BooksLater
        <2> HIDE DEF u
        <2>4. \A b, other : IsBucket(other, b, t) => IsBucket(other, b, u)
            BY <1>4 DEF IsBucket
        <2>5. SessionShape(v, t) => SessionShape(v, u)
            BY <1>4 DEF SessionShape
        <2>6. StoreShape(axis, v, t) => StoreShape(axis, v, u)
            BY <2>4 DEF StoreShape
        <2> QED BY <2>1, <2>2, <2>3, <2>5, <2>6 DEF AxisInv, Shape
    <1>6. LimiterInv(limiter, ledger, u)
        BY <1>5 DEF IInv, LimiterInv
    <1>7. LogInv(denyLog, emitted, u)
        <2> HIDE DEF u
        <2>1. LogInv(denyLog, emitted, t)
            BY <1>1 DEF IInv
        <2>2. \A p \in DOMAIN emitted :
                 emitted[p] \in 0..u /\ (emitted[p] + DedupeTtl < t => emitted[p] + DedupeTtl < u)
            <3>1. DedupeTtl \in Nat
                BY RateLimiterAssumption
            <3> QED BY <1>2, <2>1, <3>1 DEF LogInv
        <2> QED BY <2>1, <2>2 DEF LogInv
    <1> QED BY <1>2, <1>3, <1>6, <1>7 DEF IInv

\* A tool call, whichever axes it consults and whichever denies it, keeps it.
LEMMA CallToolIInv ==
    ASSUME IInv, NEW start \in BOOLEAN, NEW sid \in Session \cup {Null}, NEW ip \in Ip \cup {Null},
           NEW now \in 0..clock, CallTool(start, sid, ip, now)
    PROVE  IInv'
    <1>1. clock \in Nat /\ clock' = clock /\ clock <= now + ClockSkew
        BY DEF IInv, CallTool, Readings
    <1>2. PICK c0, c1, c2, c3 :
              /\ Consults(start, sid, ip, now, c0, c1, c2, c3)
              /\ limiter' = c3.lim /\ ledger' = c3.ledger
              /\ c3.denied \in Axis \cup {Null}
              /\ IF c3.denied = Null THEN UNCHANGED <<denyLog, emitted>>
                 ELSE EmitDenyWarn(<<c3.denied, IF c3.denied = "session" THEN sid ELSE ip>>, now)
        BY CallToolConsults
    <1>3. LimiterInv(c3.lim, c3.ledger, clock)
        BY <1>1, <1>2, ConsultsKeep
    <1>4. LogInv(denyLog', emitted', clock)
        <2>1. CASE c3.denied = Null
            BY <1>2, <2>1 DEF IInv
        <2>2. CASE c3.denied # Null
            <3>1. PICK pair : pair = <<c3.denied, IF c3.denied = "session" THEN sid ELSE ip>>
                OBVIOUS
            <3>2. pair \in LogPair
                BY <1>2, <2>2, <3>1 DEF LogPair
            <3>3. PICK e : e = ShouldEmit(denyLog, pair, now)
                OBVIOUS
            <3>4. denyLog' = e.log /\ emitted' = IF e.emit THEN With(emitted, pair, now) ELSE emitted
                BY <1>2, <2>2, <3>1, <3>3 DEF EmitDenyWarn
            <3>5. PICK em2 : em2 = IF e.emit THEN With(emitted, pair, now) ELSE emitted
                OBVIOUS
            <3>6. EmitEffect(denyLog, emitted, pair, now, clock, e.log, em2)
                BY <1>1, <3>2, <3>3, <3>5, ShouldEmitEffect DEF IInv
            <3>7. LogInv(e.log, em2, clock)
                BY <1>1, <3>2, <3>6, EmitKeeps DEF IInv
            <3> QED BY <3>4, <3>5, <3>7
        <2> QED BY <2>1, <2>2
    <1>5. PICK t : t = clock
        OBVIOUS
    <1>6. LimiterInv(limiter', ledger', t) /\ LogInv(denyLog', emitted', t) /\ clock' = t
        BY <1>1, <1>2, <1>3, <1>4, <1>5
    <1> QED BY <1>1, <1>5, <1>6 DEF IInv

\* Every step keeps it.
LEMMA NextIInv == IInv /\ [Next]_vars => IInv'
    <1> SUFFICES ASSUME IInv, [Next]_vars PROVE IInv'
        OBVIOUS
    <1>1. CASE Tick
        BY <1>1, TickIInv
    <1>2. CASE \E start \in BOOLEAN, sid \in Session \cup {Null}, ip \in Ip \cup {Null}, now \in 0..clock :
                  CallTool(start, sid, ip, now)
        BY <1>2, CallToolIInv
    <1>3. CASE UNCHANGED vars
        BY <1>3 DEF IInv, vars, LimiterInv, LogInv, AxisInv
    <1> QED BY <1>1, <1>2, <1>3 DEF Next

\* The invariant holds of every behaviour.
THEOREM Invariant == Spec => []IInv
    BY InitIInv, NextIInv, PTL DEF Spec

---------------------------------------------------------------------------
\* Buckets never hold less than nothing or more than their burst, and were
\* never refilled later than now: what the min and the clamp of _refill are for.
THEOREM TypeCorrect == Spec => []TypeOK
    <1>1. IInv => TypeOK
        <2> SUFFICES ASSUME IInv PROVE TypeOK
            OBVIOUS
        <2>1. SessionShape(limiter.session, clock)
            <3>1. "session" \in Axis
                BY DEF Axis
            <3> QED BY <3>1 DEF IInv, LimiterInv, AxisInv, Shape, View
        <2>2. ASSUME NEW axis \in IpAxis
              PROVE  /\ limiter.store[axis].count \in 0..(SweepEvery - 1)
                     /\ \A i \in DOMAIN limiter.store[axis].od :
                           /\ limiter.store[axis].od[i].key \in Ip
                           /\ limiter.store[axis].od[i].value \in Bucket(axis)
            <3>1. axis \in Axis /\ axis # "session"
                BY DEF Axis, IpAxis
            <3>2. PICK store : store = limiter.store[axis]
                OBVIOUS
            <3>3. StoreShape(axis, store, clock)
                BY <3>1, <3>2 DEF IInv, LimiterInv, AxisInv, Shape, View
            <3>4. \A i \in DOMAIN store.od : store.od[i].key \in Ip /\ store.od[i].value \in Bucket(axis)
                <4> TAKE i \in DOMAIN store.od
                <4>1. store.od[i] \in ItemsOf(store.od)
                    BY DEF ItemsOf
                <4>2. store.od[i] \in Item
                    BY <3>3 DEF StoreShape
                <4>3. IsBucket(axis, store.od[i].value, clock)
                    BY <3>3, <4>1 DEF StoreShape
                <4> QED BY <4>2, <4>3 DEF Item, IsBucket, Bucket
            <3>5. store.count \in 0..(SweepEvery - 1)
                BY <3>3 DEF StoreShape
            <3> QED BY <3>2, <3>4, <3>5
        <2>3. /\ DOMAIN limiter.session \subseteq Session
              /\ limiter.session \in [DOMAIN limiter.session -> Bucket("session")]
            BY <2>1 DEF SessionShape, Bucket
        <2>4. clock \in Nat
            BY DEF IInv
        <2> QED BY <2>2, <2>3, <2>4 DEF TypeOK
    <1> QED BY <1>1, Invariant, PTL

\* The LRU stores and the dedupe cache hold one entry per key and no more than
\* their cap: what _evict_if_over_cap is for.
THEOREM StoresAreBounded == Spec => []StoresBounded
    <1>1. IInv => StoresBounded
        <2> SUFFICES ASSUME IInv PROVE StoresBounded
            OBVIOUS
        <2>1. ASSUME NEW axis \in IpAxis
              PROVE  Bounded(limiter.store[axis].od, IpStoreCap)
            <3>1. axis \in Axis /\ axis # "session"
                BY DEF Axis, IpAxis
            <3> QED BY <3>1 DEF IInv, LimiterInv, AxisInv, Shape, View, StoreShape, Bounded, Unique
        <2>2. Bounded(denyLog.od, DedupeCap)
            BY DEF IInv, LogInv, Bounded, Unique
        <2> QED BY <2>1, <2>2 DEF StoresBounded
    <1> QED BY <1>1, Invariant, PTL

\* The keys of the history of an axis are those the axis has seen.
LEMMA LedgerKeys ==
    ASSUME NEW axis \in Axis
    PROVE  /\ DOMAIN Ledger(ledger, axis) = Seen(axis)
           /\ \A k \in Seen(axis) : Ledger(ledger, axis)[k] = ledger[<<axis, k>>]
    BY DEF Ledger, Seen

\* An axis whose books balance grants no more than its rate.
LEMMA RoomyBounded ==
    ASSUME IInv, NEW axis \in Axis, Roomy(axis, Seen(axis))
    PROVE  RateBounded(axis)
    <1>1. PICK v, h, t : v = View(limiter, axis) /\ h = Ledger(ledger, axis) /\ t = clock
        OBVIOUS
    <1>2. Shape(axis, v, t) /\ Books(axis, v, h, t) /\ t \in Nat
        BY <1>1 DEF IInv, LimiterInv, AxisInv
    <1>3. DOMAIN h = Seen(axis) /\ \A k \in Seen(axis) : h[k] = ledger[<<axis, k>>]
        BY <1>1, LedgerKeys
    <1>4. \A k \in DOMAIN h : h[k].granted * Cost <= Burst[axis] + Rate[axis] * (t - h[k].since)
        BY <1>2, <1>3, BooksBound
    <1> QED BY <1>1, <1>3, <1>4 DEF RateBounded, Seen

\* Since its first call, a session is granted no more than one burst and what
\* the rate adds up to, whatever the clock readings are: what TokenBucket,
\* _refill and its clamp of backward jumps are for.
THEOREM SessionRateHolds == Spec => []SessionRateBounded
    <1>1. IInv => SessionRateBounded
        <2>1. "session" \in Axis /\ Roomy("session", Seen("session"))
            BY DEF Axis, Roomy
        <2> QED BY <2>1, RoomyBounded DEF SessionRateBounded
    <1> QED BY <1>1, Invariant, PTL

\* An address is granted no more either, although the idle sweep forgets its
\* bucket: if an idle bucket would be full by then and none need be evicted.
THEOREM IpRateHolds == Spec => []IpRateBounded
    <1>1. IInv => IpRateBounded
        <2> SUFFICES ASSUME IInv, NEW axis \in IpAxis,
                            (IdleTtl - ClockSkew) * Rate[axis] >= Burst[axis],
                            Cardinality(Seen(axis)) <= IpStoreCap
                     PROVE  RateBounded(axis)
            BY DEF IpRateBounded
        <2>1. axis \in Axis
            BY DEF Axis
        <2>2. IsFiniteSet(Seen(axis))
            BY <2>1, LedgerKeys DEF IInv, LimiterInv, AxisInv
        <2>3. Roomy(axis, Seen(axis))
            BY <2>2 DEF Roomy
        <2> QED BY <2>1, <2>3, RoomyBounded
    <1> QED BY <1>1, Invariant, PTL

---------------------------------------------------------------------------
\* A consultation that denies a key a second time in a row comes before what
\* the first one promised.
LEMMA ConsultPromise ==
    ASSUME NEW c, NEW t \in Nat, LimiterInv(c.lim, c.ledger, t), NEW axis \in Axis,
           ClockSkew = 0, Burst[axis] >= Cost,
           NEW key \in KeyOf(axis) \cup {Null}, NEW d, d = Consult(c, axis, key, t),
           NEW k, k \in DOMAIN Ledger(c.ledger, axis), Ledger(c.ledger, axis)[k].promise # Null,
           Ledger(d.ledger, axis)[k].promise \notin {Null, Ledger(c.ledger, axis)[k].promise}
    PROVE  (t - Ledger(c.ledger, axis)[k].promise.at) * Rate[axis] < Ledger(c.ledger, axis)[k].promise.deficit
    <1>1. PICK h, g, v, w : /\ h = Ledger(c.ledger, axis) /\ g = Ledger(d.ledger, axis)
                            /\ v = View(c.lim, axis) /\ w = View(d.lim, axis)
        OBVIOUS
    <1>2. Books(axis, v, h, t)
        BY <1>1 DEF LimiterInv, AxisInv
    <1>3. d # c
        BY <1>1
    <1>4. PICK b0, r : /\ r.allowed = Consume(axis, b0, t).allowed
                       /\ Effect(axis, v, w, key, b0, t, t)
                       /\ g = Recorded(h, key, r, t)
        <2>1. t \in 0..t
            OBVIOUS
        <2> QED BY <1>1, <1>3, <2>1, ConsultEffect
    <1>5. k = key
        <2>1. g = With(h, key, Outcome(Entry(h, key, t), r, t))
            BY <1>4, RecordedOutcome
        <2>2. k \in DOMAIN h /\ k # key => g[k] = h[k]
            BY <2>1 DEF With
        <2> QED BY <1>1, <2>2
    <1>6. key \in DOMAIN h /\ h[key].promise # Null /\ Recorded(h, key, r, t)[key].promise # Null
        BY <1>1, <1>4, <1>5
    <1>7. (t - h[key].promise.at) * Rate[axis] < h[key].promise.deficit
        BY <1>2, <1>4, <1>6, EffectKeepsPromise
    <1> QED BY <1>1, <1>5, <1>7

\* A consultation of an axis leaves the history of the others as it was.
OthersKept(c, d, axis) ==
    \A other \in Axis : other # axis => Ledger(d.ledger, other) = Ledger(c.ledger, other)
LEMMA ConsultKeepsOthers ==
    ASSUME NEW c, NEW t \in Nat, LimiterInv(c.lim, c.ledger, t), NEW axis \in Axis,
           NEW key \in KeyOf(axis) \cup {Null}, NEW now \in 0..t,
           NEW d, d = Consult(c, axis, key, now)
    PROVE  OthersKept(c, d, axis)
    <1>1. CASE d = c
        BY <1>1 DEF OthersKept
    <1>2. CASE d # c
        <2>1. /\ DOMAIN d.lim.store = IpAxis
              /\ Shape(axis, View(d.lim, axis), t)
              /\ \A other \in Axis : other # axis =>
                    /\ View(d.lim, other) = View(c.lim, other)
                    /\ Ledger(d.ledger, other) = Ledger(c.ledger, other)
            BY <1>2, ConsultEffect
        <2> QED BY <2>1 DEF OthersKept
    <1> QED BY <1>1, <1>2

\* The history forgets no key.
LEMMA ConsultGrows ==
    ASSUME NEW c, NEW axis, NEW key, NEW now
    PROVE  DOMAIN c.ledger \subseteq DOMAIN Consult(c, axis, key, now).ledger
    BY DEF Consult, Recorded, With

\* A client that waits retry_after_ms, with no call granted meanwhile, is not
\* denied again on that axis: what retry_after_ms of a denial is computed for.
THEOREM RetryAfterHolds == Spec => RetryAfterSuffices
    <1>1. ASSUME IInv, Next, NEW axis \in Axis, NEW key \in KeyOf(axis),
                 ClockSkew = 0, Burst[axis] >= Cost,
                 <<axis, key>> \in DOMAIN ledger, ledger[<<axis, key>>].promise # Null,
                 ledger'[<<axis, key>>].promise \notin {Null, ledger[<<axis, key>>].promise}
          PROVE  (clock - ledger[<<axis, key>>].promise.at) * Rate[axis]
                    < ledger[<<axis, key>>].promise.deficit
        <2>1. ledger' # ledger
            BY <1>1
        <2>2. PICK start, sid, ip, now :
                  /\ start \in BOOLEAN /\ sid \in Session \cup {Null} /\ ip \in Ip \cup {Null}
                  /\ now \in 0..clock /\ CallTool(start, sid, ip, now)
            BY <1>1, <2>1 DEF Next, Tick
        <2>3. PICK t : t = clock
            OBVIOUS
        <2>4. clock <= now + ClockSkew /\ t \in Nat /\ now = t
            BY <1>1, <2>2, <2>3 DEF CallTool, Readings, IInv
        <2>5. PICK c0, c1, c2, c3 :
                  /\ Consults(start, sid, ip, now, c0, c1, c2, c3)
                  /\ limiter' = c3.lim /\ ledger' = c3.ledger
                  /\ c3.denied \in Axis \cup {Null}
                  /\ IF c3.denied = Null THEN UNCHANGED <<denyLog, emitted>>
                     ELSE EmitDenyWarn(<<c3.denied, IF c3.denied = "session" THEN sid ELSE ip>>, now)
            BY <2>2, CallToolConsults
        <2>6. /\ LimiterInv(c0.lim, c0.ledger, t) /\ LimiterInv(c1.lim, c1.ledger, t)
              /\ LimiterInv(c2.lim, c2.ledger, t)
            BY <1>1, <2>2, <2>3, <2>4, <2>5, ConsultsKeep
        <2>7. /\ {"ip_session_create", "session", "ip"} \subseteq Axis
              /\ axis \in {"ip_session_create", "session", "ip"}
            BY DEF Axis, IpAxis
        <2>8. PICK a0 : a0 = IF start THEN ip ELSE Null
            OBVIOUS
        <2>9. /\ a0 \in KeyOf("ip_session_create") \cup {Null}
              /\ sid \in KeyOf("session") \cup {Null}
              /\ ip \in KeyOf("ip") \cup {Null}
            BY <2>2, <2>8 DEF KeyOf
        <2>10. /\ c1 = Consult(c0, "ip_session_create", a0, t)
               /\ c2 = Consult(c1, "session", sid, t)
               /\ c3 = Consult(c2, "ip", ip, t)
               /\ c0.ledger = ledger
            BY <2>4, <2>5, <2>8 DEF Consults
        <2>11. t \in 0..t
            BY <2>4
        <2>12. OthersKept(c0, c1, "ip_session_create")
            BY <2>4, <2>6, <2>7, <2>9, <2>10, <2>11, ConsultKeepsOthers
        <2>13. OthersKept(c1, c2, "session")
            BY <2>4, <2>6, <2>7, <2>9, <2>10, <2>11, ConsultKeepsOthers
        <2>14. OthersKept(c2, c3, "ip")
            BY <2>4, <2>6, <2>7, <2>9, <2>10, <2>11, ConsultKeepsOthers
        <2>15. PICK h, g : h = Ledger(c0.ledger, axis) /\ g = Ledger(c3.ledger, axis)
            OBVIOUS
        <2>16. key \in DOMAIN h /\ h[key] = ledger[<<axis, key>>]
            BY <1>1, <2>10, <2>15 DEF Ledger
        <2>17. g[key].promise \notin {Null, h[key].promise} /\ h[key].promise # Null
            <3>1. <<axis, key>> \in DOMAIN c3.ledger
                <4>1. /\ DOMAIN c0.ledger \subseteq DOMAIN c1.ledger
                      /\ DOMAIN c1.ledger \subseteq DOMAIN c2.ledger
                      /\ DOMAIN c2.ledger \subseteq DOMAIN c3.ledger
                    BY <2>10, ConsultGrows
                <4> QED BY <1>1, <2>10, <4>1
            <3>2. g[key] = c3.ledger[<<axis, key>>]
                BY <2>15, <3>1 DEF Ledger
            <3> QED BY <1>1, <2>5, <2>16, <3>2
        <2>18. (t - h[key].promise.at) * Rate[axis] < h[key].promise.deficit
            <3>1. CASE axis = "ip_session_create"
                <4>1. g = Ledger(c1.ledger, axis)
                    BY <2>13, <2>14, <2>15, <3>1 DEF OthersKept
                <4> QED BY <1>1, <2>4, <2>6, <2>9, <2>10, <2>15, <2>16, <2>17, <3>1, <4>1, ConsultPromise, ZenonT(60)
            <3>2. CASE axis = "session"
                <4>1. g = Ledger(c2.ledger, axis) /\ h = Ledger(c1.ledger, axis)
                    BY <2>12, <2>14, <2>15, <3>2 DEF OthersKept
                <4> QED BY <1>1, <2>4, <2>6, <2>9, <2>10, <2>15, <2>16, <2>17, <3>2, <4>1, ConsultPromise, SMTT(60)
            <3>3. CASE axis = "ip"
                <4>1. h = Ledger(c2.ledger, axis)
                    BY <2>12, <2>13, <2>15, <3>3 DEF OthersKept
                <4> QED BY <1>1, <2>4, <2>6, <2>9, <2>10, <2>15, <2>16, <2>17, <3>3, <4>1, ConsultPromise, SMTT(60)
            <3> QED BY <2>7, <3>1, <3>2, <3>3
        <2> QED BY <2>3, <2>16, <2>18
    <1> DEFINE A == \A axis \in Axis : \A key \in KeyOf(axis) :
                       LET p == <<axis, key>>
                       IN  /\ ClockSkew = 0 /\ Burst[axis] >= Cost
                           /\ p \in DOMAIN ledger /\ ledger[p].promise # Null
                           /\ ledger'[p].promise \notin {Null, ledger[p].promise}
                           => (clock - ledger[p].promise.at) * Rate[axis] < ledger[p].promise.deficit
    <1>2. IInv /\ [Next]_vars => [A]_vars
        BY <1>1
    <1> QED BY <1>2, Invariant, PTL DEF Spec, RetryAfterSuffices

\* Two log lines for one pair are a window apart, although entries are swept and
\* evicted: what should_emit and its dedupe window are for.
THEOREM LogLinesHold == Spec => LogLinesSpaced
    <1>1. ASSUME IInv, Next, DedupeCap >= Cardinality(DOMAIN emitted'),
                 DedupeTtl >= DedupeWindow + ClockSkew,
                 NEW p \in DOMAIN emitted, emitted'[p] # emitted[p]
          PROVE  emitted'[p] - emitted[p] >= DedupeWindow
        <2>1. emitted' # emitted
            BY <1>1
        <2>2. PICK start, sid, ip, now :
                  /\ start \in BOOLEAN /\ sid \in Session \cup {Null} /\ ip \in Ip \cup {Null}
                  /\ now \in 0..clock /\ CallTool(start, sid, ip, now)
            BY <1>1, <2>1 DEF Next, Tick
        <2>3. PICK t : t = clock
            OBVIOUS
        <2>4. t <= now + ClockSkew /\ t \in Nat /\ now \in 0..t
            BY <1>1, <2>2, <2>3 DEF CallTool, Readings, IInv
        <2>5. PICK c0, c1, c2, c3 :
                  /\ c3.denied \in Axis \cup {Null}
                  /\ IF c3.denied = Null THEN UNCHANGED <<denyLog, emitted>>
                     ELSE EmitDenyWarn(<<c3.denied, IF c3.denied = "session" THEN sid ELSE ip>>, now)
            BY <2>2, CallToolConsults
        <2>6. PICK pair : pair = <<c3.denied, IF c3.denied = "session" THEN sid ELSE ip>>
            OBVIOUS
        <2>7. c3.denied # Null
            BY <2>1, <2>5
        <2>8. pair \in LogPair
            BY <2>2, <2>5, <2>6, <2>7 DEF LogPair
        <2>9. PICK e : e = ShouldEmit(denyLog, pair, now)
            OBVIOUS
        <2>10. PICK em2 : em2 = IF e.emit THEN With(emitted, pair, now) ELSE emitted
            OBVIOUS
        <2>11. emitted' = em2
            BY <2>5, <2>6, <2>7, <2>9, <2>10 DEF EmitDenyWarn
        <2>12. LogInv(denyLog, emitted, t)
            BY <1>1, <2>3 DEF IInv
        <2>13. EmitEffect(denyLog, emitted, pair, now, t, e.log, em2)
            BY <2>4, <2>8, <2>9, <2>10, <2>12, ShouldEmitEffect
        <2>14. DedupeCap >= Cardinality(DOMAIN em2) /\ em2[p] # emitted[p]
            BY <1>1, <2>11
        <2>15. em2[p] - emitted[p] >= DedupeWindow
            BY <1>1, <2>4, <2>8, <2>12, <2>13, <2>14, EmitSpaced
        <2> QED BY <2>11, <2>15
    <1> DEFINE A == DedupeCap >= Cardinality(DOMAIN emitted') /\ DedupeTtl >= DedupeWindow + ClockSkew =>
                       \A p \in DOMAIN emitted :
                          emitted'[p] # emitted[p] => emitted'[p] - emitted[p] >= DedupeWindow
    <1>2. IInv /\ [Next]_vars => [A]_vars
        BY <1>1
    <1> QED BY <1>2, Invariant, PTL DEF Spec, LogLinesSpaced
=============================================================================
