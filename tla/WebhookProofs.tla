--------------------------- MODULE WebhookProofs ---------------------------
(***************************************************************************)
(* Orders count again only when they were forgotten, none is lost without  *)
(* a cause, and the live state agrees with the table, for any events,      *)
(* payloads, size and time to live of the store, faults and times.         *)
(*                                                                         *)
(* The first half is about the store: seen keeps the entries in the order  *)
(* of their last deliveries, so that everything behind an entry came since,*)
(* and an entry can be evicted only when MaxSize others did.  The second   *)
(* half follows a key from its acceptance: somebody with it was taken, as  *)
(* a row, a save under way or one that is known to have failed.            *)
(***************************************************************************)
EXTENDS Webhook, FiniteSetTheorems, TLAPS

Entries == [id : Keys, expires : Int]
Distinct(s) == \A i, j \in 1 .. Len(s) : s[i].id = s[j].id => i = j

(* The store without the entry of an id. *)
Others(s, id) == RemoveFirstMatch(s, LAMBDA e : e.id = id)

LEMMA OthersLemma ==
    ASSUME NEW s \in Seq(Entries), Distinct(s), NEW p \in 1 .. Len(s)
    PROVE  /\ Others(s, s[p].id) \in Seq(Entries)
           /\ Len(Others(s, s[p].id)) = Len(s) - 1
           /\ \A i \in 1 .. Len(s) - 1 :
                  Others(s, s[p].id)[i] = IF i < p THEN s[i] ELSE s[i + 1]
<1> DEFINE I == {i \in 1 .. Len(s) : s[i].id = s[p].id}
<1>1. I = {p}
  BY DEF Distinct
<1>2. Min(I) = p
  BY <1>1 DEF Min
<1>3. Others(s, s[p].id) = RemoveAt(s, p)
  BY <1>1, <1>2 DEF Others, RemoveFirstMatch, SelectInSeq
<1>4. /\ RemoveAt(s, p) \in Seq(Entries)
      /\ Len(RemoveAt(s, p)) = Len(s) - 1
      /\ \A i \in 1 .. Len(s) - 1 : RemoveAt(s, p)[i] = IF i < p THEN s[i] ELSE s[i + 1]
  <2> DEFINE front == SubSeq(s, 1, p - 1)
             back == SubSeq(s, p + 1, Len(s))
  <2>1. /\ front \in Seq(Entries) /\ Len(front) = p - 1
        /\ \A i \in 1 .. p - 1 : front[i] = s[i]
    OBVIOUS
  <2>2. /\ back \in Seq(Entries) /\ Len(back) = Len(s) - p
        /\ \A i \in 1 .. Len(s) - p : back[i] = s[i + p]
    OBVIOUS
  <2>3. RemoveAt(s, p) = front \o back
    BY DEF RemoveAt
  <2> HIDE DEF front, back
  <2>4. /\ RemoveAt(s, p) \in Seq(Entries)
        /\ Len(RemoveAt(s, p)) = Len(s) - 1
    BY <2>1, <2>2, <2>3
  <2>5. ASSUME NEW i \in 1 .. Len(s) - 1
        PROVE  RemoveAt(s, p)[i] = IF i < p THEN s[i] ELSE s[i + 1]
    <3>1. CASE i < p
      BY <2>1, <2>2, <2>3, <3>1
    <3>2. CASE i >= p
      <4>1. i \in p .. Len(s) - 1 /\ i - (p - 1) \in 1 .. Len(s) - p /\ (i - (p - 1)) + p = i + 1
        BY <3>2
      <4>2. (front \o back)[i] = back[i - (p - 1)]
        BY <2>1, <2>2, <4>1
      <4> QED BY <2>2, <2>3, <3>2, <4>1, <4>2
    <3> QED BY <3>1, <3>2
  <2> QED BY <2>4, <2>5
<1> QED BY <1>3, <1>4

LEMMA AbsentLemma ==
    ASSUME NEW s \in Seq(Entries), NEW id, \A i \in 1 .. Len(s) : s[i].id # id
    PROVE  Others(s, id) = s
BY DEF Others, RemoveFirstMatch

Ids(s) == {s[i].id : i \in 1 .. Len(s)}

(* Without the entry of id the store keeps all its other entries, in their *)
(* order: f leads from a place of the one to the same entry's in the other.*)
Embeds(s, q, f, id) ==
    /\ f \in [1 .. Len(q) -> 1 .. Len(s)]
    /\ \A i \in 1 .. Len(q) : q[i] = s[f[i]] /\ s[f[i]].id # id
    /\ \A i, j \in 1 .. Len(q) : i < j => f[i] < f[j]
    /\ \A k \in 1 .. Len(s) : s[k].id # id => \E i \in 1 .. Len(q) : f[i] = k

LEMMA EmbeddingLemma ==
    ASSUME NEW s \in Seq(Entries), Distinct(s), NEW id
    PROVE  /\ Others(s, id) \in Seq(Entries)
           /\ Len(Others(s, id)) <= Len(s)
           /\ id \in Ids(s) => Len(Others(s, id)) = Len(s) - 1
           /\ \E f : Embeds(s, Others(s, id), f, id)
<1> DEFINE q == Others(s, id)
<1>1. CASE id \notin Ids(s)
  <2>1. q = s
    BY <1>1, AbsentLemma DEF Ids
  <2> DEFINE f == [i \in 1 .. Len(s) |-> i]
  <2>2. f \in [1 .. Len(q) -> 1 .. Len(s)]
    BY <2>1
  <2>3. \A i \in 1 .. Len(s) : f[i] = i /\ s[i].id # id
    BY <1>1 DEF Ids
  <2> HIDE DEF f, q
  <2>4. Embeds(s, q, f, id)
    BY <2>1, <2>2, <2>3 DEF Embeds
  <2> QED BY <1>1, <2>1, <2>4 DEF q
<1>2. CASE id \in Ids(s)
  <2>1. PICK p \in 1 .. Len(s) : s[p].id = id
    BY <1>2 DEF Ids
  <2>2. /\ q \in Seq(Entries) /\ Len(q) = Len(s) - 1
        /\ \A i \in 1 .. Len(q) : q[i] = IF i < p THEN s[i] ELSE s[i + 1]
    BY <2>1, OthersLemma
  <2> DEFINE f == [i \in 1 .. Len(q) |-> IF i < p THEN i ELSE i + 1]
  <2> HIDE DEF q
  <2>3. f \in [1 .. Len(q) -> 1 .. Len(s)]
    BY <2>2
  <2>4. \A i \in 1 .. Len(q) : f[i] = IF i < p THEN i ELSE i + 1
    OBVIOUS
  <2> HIDE DEF f
  <2>5. \A i \in 1 .. Len(q) : q[i] = s[f[i]] /\ f[i] # p
    BY <2>2, <2>3, <2>4
  <2>6. \A i, j \in 1 .. Len(q) : i < j => f[i] < f[j]
    BY <2>2, <2>4
  <2>7. ASSUME NEW k \in 1 .. Len(s), s[k].id # id
        PROVE  \E i \in 1 .. Len(q) : f[i] = k
    <3>1. CASE k < p
      BY <2>2, <2>4, <3>1
    <3>2. CASE k > p
      <4>1. k - 1 \in 1 .. Len(q) /\ ~(k - 1 < p)
        BY <2>2, <3>2
      <4>2. f[k - 1] = k
        BY <2>4, <4>1
      <4> QED BY <4>1, <4>2
    <3> QED BY <2>1, <2>7, <3>1, <3>2
  <2>8. \A i \in 1 .. Len(q) : s[f[i]].id # id
    BY <2>1, <2>3, <2>5 DEF Distinct
  <2>9. Embeds(s, q, f, id)
    BY <2>3, <2>5, <2>6, <2>7, <2>8 DEF Embeds
  <2>10. q \in Seq(Entries) /\ Len(q) <= Len(s) /\ (id \in Ids(s) => Len(q) = Len(s) - 1)
    BY <2>2
  <2> QED BY <2>9, <2>10, Zenon DEF q
<1> QED BY <1>1, <1>2

(* The three facts about the deduplication store. *)
Expiries(s) == \A i \in 1 .. Len(s) : s[i].expires = noted[s[i].id] + TTL

LaterAreOthers(s) == \A i, j \in 1 .. Len(s) : i < j => s[j].id \in others[s[i].id]

StoreInv ==
    /\ store \in Seq(Entries) /\ Distinct(store) /\ Len(store) <= MaxSize
    /\ noted \in [Keys -> Int]
    /\ others \in [Keys -> SUBSET Keys]
    /\ \A k \in Keys : IsFiniteSet(others[k])
    /\ Expiries(store)
    /\ LaterAreOthers(store)

Takes(k) ==
    /\ store' = AfterSeen(store, k, clock)
    /\ noted' = IF IsFresh(store, k, clock) THEN noted ELSE [noted EXCEPT ![k] = clock]
    /\ Delivered(k)

(* The entry that seen leaves last. *)
Latest(k) ==
    IF IsFresh(store, k, clock) THEN CHOOSE e \in ToSet(store) : e.id = k
                                ELSE [id |-> k, expires |-> clock + TTL]

LEMMA LatestLemma ==
    ASSUME StoreInv, NEW k \in Keys, Takes(k), clock \in Int
    PROVE  /\ Latest(k) \in Entries /\ Latest(k).id = k
           /\ Latest(k).expires = noted'[k] + TTL
           /\ IsFresh(store, k, clock) => k \in Ids(store)
<1>1. CASE IsFresh(store, k, clock)
  <2>1. ToSet(store) = {store[j] : j \in 1 .. Len(store)}
    BY DEF ToSet, StoreInv
  <2>2. \E x \in ToSet(store) : x.id = k
    BY <1>1 DEF IsFresh
  <2>3. Latest(k) \in ToSet(store) /\ Latest(k).id = k
    BY <1>1, <2>2, Zenon DEF Latest
  <2>4. PICK j \in 1 .. Len(store) : store[j] = Latest(k)
    BY <2>1, <2>3
  <2>5. store[j] \in Entries /\ k \in Ids(store)
    BY <2>3, <2>4 DEF StoreInv, Ids
  <2>6. store[j].expires = noted[k] + TTL
    BY <2>3, <2>4 DEF StoreInv, Expiries
  <2> QED BY <1>1, <2>3, <2>4, <2>5, <2>6 DEF Takes
<1>2. CASE ~IsFresh(store, k, clock)
  BY <1>2, IdempotencyAssumption DEF StoreInv, Takes, Entries, Latest
<1> QED BY <1>1, <1>2

LEMMA HistoryLemma ==
    ASSUME StoreInv, NEW k \in Keys, Takes(k), clock \in Int
    PROVE  /\ noted' \in [Keys -> Int]
           /\ \A l \in Keys : l # k => noted'[l] = noted[l]
           /\ others' \in [Keys -> SUBSET Keys]
           /\ \A l \in Keys : l # k => others'[l] = others[l] \union {k}
           /\ others'[k] = {}
           /\ \A l \in Keys : IsFiniteSet(others'[l])
<1>1. /\ noted' \in [Keys -> Int]
      /\ \A l \in Keys : l # k => noted'[l] = noted[l]
  BY DEF StoreInv, Takes
<1>2. /\ others' \in [Keys -> SUBSET Keys]
      /\ \A l \in Keys : l # k => others'[l] = others[l] \union {k}
      /\ others'[k] = {}
  BY DEF StoreInv, Takes, Delivered
<1>3. ASSUME NEW l \in Keys PROVE IsFiniteSet(others'[l])
  <2>1. IsFiniteSet(others[l]) /\ IsFiniteSet(others[l] \union {k}) /\ IsFiniteSet({})
    BY FS_EmptySet, FS_AddElement DEF StoreInv
  <2> QED BY <1>2, <2>1
<1> QED BY <1>1, <1>2, <1>3

(* The entries of the store before the evictions of seen: those that were  *)
(* there, in their order, and the delivered key's last.                    *)
Grown(s, g, f, k) ==
    /\ g \in Seq(Entries) /\ Len(g) > 0
    /\ g[Len(g)].id = k
    /\ f \in [1 .. Len(g) - 1 -> 1 .. Len(s)]
    /\ \A i \in 1 .. Len(g) - 1 : g[i] = s[f[i]] /\ s[f[i]].id # k
    /\ \A i, j \in 1 .. Len(g) - 1 : i < j => f[i] < f[j]
    /\ \A l \in 1 .. Len(s) : s[l].id # k => \E i \in 1 .. Len(g) - 1 : f[i] = l

LEMMA AppendedLemma ==
    ASSUME NEW q \in Seq(Entries), NEW e \in Entries
    PROVE  /\ Append(q, e) \in Seq(Entries)
           /\ Len(Append(q, e)) = Len(q) + 1
           /\ Len(Append(q, e)) > 0 /\ Len(Append(q, e)) - 1 = Len(q)
           /\ Append(q, e)[Len(Append(q, e))] = e
           /\ \A i \in 1 .. Len(q) : Append(q, e)[i] = q[i]
OBVIOUS

LEMMA GrownLemma ==
    ASSUME NEW s \in Seq(Entries), Distinct(s), NEW k \in Keys, NEW e \in Entries, e.id = k
    PROVE  \E g, f : /\ g = Append(Others(s, k), e)
                     /\ Len(g) <= Len(s) + 1 /\ (k \in Ids(s) => Len(g) = Len(s))
                     /\ g[Len(g)] = e
                     /\ Grown(s, g, f, k)
<1> DEFINE q == Others(s, k)
<1>1. /\ q \in Seq(Entries) /\ Len(q) <= Len(s) /\ (k \in Ids(s) => Len(q) = Len(s) - 1)
      /\ Len(s) \in Nat /\ Len(q) \in Nat
  BY EmbeddingLemma
<1>2. PICK f : Embeds(s, q, f, k)
  BY EmbeddingLemma
<1> HIDE DEF q
<1> DEFINE g == Append(q, e)
<1>3. /\ g \in Seq(Entries) /\ Len(g) = Len(q) + 1 /\ Len(g) - 1 = Len(q) /\ Len(g) > 0
      /\ g[Len(g)] = e
      /\ \A i \in 1 .. Len(q) : g[i] = q[i]
  BY <1>1, AppendedLemma
<1> HIDE DEF g
<1>4. /\ f \in [1 .. Len(g) - 1 -> 1 .. Len(s)]
      /\ \A i \in 1 .. Len(g) - 1 : g[i] = s[f[i]] /\ s[f[i]].id # k
      /\ \A i, j \in 1 .. Len(g) - 1 : i < j => f[i] < f[j]
      /\ \A l \in 1 .. Len(s) : s[l].id # k => \E i \in 1 .. Len(g) - 1 : f[i] = l
  <2>1. Len(g) - 1 = Len(q)
    BY <1>3
  <2> QED BY <1>2, <1>3, <2>1, Zenon DEF Embeds
<1>5. Grown(s, g, f, k)
  BY <1>3, <1>4 DEF Grown
<1>6. Len(g) <= Len(s) + 1 /\ (k \in Ids(s) => Len(g) = Len(s))
  BY <1>1, <1>3
<1> QED BY <1>3, <1>5, <1>6, Zenon DEF g, q

(* The facts about the store hold of the grown one after the delivery.     *)
LEMMA GrownKeeps ==
    ASSUME StoreInv, NEW k \in Keys, Takes(k), clock \in Int, NEW g, NEW f,
           Grown(store, g, f, k), g[Len(g)].expires = noted'[k] + TTL
    PROVE  /\ g \in Seq(Entries) /\ Distinct(g)
           /\ \A i \in 1 .. Len(g) : g[i].expires = noted'[g[i].id] + TTL
           /\ \A i, j \in 1 .. Len(g) : i < j => g[j].id \in others'[g[i].id]
           /\ Ids(g) = Ids(store) \union {k}
<1> DEFINE n == Len(g) - 1
<1>0. n \in Nat /\ Len(g) = n + 1
  BY DEF Grown
<1>1. /\ n \in Nat /\ Len(g) = n + 1 /\ Len(store) \in Nat
      /\ g \in Seq(Entries) /\ g[n + 1].id = k
  BY DEF Grown, StoreInv
<1>2. /\ f \in [1 .. n -> 1 .. Len(store)]
      /\ \A i \in 1 .. n : g[i] = store[f[i]] /\ g[i].id # k
      /\ \A i, j \in 1 .. n : i < j => f[i] < f[j]
      /\ \A l \in 1 .. Len(store) : store[l].id # k => \E i \in 1 .. n : f[i] = l
  BY DEF Grown
<1> HIDE DEF n
<1>3. \A i \in 1 .. n : store[f[i]] \in Entries /\ g[i].id \in Keys /\ g[i] = store[f[i]]
  <2> SUFFICES ASSUME NEW i \in 1 .. n
               PROVE  store[f[i]] \in Entries /\ g[i].id \in Keys /\ g[i] = store[f[i]]
    OBVIOUS
  <2>1. f[i] \in 1 .. Len(store) /\ g[i] = store[f[i]]
    BY <1>2
  <2>2. store[f[i]] \in Entries
    BY <2>1 DEF StoreInv
  <2> QED BY <2>1, <2>2 DEF Entries
<1>4. /\ \A l \in Keys : l # k => noted'[l] = noted[l]
      /\ \A l \in Keys : l # k => others'[l] = others[l] \union {k}
  BY HistoryLemma
<1>5. \A i \in 1 .. Len(g) : i \in 1 .. n \/ i = n + 1
  BY <1>1
<1>6. Distinct(g)
  <2>1. \A i, j \in 1 .. n : g[i].id = g[j].id => i = j
    <3> SUFFICES ASSUME NEW i \in 1 .. n, NEW j \in 1 .. n, i < j PROVE g[i].id # g[j].id
      BY <1>0
    <3>1. f[i] \in 1 .. Len(store) /\ f[j] \in 1 .. Len(store) /\ f[i] < f[j]
      BY <1>2
    <3>2. store[f[i]].id # store[f[j]].id
      BY <3>1 DEF StoreInv, Distinct
    <3> QED BY <1>2, <3>2
  <2> QED BY <1>1, <1>2, <1>5, <2>1 DEF Distinct
<1>7. ASSUME NEW i \in 1 .. Len(g) PROVE g[i].expires = noted'[g[i].id] + TTL
  <2>1. CASE i \in 1 .. n
    <3>1. store[f[i]].expires = noted[store[f[i]].id] + TTL
      BY <1>2, <2>1 DEF StoreInv, Expiries
    <3> QED BY <1>2, <1>3, <1>4, <2>1, <3>1
  <2>2. CASE i = n + 1
    BY <1>1, <2>2
  <2> QED BY <1>5, <2>1, <2>2
<1>8. ASSUME NEW i \in 1 .. Len(g), NEW j \in 1 .. Len(g), i < j
      PROVE  g[j].id \in others'[g[i].id]
  <2>1. i \in 1 .. n
    BY <1>0, <1>8
  <2>2. others'[g[i].id] = others[g[i].id] \union {k}
    BY <1>2, <1>3, <1>4, <2>1
  <2>3. CASE j \in 1 .. n
    <3>1. f[i] \in 1 .. Len(store) /\ f[j] \in 1 .. Len(store) /\ f[i] < f[j]
      BY <1>2, <1>8, <2>1, <2>3
    <3>2. store[f[j]].id \in others[store[f[i]].id]
      BY <3>1 DEF StoreInv, LaterAreOthers
    <3> QED BY <1>2, <2>1, <2>2, <2>3, <3>2
  <2>4. CASE j = n + 1
    BY <1>1, <2>2, <2>4
  <2> QED BY <1>5, <2>3, <2>4
<1>9. Ids(g) = Ids(store) \union {k}
  <2>1. ASSUME NEW l \in Ids(g) PROVE l \in Ids(store) \union {k}
    BY <1>1, <1>2, <1>5, <2>1 DEF Ids
  <2>2. ASSUME NEW l \in Ids(store), l # k PROVE l \in Ids(g)
    <3>1. PICK j \in 1 .. Len(store) : store[j].id = l
      BY <2>2 DEF Ids
    <3>2. PICK i \in 1 .. n : f[i] = j
      BY <1>2, <2>2, <3>1
    <3>3. i \in 1 .. Len(g) /\ g[i].id = l
      BY <1>1, <1>2, <3>1, <3>2
    <3> QED BY <3>3 DEF Ids
  <2>3. k \in Ids(g)
    BY <1>1 DEF Ids
  <2> QED BY <2>1, <2>2, <2>3
<1> QED BY <1>1, <1>6, <1>7, <1>8, <1>9

(* What a delivery does to the store: it keeps the facts about it, and a   *)
(* key leaves it only when MaxSize others came since its own delivery.     *)
Forgotten(k) == Cardinality(others[k]) >= MaxSize

LEMMA StoreKeeps ==
    ASSUME StoreInv, NEW k \in Keys, Takes(k), clock \in Int
    PROVE  /\ StoreInv'
           /\ Ids(store') \subseteq Ids(store) \union {k}
           /\ \A l \in Ids(store) \union {k} : l \in Ids(store') \/ Forgotten(l)'
<1> DEFINE e == Latest(k)
<1>1. /\ e \in Entries /\ e.id = k /\ e.expires = noted'[k] + TTL
      /\ IsFresh(store, k, clock) => k \in Ids(store)
  BY LatestLemma
<1>2. store \in Seq(Entries) /\ Distinct(store) /\ Len(store) <= MaxSize /\ Len(store) \in Nat
  BY DEF StoreInv
<1>3. PICK g, f : /\ g = Append(Others(store, k), e)
                  /\ Len(g) <= Len(store) + 1 /\ (k \in Ids(store) => Len(g) = Len(store))
                  /\ g[Len(g)] = e
                  /\ Grown(store, g, f, k)
  BY <1>1, <1>2, GrownLemma
<1>4. /\ g \in Seq(Entries) /\ Distinct(g)
      /\ \A i \in 1 .. Len(g) : g[i].expires = noted'[g[i].id] + TTL
      /\ \A i, j \in 1 .. Len(g) : i < j => g[j].id \in others'[g[i].id]
      /\ Ids(g) = Ids(store) \union {k}
  BY <1>1, <1>3, GrownKeeps
<1>5. /\ noted' \in [Keys -> Int]
      /\ others' \in [Keys -> SUBSET Keys]
      /\ \A l \in Keys : IsFiniteSet(others'[l])
  BY HistoryLemma
<1>6. Len(g) \in Nat /\ Len(g) > 0 /\ MaxSize \in Nat
      /\ Len(g) <= MaxSize + 1 /\ (IsFresh(store, k, clock) => Len(g) <= MaxSize)
  BY <1>1, <1>2, <1>3, <1>4, IdempotencyAssumption DEF Grown
<1>7. store' = IF Len(g) <= MaxSize THEN g ELSE SubSeq(g, 2, Len(g))
  <2>1. CASE IsFresh(store, k, clock)
    BY <1>3, <1>6, <2>1 DEF Takes, AfterSeen, Others, Latest
  <2>2. CASE ~IsFresh(store, k, clock)
    <3>1. store' = SubSeq(g, IF Len(g) - MaxSize > 0 THEN Len(g) - MaxSize + 1 ELSE 1, Len(g))
      BY <1>3, <2>2 DEF Takes, AfterSeen, Others, Latest
    <3>2. CASE Len(g) <= MaxSize
      <4>1. SubSeq(g, 1, Len(g)) = g
        BY <1>4
      <4>2. (IF Len(g) - MaxSize > 0 THEN Len(g) - MaxSize + 1 ELSE 1) = 1
        BY <1>6, <3>2
      <4>3. store' = SubSeq(g, 1, Len(g))
        BY <3>1, <4>2, Zenon
      <4> QED BY <3>2, <4>1, <4>3
    <3>3. CASE Len(g) > MaxSize
      <4>1. Len(g) - MaxSize > 0 /\ Len(g) - MaxSize + 1 = 2
        BY <1>6, <3>3
      <4>2. (IF Len(g) - MaxSize > 0 THEN Len(g) - MaxSize + 1 ELSE 1) = 2
        BY <4>1
      <4>3. ~(Len(g) <= MaxSize)
        BY <1>6, <3>3
      <4>4. store' = SubSeq(g, 2, Len(g))
        BY <3>1, <4>2, Zenon
      <4> QED BY <4>3, <4>4
    <3> QED BY <1>6, <3>2, <3>3
  <2> QED BY <2>1, <2>2
<1> HIDE DEF e
<1>8. CASE Len(g) <= MaxSize
  BY <1>4, <1>5, <1>7, <1>8 DEF StoreInv, Expiries, LaterAreOthers
<1>9. CASE Len(g) > MaxSize
  <2> DEFINE s == SubSeq(g, 2, Len(g))
  <2>1. /\ s \in Seq(Entries) /\ Len(s) = MaxSize
        /\ \A i \in 1 .. Len(s) : s[i] = g[i + 1]
        /\ Len(g) = MaxSize + 1
    BY <1>4, <1>6, <1>9
  <2>2. store' = s
    BY <1>6, <1>7, <1>9
  <2> HIDE DEF s
  <2>3. \A i \in 1 .. MaxSize : i + 1 \in 1 .. Len(g) /\ 1 \in 1 .. Len(g) /\ s[i] = g[i + 1]
    BY <1>6, <2>1
  <2>4. Distinct(s)
    BY <1>4, <1>6, <2>1, <2>3 DEF Distinct
  <2>5. \A i \in 1 .. Len(s) : s[i].expires = noted'[s[i].id] + TTL
    BY <1>4, <2>1, <2>3
  <2>6. \A i, j \in 1 .. Len(s) : i < j => s[j].id \in others'[s[i].id]
    BY <1>4, <1>6, <2>1, <2>3
  <2>7. StoreInv'
    BY <1>5, <1>6, <2>1, <2>2, <2>4, <2>5, <2>6 DEF StoreInv, Expiries, LaterAreOthers, Distinct
  <2>8. Ids(s) \subseteq Ids(g)
    BY <2>1, <2>3 DEF Ids
  <2>9. ASSUME NEW l \in Ids(g), l \notin Ids(s) PROVE Cardinality(others'[l]) >= MaxSize
    <3>1. PICK i \in 1 .. Len(g) : g[i].id = l
      BY <2>9 DEF Ids
    <3>2. i = 1
      <4>1. ASSUME i # 1 PROVE FALSE
        <5>1. i - 1 \in 1 .. MaxSize /\ s[i - 1] = g[i]
          BY <1>6, <2>1, <4>1
        <5> QED BY <2>1, <2>9, <3>1, <5>1 DEF Ids
      <4> QED BY <4>1
    <3> DEFINE h == [j \in 1 .. MaxSize |-> s[j].id]
    <3>3. l \in Keys /\ IsFiniteSet(others'[l])
      <4>1. g[i] \in Entries
        BY <1>4
      <4> QED BY <1>5, <3>1, <4>1 DEF Entries
    <3>4. \A j \in 1 .. MaxSize : s[j].id \in others'[l]
      BY <1>4, <1>6, <2>3, <3>1, <3>2
    <3>5. h \in Injection(1 .. MaxSize, others'[l])
      BY <2>1, <2>4, <3>4 DEF Injection, IsInjective, Distinct
    <3>6. Cardinality(1 .. MaxSize) <= Cardinality(others'[l])
      BY <3>3, <3>5, FS_Injection
    <3>7. Cardinality(1 .. MaxSize) = MaxSize
      BY <1>6, FS_Interval
    <3> QED BY <3>6, <3>7
  <2> QED BY <1>4, <2>2, <2>7, <2>8, <2>9 DEF Forgotten
<1> QED BY <1>6, <1>8, <1>9

---------------------------------------------------------------------------
(* The inductive invariant. *)
Saves == [order : PosEvents, at : Nat]

WellTyped ==
    /\ clock \in Nat
    /\ restarts \in Nat
    /\ counted \in [Opening -> Nat]
    /\ acked \subseteq PosEvents
    /\ rows \subseteq Saves /\ IsFiniteSet(rows)
    /\ saving \subseteq Saves /\ IsFiniteSet(saving)

(* A save that is awaited is not in the table, and no key has one newer    *)
(* than its last acceptance.                                               *)
Stamped ==
    /\ \A k \in Keys : noted[k] <= clock
    /\ rows \intersect saving = {}
    /\ \A r \in rows \union saving : r.at <= noted[KeyOf(r.order)]

Taken(o) == RowsOf(o) # {} \/ SavesOf(o) # {} \/ o \in unsaved

(* An order with the key was taken. *)
KeyTaken(k) == \E p \in PosEvents : KeyOf(p) = k /\ Taken(p)

KnownAreTaken == \A o \in PosEvents : KeyOf(o) \in Ids(store) \/ o \in acked => KeyTaken(KeyOf(o))

CountedAreKnown ==
    \A o \in Opening : counted[o] > 0 => KeyOf(o) \in Ids(store) \/ Forgotten(KeyOf(o))

(* Until it restarts, the server counts an order whenever it saves it.     *)
CountIsRows ==
    restarts = 0 => \A o \in Opening \ unsaved : counted[o] = Cardinality(RowsOf(o)) + Cardinality(SavesOf(o))

IInv == WellTyped /\ StoreInv /\ Stamped /\ KnownAreTaken /\ CountedAreKnown /\ CountIsRows

LEMMA EventFacts ==
    /\ PosEvents \subseteq Orders /\ Opening \subseteq PosEvents /\ Events \subseteq Orders
    /\ \A o \in Orders : KeyOf(o) \in Keys
    /\ \A o \in Bookings, p \in PosEvents : KeyOf(o) # KeyOf(p)
<1>1. /\ PosEvents \subseteq Orders /\ Opening \subseteq PosEvents /\ Events \subseteq Orders
      /\ \A o \in Orders : KeyOf(o) \in Keys
  BY DEF PosEvents, Opening, Events, Keys
<1>2. ASSUME NEW o \in Bookings, NEW p \in PosEvents PROVE KeyOf(o) # KeyOf(p)
  <2>1. Payload[o].provider = "sevenrooms" /\ Payload[p].provider # "sevenrooms"
    BY DEF PosEvents, Bookings, IsBooking
  <2> QED BY <2>1 DEF KeyOf, Key
<1> QED BY <1>1, <1>2

LEMMA InitLemma == Init => IInv
<1> SUFFICES ASSUME Init PROVE IInv
  OBVIOUS
<1>1. /\ store = <<>> /\ store \in Seq(Entries) /\ Len(store) = 0
      /\ rows = {} /\ saving = {} /\ acked = {} /\ unsaved = {} /\ clock = 0 /\ restarts = 0
      /\ counted = [o \in Opening |-> 0]
      /\ noted = [k \in Keys |-> -1] /\ others = [k \in Keys |-> {}]
  BY DEF Init
<1>2. WellTyped /\ Stamped
  BY <1>1, FS_EmptySet DEF WellTyped, Stamped
<1>3. StoreInv
  BY <1>1, FS_EmptySet, IdempotencyAssumption DEF StoreInv, Distinct, Expiries, LaterAreOthers
<1>4. Ids(store) = {}
  BY <1>1 DEF Ids
<1>5. KnownAreTaken /\ CountedAreKnown
  BY <1>1, <1>4 DEF KnownAreTaken, CountedAreKnown
<1>6. CountIsRows
  <2>1. \A o \in Opening : RowsOf(o) = {} /\ SavesOf(o) = {} /\ counted[o] = 0
    BY <1>1 DEF RowsOf, SavesOf
  <2> QED BY <2>1, FS_EmptySet DEF CountIsRows
<1> QED BY <1>2, <1>3, <1>5, <1>6 DEF IInv

(* A delivery keeps what the live state counts known or forgotten.         *)
LEMMA DeliveryLemma ==
    ASSUME IInv, NEW o \in Events, Takes(KeyOf(o))
    PROVE  /\ StoreInv'
           /\ Ids(store') \subseteq Ids(store) \union {KeyOf(o)}
           /\ \A p \in Opening : counted[p] > 0 \/ p = o =>
                  KeyOf(p) \in Ids(store') \/ Forgotten(KeyOf(p))'
           /\ \A k \in Keys : noted[k] <= noted'[k] /\ noted'[k] <= clock
<1> DEFINE k == KeyOf(o)
<1>1. k \in Keys /\ clock \in Int /\ StoreInv
  BY EventFacts DEF IInv, WellTyped
<1>2. /\ StoreInv'
      /\ Ids(store') \subseteq Ids(store) \union {k}
      /\ \A l \in Ids(store) \union {k} : l \in Ids(store') \/ Forgotten(l)'
  BY <1>1, StoreKeeps
<1>3. ASSUME NEW l \in Keys, l # k, Forgotten(l) PROVE Forgotten(l)'
  <2>1. /\ others'[l] = others[l] \union {k}
        /\ IsFiniteSet(others[l]) /\ IsFiniteSet(others'[l])
    BY <1>1, <1>3, HistoryLemma DEF StoreInv
  <2>2. /\ Cardinality(others[l]) <= Cardinality(others'[l])
        /\ Cardinality(others[l]) \in Nat /\ Cardinality(others'[l]) \in Nat
    BY <2>1, FS_Subset, FS_CardinalityType
  <2> QED BY <1>3, <2>2, IdempotencyAssumption DEF Forgotten
<1>4. ASSUME NEW p \in Opening, counted[p] > 0 \/ p = o
      PROVE  KeyOf(p) \in Ids(store') \/ Forgotten(KeyOf(p))'
  <2>1. KeyOf(p) \in Keys
    BY EventFacts
  <2> QED BY <1>2, <1>3, <1>4, <2>1 DEF IInv, CountedAreKnown
<1>5. ASSUME NEW l \in Keys PROVE noted[l] <= noted'[l] /\ noted'[l] <= clock
  BY <1>1 DEF Takes, StoreInv, IInv, Stamped
<1> QED BY <1>2, <1>4, <1>5

(* An order that was taken stays so: a save that is not awaited any more   *)
(* is in the table, or was refused or cut off.                             *)
LEMMA TakenLemma ==
    ASSUME rows \subseteq rows', unsaved \subseteq unsaved',
           \A r \in saving : r \in saving' \/ r \in rows' \/ r.order \in unsaved'
    PROVE  /\ \A o : Taken(o) => Taken(o)'
           /\ \A k : KeyTaken(k) => KeyTaken(k)'
<1>1. ASSUME NEW o, Taken(o) PROVE Taken(o)'
  BY <1>1 DEF Taken, RowsOf, SavesOf
<1> QED BY <1>1 DEF KeyTaken

LEMMA CountLemma ==
    ASSUME WellTyped, NEW o
    PROVE  /\ IsFiniteSet(RowsOf(o)) /\ Cardinality(RowsOf(o)) \in Nat
           /\ IsFiniteSet(SavesOf(o)) /\ Cardinality(SavesOf(o)) \in Nat
<1>1. RowsOf(o) \subseteq rows /\ SavesOf(o) \subseteq saving
  BY DEF RowsOf, SavesOf
<1> QED BY <1>1, FS_Subset, FS_CardinalityType DEF WellTyped

LEMMA DeliverAgainKeeps == ASSUME IInv, NEW o \in Orders, DeliverAgain(o) PROVE IInv'
<1> USE DEF IInv, DeliverAgain
<1>1. /\ o \in Events /\ Takes(KeyOf(o)) /\ KeyOf(o) \in Ids(store)
      /\ acked' \subseteq acked \union ({o} \intersect PosEvents)
      /\ UNCHANGED <<clock, counted, saving, rows, restarts, unsaved, noted>>
  BY DEF Takes, IsFresh, ToSet, Ids, Answer, StoreInv
<1>2. /\ StoreInv'
      /\ Ids(store') \subseteq Ids(store)
      /\ \A p \in Opening : counted[p] > 0 =>
             KeyOf(p) \in Ids(store') \/ Forgotten(KeyOf(p))'
  BY <1>1, DeliveryLemma
<1>3. WellTyped' /\ Stamped' /\ CountIsRows'
  BY <1>1 DEF WellTyped, Stamped, CountIsRows, RowsOf, SavesOf
<1>4. KnownAreTaken'
  BY <1>1, <1>2, TakenLemma DEF KnownAreTaken
<1>5. CountedAreKnown'
  BY <1>1, <1>2 DEF CountedAreKnown
<1> QED BY <1>2, <1>3, <1>4, <1>5

LEMMA DeliverBookingKeeps == ASSUME IInv, NEW o \in Orders, DeliverBooking(o) PROVE IInv'
<1> USE DEF IInv, DeliverBooking
<1>1. /\ o \in Events /\ Takes(KeyOf(o))
      /\ acked' = acked
      /\ \A p \in PosEvents : KeyOf(p) # KeyOf(o)
      /\ UNCHANGED <<clock, counted, saving, rows, restarts, unsaved>>
  BY EventFacts DEF Takes, Accept, Answer, Bookings, PosEvents
<1>2. /\ StoreInv'
      /\ Ids(store') \subseteq Ids(store) \union {KeyOf(o)}
      /\ \A p \in Opening : counted[p] > 0 =>
             KeyOf(p) \in Ids(store') \/ Forgotten(KeyOf(p))'
      /\ \A k \in Keys : noted[k] <= noted'[k] /\ noted'[k] <= clock
      /\ \A k \in Keys : noted[k] \in Int /\ noted'[k] \in Int
  BY <1>1, DeliveryLemma DEF StoreInv
<1>3. WellTyped' /\ CountIsRows'
  BY <1>1 DEF WellTyped, CountIsRows, RowsOf, SavesOf
<1>4. Stamped'
  <2>1. \A r \in rows \union saving : r.at \in Int /\ KeyOf(r.order) \in Keys
    BY EventFacts DEF WellTyped, Saves
  <2> QED BY <1>1, <1>2, <2>1 DEF Stamped, WellTyped
<1>5. KnownAreTaken'
  BY <1>1, <1>2, TakenLemma DEF KnownAreTaken
<1>6. CountedAreKnown'
  BY <1>1, <1>2 DEF CountedAreKnown
<1> QED BY <1>2, <1>3, <1>4, <1>5, <1>6

LEMMA DeliverNewKeeps == ASSUME IInv, NEW o \in Orders, DeliverNew(o) PROVE IInv'
<1> USE DEF IInv, DeliverNew
<1> DEFINE s == [order |-> o, at |-> clock]
<1>1. /\ o \in PosEvents /\ o \in Events /\ Takes(KeyOf(o)) /\ noted'[KeyOf(o)] = clock
      /\ KeyOf(o) \in Keys /\ clock > noted[KeyOf(o)]
      /\ UNCHANGED <<clock, rows, acked, restarts, unsaved>>
      /\ saving' = saving \union {s}
  BY EventFacts DEF Takes, Accept, PosEvents, StoreInv
<1>2. /\ s \in Saves /\ s.order = o /\ s.at = clock
      /\ s \notin rows /\ s \notin saving
  BY <1>1 DEF Saves, WellTyped, Stamped, StoreInv
<1> HIDE DEF s
<1>3. /\ StoreInv'
      /\ Ids(store') \subseteq Ids(store) \union {KeyOf(o)}
      /\ \A p \in Opening : counted[p] > 0 \/ p = o =>
             KeyOf(p) \in Ids(store') \/ Forgotten(KeyOf(p))'
      /\ \A k \in Keys : noted[k] <= noted'[k] /\ noted'[k] <= clock
      /\ \A k \in Keys : noted[k] \in Int /\ noted'[k] \in Int
  BY <1>1, DeliveryLemma DEF StoreInv
<1>4. /\ counted' \in [Opening -> Nat]
      /\ \A p \in Opening : counted'[p] = IF p = o THEN counted[p] + 1 ELSE counted[p]
  BY DEF WellTyped
<1>5. WellTyped'
  <2>1. IsFiniteSet(saving')
    BY <1>1, FS_AddElement DEF WellTyped
  <2> QED BY <1>1, <1>2, <1>4, <2>1 DEF WellTyped
<1>6. Stamped'
  <2>1. \A r \in rows \union saving : r.at \in Int /\ KeyOf(r.order) \in Keys
    BY EventFacts DEF WellTyped, Saves
  <2>2. \A r \in rows \union saving : r.at <= noted'[KeyOf(r.order)]
    BY <1>3, <2>1 DEF Stamped
  <2>3. s.at <= noted'[KeyOf(s.order)]
    BY <1>1, <1>2 DEF WellTyped
  <2> QED BY <1>1, <1>2, <1>3, <2>2, <2>3 DEF Stamped
<1>7. KnownAreTaken'
  <2>1. \A k : KeyTaken(k) => KeyTaken(k)'
    BY <1>1, TakenLemma
  <2>2. KeyTaken(KeyOf(o))'
    <3>1. s \in SavesOf(o)'
      BY <1>1, <1>2 DEF SavesOf
    <3> QED BY <1>1, <3>1 DEF KeyTaken, Taken
  <2>3. ASSUME NEW p \in PosEvents, KeyOf(p) \in Ids(store)' \/ p \in acked'
        PROVE  KeyTaken(KeyOf(p))'
    BY <1>1, <1>3, <2>1, <2>2, <2>3 DEF KnownAreTaken
  <2> QED BY <2>3 DEF KnownAreTaken
<1>8. CountedAreKnown'
  BY <1>3, <1>4 DEF CountedAreKnown, WellTyped
<1>9. CountIsRows'
  <2> SUFFICES ASSUME restarts = 0, NEW p \in Opening \ unsaved
               PROVE  counted'[p] = Cardinality(RowsOf(p)') + Cardinality(SavesOf(p)')
    BY <1>1 DEF CountIsRows
  <2>1. counted[p] = Cardinality(RowsOf(p)) + Cardinality(SavesOf(p)) /\ counted[p] \in Nat
    BY DEF CountIsRows, WellTyped
  <2>2. RowsOf(p)' = RowsOf(p)
    BY <1>1 DEF RowsOf
  <2>3. CASE p = o
    <3>1. SavesOf(p)' = SavesOf(p) \union {s} /\ s \notin SavesOf(p)
      BY <1>1, <1>2, <2>3 DEF SavesOf
    <3>2. Cardinality(SavesOf(p)') = Cardinality(SavesOf(p)) + 1
      BY <3>1, CountLemma, FS_AddElement
    <3> QED BY <1>4, <2>1, <2>2, <2>3, <3>2, CountLemma
  <2>4. CASE p # o
    <3>1. SavesOf(p)' = SavesOf(p)
      BY <1>1, <1>2, <2>4 DEF SavesOf
    <3> QED BY <1>4, <2>1, <2>2, <2>4, <3>1
  <2> QED BY <2>3, <2>4
<1> QED BY <1>3, <1>5, <1>6, <1>7, <1>8, <1>9

(* The steps that leave the store and its history alone. *)
LEMMA SameStoreLemma ==
    ASSUME IInv, UNCHANGED <<clock, store, counted, noted, others>>
    PROVE  /\ StoreInv' /\ CountedAreKnown' /\ Ids(store') = Ids(store)
           /\ \A k \in Keys : noted'[k] <= clock'
BY DEF IInv, StoreInv, Expiries, LaterAreOthers, CountedAreKnown, Forgotten, Stamped

LEMMA SavedKeeps == ASSUME IInv, NEW r \in saving, Saved(r) PROVE IInv'
<1> USE DEF IInv
<1>1. /\ rows' = rows \union {r} /\ saving' = saving \ {r}
      /\ acked' \subseteq acked \union {r.order}
      /\ UNCHANGED <<clock, store, counted, restarts, unsaved, noted, others>>
  BY DEF Saved, Insert, Answer, history
<1>2. r \in Saves /\ r \notin rows /\ r.order \in PosEvents
  BY DEF WellTyped, Saves, Stamped
<1>3. StoreInv' /\ CountedAreKnown' /\ Ids(store') = Ids(store)
  BY <1>1, SameStoreLemma
<1>4. WellTyped'
  <2>1. IsFiniteSet(rows') /\ IsFiniteSet(saving')
    BY <1>1, FS_AddElement, FS_RemoveElement DEF WellTyped
  <2> QED BY <1>1, <1>2, <2>1 DEF WellTyped
<1>5. Stamped'
  BY <1>1 DEF Stamped
<1>6. KnownAreTaken'
  <2>1. \A k : KeyTaken(k) => KeyTaken(k)'
    BY <1>1, TakenLemma
  <2>2. KeyTaken(KeyOf(r.order))'
    <3>1. r \in RowsOf(r.order)'
      BY <1>1 DEF RowsOf
    <3> QED BY <1>2, <3>1 DEF KeyTaken, Taken
  <2> QED BY <1>1, <2>1, <2>2 DEF KnownAreTaken
<1>7. CountIsRows'
  <2> SUFFICES ASSUME restarts = 0, NEW p \in Opening \ unsaved
               PROVE  counted[p] = Cardinality(RowsOf(p)') + Cardinality(SavesOf(p)')
    BY <1>1 DEF CountIsRows
  <2>1. counted[p] = Cardinality(RowsOf(p)) + Cardinality(SavesOf(p)) /\ counted[p] \in Nat
    BY DEF CountIsRows, WellTyped
  <2>2. CASE p = r.order
    <3>1. /\ RowsOf(p)' = RowsOf(p) \union {r} /\ r \notin RowsOf(p)
          /\ SavesOf(p)' = SavesOf(p) \ {r} /\ r \in SavesOf(p)
      BY <1>1, <1>2, <2>2 DEF RowsOf, SavesOf
    <3>2. /\ Cardinality(RowsOf(p)') = Cardinality(RowsOf(p)) + 1
          /\ Cardinality(SavesOf(p)') = Cardinality(SavesOf(p)) - 1
      <4>1. IsFiniteSet(RowsOf(p)) /\ IsFiniteSet(SavesOf(p))
        BY CountLemma
      <4>2. Cardinality(RowsOf(p) \union {r}) = Cardinality(RowsOf(p)) + 1
        BY <3>1, <4>1, FS_AddElement
      <4>3. Cardinality(SavesOf(p) \ {r}) = Cardinality(SavesOf(p)) - 1
        BY <3>1, <4>1, FS_RemoveElement
      <4> QED BY <3>1, <4>2, <4>3
    <3> QED BY <2>1, <3>2, CountLemma
  <2>3. CASE p # r.order
    <3>1. RowsOf(p)' = RowsOf(p) /\ SavesOf(p)' = SavesOf(p)
      BY <1>1, <2>3 DEF RowsOf, SavesOf
    <3> QED BY <2>1, <3>1
  <2> QED BY <2>2, <2>3
<1> QED BY <1>3, <1>4, <1>5, <1>6, <1>7

LEMMA SaveFailsKeeps == ASSUME IInv, NEW r \in saving, SaveFails(r) PROVE IInv'
<1> USE DEF IInv
<1>1. /\ rows' = rows /\ saving' = saving \ {r} /\ unsaved' = unsaved \union {r.order}
      /\ UNCHANGED <<clock, store, counted, restarts, acked, noted, others>>
  BY DEF SaveFails
<1>2. StoreInv' /\ CountedAreKnown' /\ Ids(store') = Ids(store)
  BY <1>1, SameStoreLemma
<1>3. WellTyped'
  <2>1. IsFiniteSet(saving')
    BY <1>1, FS_RemoveElement DEF WellTyped
  <2> QED BY <1>1, <2>1 DEF WellTyped
<1>4. Stamped'
  BY <1>1 DEF Stamped
<1>5. KnownAreTaken'
  <2>1. \A k : KeyTaken(k) => KeyTaken(k)'
    BY <1>1, TakenLemma
  <2> QED BY <1>1, <2>1 DEF KnownAreTaken
<1>6. CountIsRows'
  <2>1. ASSUME NEW p \in Opening \ unsaved' PROVE RowsOf(p)' = RowsOf(p) /\ SavesOf(p)' = SavesOf(p)
    BY <1>1, <2>1 DEF RowsOf, SavesOf
  <2> QED BY <1>1, <2>1 DEF CountIsRows
<1> QED BY <1>2, <1>3, <1>4, <1>5, <1>6

LEMMA RestartKeeps == ASSUME IInv, Restart PROVE IInv'
<1> USE DEF IInv
<1>1. PICK done \in SUBSET saving :
          /\ rows' = rows \union done
          /\ unsaved' = unsaved \union {r.order : r \in saving \ done}
  BY DEF Restart
<1>2. /\ restarts' = restarts + 1 /\ store' = <<>> /\ saving' = {}
      /\ counted' = [o \in Opening |-> 0] /\ others' = [k \in Keys |-> {}]
      /\ UNCHANGED <<clock, acked, noted>>
  BY DEF Restart
<1>3. StoreInv'
  <2>1. store' \in Seq(Entries) /\ Len(store') = 0
    BY <1>2
  <2> QED BY <1>2, <2>1, FS_EmptySet, IdempotencyAssumption
          DEF StoreInv, Distinct, Expiries, LaterAreOthers
<1>4. WellTyped'
  <2>1. IsFiniteSet(rows') /\ IsFiniteSet(saving')
    BY <1>1, <1>2, FS_Subset, FS_Union, FS_EmptySet DEF WellTyped
  <2> QED BY <1>1, <1>2, <2>1 DEF WellTyped
<1>5. Stamped'
  BY <1>1, <1>2 DEF Stamped
<1>6. KnownAreTaken'
  <2>1. \A k : KeyTaken(k) => KeyTaken(k)'
    BY <1>1, TakenLemma
  <2>2. Ids(store') = {}
    BY <1>2 DEF Ids
  <2> QED BY <1>2, <2>1, <2>2 DEF KnownAreTaken
<1>7. CountedAreKnown' /\ CountIsRows'
  BY <1>2 DEF CountedAreKnown, CountIsRows, WellTyped
<1> QED BY <1>3, <1>4, <1>5, <1>6, <1>7

LEMMA TickKeeps == ASSUME IInv, Tick \/ UNCHANGED vars PROVE IInv'
<1>1. /\ clock' \in {clock, clock + 1}
      /\ UNCHANGED <<store, counted, saving, rows, acked, restarts, unsaved, noted, others>>
  BY DEF Tick, server, history, vars
<1>2. StoreInv'
  BY <1>1 DEF IInv, StoreInv, Expiries, LaterAreOthers
<1>3. WellTyped' /\ Stamped' /\ CountedAreKnown'
  BY <1>1 DEF IInv, WellTyped, StoreInv, Stamped, CountedAreKnown, Forgotten
<1>4. KnownAreTaken' /\ CountIsRows'
  BY <1>1, TakenLemma DEF IInv, KnownAreTaken, CountIsRows, RowsOf, SavesOf
<1> QED BY <1>2, <1>3, <1>4 DEF IInv

---------------------------------------------------------------------------
LEMMA StepLemma == ASSUME IInv, [Next]_vars PROVE IInv'
BY DeliverAgainKeeps, DeliverNewKeeps, DeliverBookingKeeps, SavedKeeps, SaveFailsKeeps,
   RestartKeeps, TickKeeps DEF Next

(* The inductive invariant holds throughout. *)
THEOREM InvariantHolds == Spec => []IInv
<1>1. Init => IInv
  BY InitLemma
<1>2. IInv /\ [Next]_vars => IInv'
  BY StepLemma
<1> QED BY <1>1, <1>2, PTL DEF Spec

(* ingest_webhook counts an order of a provider that retries it again only *)
(* when seen has forgotten it: its entry is TTL old, or MaxSize others     *)
(* were delivered since.                                                   *)
THEOREM OnlyForgottenOrdersCountAgainHolds == Spec => OnlyForgottenOrdersCountAgain
<1>1. IInv /\ [Next]_vars =>
          [\A o \in Opening :
               counted[o] > 0 /\ counted'[o] > counted[o] =>
                   clock >= noted[KeyOf(o)] + TTL \/ Cardinality(others[KeyOf(o)]) >= MaxSize]_vars
  <2> SUFFICES ASSUME IInv, Next, NEW o \in Opening, counted[o] > 0, counted'[o] > counted[o]
               PROVE  \/ clock >= noted[KeyOf(o)] + TTL
                      \/ Cardinality(others[KeyOf(o)]) >= MaxSize
    OBVIOUS
  <2>1. counted \in [Opening -> Nat]
    BY DEF IInv, WellTyped
  <2>2. PICK p \in Orders : DeliverNew(p)
    BY <2>1 DEF Next, DeliverAgain, DeliverBooking, Saved, SaveFails, Restart, Tick, server
  <2>3. p = o
    BY <2>1, <2>2 DEF DeliverNew
  <2>4. CASE KeyOf(o) \in Ids(store)
    <3>1. PICK i \in 1 .. Len(store) : store[i].id = KeyOf(o)
      BY <2>4 DEF Ids
    <3>2. store[i] \in Entries /\ store[i].expires = noted[KeyOf(o)] + TTL
      BY <3>1 DEF IInv, StoreInv, Expiries
    <3>3. ~(store[i].expires > clock)
      BY <2>2, <2>3, <3>1 DEF DeliverNew, Accept, IsFresh, ToSet, IInv, StoreInv
    <3> QED BY <3>2, <3>3 DEF Entries, IInv, WellTyped
  <2>5. CASE Forgotten(KeyOf(o))
    BY <2>5 DEF Forgotten
  <2> QED BY <2>4, <2>5 DEF IInv, CountedAreKnown
<1> QED BY <1>1, InvariantHolds, PTL DEF Spec, OnlyForgottenOrdersCountAgain

(* An order that ingest_webhook answered is in pos_events or on its way,   *)
(* or its save failed or was cut off, or another order with its key was    *)
(* taken for it: however requests interleave, answers are lost, entries    *)
(* are evicted and expire and the server restarts.                         *)
THEOREM LossHasACauseHolds == Spec => []LossHasACause
<1>1. IInv => LossHasACause
  <2> SUFFICES ASSUME IInv, NEW o \in acked, ~Taken(o)
               PROVE  \E p \in PosEvents \ {o} : KeyOf(p) = KeyOf(o) /\ Taken(p)
    BY DEF LossHasACause, Taken
  <2>1. KeyTaken(KeyOf(o))
    BY DEF IInv, WellTyped, KnownAreTaken
  <2> QED BY <2>1 DEF KeyTaken
<1> QED BY <1>1, InvariantHolds, PTL

(* Until it restarts, an order that _on_pos_event counted is stored or is  *)
(* being stored by insert_pos_event, and has no more rows and saves than   *)
(* it was counted times.                                                   *)
THEOREM LiveAgreesWithTableHolds == Spec => []LiveAgreesWithTable
<1>1. IInv => LiveAgreesWithTable
  <2> SUFFICES ASSUME IInv, restarts = 0, NEW o \in Opening \ unsaved
               PROVE  /\ counted[o] > 0 => RowsOf(o) # {} \/ SavesOf(o) # {}
                      /\ Cardinality(RowsOf(o)) + Cardinality(SavesOf(o)) <= counted[o]
    BY DEF LiveAgreesWithTable
  <2>1. counted[o] = Cardinality(RowsOf(o)) + Cardinality(SavesOf(o)) /\ counted[o] \in Nat
    BY DEF IInv, CountIsRows, WellTyped
  <2>2. RowsOf(o) = {} /\ SavesOf(o) = {} => counted[o] = 0
    <3>1. Cardinality({}) = 0
      BY FS_EmptySet
    <3> QED BY <2>1, <3>1
  <2> QED BY <2>1, <2>2, CountLemma DEF IInv
<1> QED BY <1>1, InvariantHolds, PTL
============================================================================
